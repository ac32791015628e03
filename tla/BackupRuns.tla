----------------------------- MODULE BackupRuns -----------------------------
(***************************************************************************)
(* The periodic copy of the database (backup.service.ts,                   *)
(* table-snapshot.ts, google-sheets.mirror.ts): a timer or an admin starts *)
(* a run, the run reads the tables one after another, and rewrites the     *)
(* mirror unless what it read has the hash of what it sent last.           *)
(*                                                                         *)
(* A table is abstracted to a content, a hash to the copy it is taken of.  *)
(* Every call of the mirror may fail, having taken effect or not.          *)
(***************************************************************************)
EXTENDS Naturals

CONSTANTS
  TableCount,  \* tables, in the order the schema lists them
  Contents,    \* what a table may hold
  Cleared, NoCopy

Tables == 1..TableCount

ASSUME BackupAssumption ==
  /\ TableCount \in Nat \ {0}
  /\ Cleared \notin Contents
  /\ NoCopy \notin [Tables -> Contents]

VARIABLES
  db,       \* db[t]: the table in the database
  sheet,    \* sheet[t]: its sheet in the mirror
  sent,     \* lastHash: the copy sent last, in memory
  result,   \* state.lastResult
  run,      \* current: the run in progress
  forced,   \* the admin's "run now" in progress, or its answer
  damaged   \* ghost: a write since the last full one stopped half way

backupVars == <<db, sheet, sent, result, run, forced, damaged>>

NoRun == [stage |-> "none", next |-> 1, copy |-> NoCopy, force |-> FALSE, wrote |-> FALSE]
NoCall == [stage |-> "none", joined |-> FALSE, result |-> "none"]

BackupInit ==
  /\ db \in [Tables -> Contents]
  /\ sheet = [t \in Tables |-> Cleared]
  /\ sent = NoCopy
  /\ result = "none"
  /\ run = NoRun
  /\ forced = NoCall
  /\ damaged = FALSE

\* The rest of the system writes.
WriteTable(t, c) ==
  /\ db[t] # c
  /\ db' = [db EXCEPT ![t] = c]
  /\ UNCHANGED <<sheet, sent, result, run, forced, damaged>>

-----------------------------------------------------------------------------
(* run: current ??= execute                                                *)

\* The copy starts empty: a table not read yet counts as cleared.
StartRun(force) ==
  run' = [stage |-> "collect", next |-> 1, copy |-> [t \in Tables |-> Cleared],
          force |-> force, wrote |-> FALSE]

\* The timer; a tick that finds a run in progress waits for it and does no more.
RunTimer ==
  /\ run.stage = "none"
  /\ StartRun(FALSE)
  /\ UNCHANGED <<db, sheet, sent, result, forced, damaged>>

\* Mutant of RunForced: the call starts an ordinary run.
RunUnforced ==
  /\ forced.stage = "none"
  /\ forced' = [stage |-> "waiting", joined |-> run.stage # "none", result |-> "none"]
  /\ IF run.stage = "none" THEN StartRun(FALSE) ELSE UNCHANGED run
  /\ UNCHANGED <<db, sheet, sent, result, damaged>>

\* "Run now" joins a run in progress, forced or not.
RunForced ==
  /\ forced.stage = "none"
  /\ forced' = [stage |-> "waiting", joined |-> run.stage # "none", result |-> "none"]
  /\ IF run.stage = "none" THEN StartRun(TRUE) ELSE UNCHANGED run
  /\ UNCHANGED <<db, sheet, sent, result, damaged>>

ForcedAnswered ==
  /\ forced.stage = "answered"
  /\ forced' = NoCall
  /\ UNCHANGED <<db, sheet, sent, result, run, damaged>>

\* finally: current is null again and who waited gets the status.
Finish(outcome) ==
  /\ result' = outcome
  /\ run' = NoRun
  /\ forced' = IF forced.stage = "waiting"
               THEN [forced EXCEPT !.stage = "answered", !.result = outcome]
               ELSE forced

-----------------------------------------------------------------------------
(* execute                                                                 *)

\* collectTables: one query per table, with no transaction around them.
ReadTable ==
  /\ run.stage = "collect"
  /\ run.next \in Tables
  /\ run' = [run EXCEPT !.copy = [run.copy EXCEPT ![run.next] = db[run.next]],
                        !.next = run.next + 1]
  /\ UNCHANGED <<db, sheet, sent, result, forced, damaged>>

ReadFails ==
  /\ run.stage = "collect"
  /\ Finish("FAILED")
  /\ UNCHANGED <<db, sheet, sent, damaged>>

\* Mutant of Collected: the loop stops one table early.
CollectedEarly == run.stage = "collect" /\ run.next >= TableCount

Collected == run.stage = "collect" /\ run.next \notin Tables

\* Mutant of Unchanged: only the first table is hashed.
UnchangedFirst ==
  /\ Collected
  /\ ~run.force /\ sent # NoCopy
  /\ run.copy[1] = sent[1]
  /\ Finish("UNCHANGED")
  /\ UNCHANGED <<db, sheet, sent, damaged>>

\* The same hash as last time: nothing is sent.
Unchanged ==
  /\ Collected
  /\ ~run.force /\ run.copy = sent
  /\ Finish("UNCHANGED")
  /\ UNCHANGED <<db, sheet, sent, damaged>>

\* Mutant of Changed: the hash is remembered before the mirror is written.
ChangedRemembered ==
  /\ Collected
  /\ run.force \/ run.copy # sent
  /\ run' = [run EXCEPT !.stage = "layout", !.next = 1]
  /\ sent' = run.copy
  /\ UNCHANGED <<db, sheet, result, forced, damaged>>

Changed ==
  /\ Collected
  /\ run.force \/ run.copy # sent
  /\ run' = [run EXCEPT !.stage = "layout", !.next = 1]
  /\ UNCHANGED <<db, sheet, sent, result, forced, damaged>>

-----------------------------------------------------------------------------
(* GoogleSheetsMirror.write                                                *)

\* A call that throws, before or after it took effect: the run has failed.
CallFails(newSheet) ==
  \E done \in BOOLEAN :
    /\ sheet' = IF done THEN newSheet ELSE sheet
    /\ damaged' = (damaged \/ run.wrote \/ done)
    /\ Finish("FAILED")
    /\ UNCHANGED <<db, sent>>

CallReturns(newSheet, newRun) ==
  /\ sheet' = newSheet
  /\ run' = [newRun EXCEPT !.wrote = TRUE]
  /\ UNCHANGED <<db, sent, result, forced, damaged>>

\* ensureSheets and the layout: fitting a sheet to fewer rows cuts what it held.
Layout ==
  /\ run.stage = "layout"
  /\ \E cut \in SUBSET Tables :
       LET fitted == [t \in Tables |-> IF t \in cut THEN Cleared ELSE sheet[t]] IN
       CallReturns(fitted, [run EXCEPT !.stage = "clear"]) \/ CallFails(fitted)

BatchClear ==
  /\ run.stage = "clear"
  /\ LET empty == [t \in Tables |-> Cleared] IN
     CallReturns(empty, [run EXCEPT !.stage = "values"]) \/ CallFails(empty)

\* lastHash is assigned once the whole copy is in the mirror.
Sent ==
  /\ sent' = run.copy
  /\ damaged' = FALSE
  /\ Finish("SENT")
  /\ UNCHANGED db

\* The values go in chunks, here one per table.
PutValues ==
  /\ run.stage = "values"
  /\ LET put == [sheet EXCEPT ![run.next] = run.copy[run.next]] IN
     \/ /\ run.next < TableCount
        /\ CallReturns(put, [run EXCEPT !.next = run.next + 1])
     \/ /\ run.next = TableCount
        /\ sheet' = put
        /\ Sent
     \/ CallFails(put)

\* The process stops and starts again: hash and state were in memory.
Restart ==
  /\ sent' = NoCopy
  /\ result' = "none"
  /\ run' = NoRun
  /\ forced' = NoCall
  /\ damaged' = FALSE
  /\ UNCHANGED <<db, sheet>>

-----------------------------------------------------------------------------
RunStep ==
  ReadTable \/ ReadFails \/ Unchanged \/ Changed \/ Layout \/ BatchClear \/ PutValues

BackupNext ==
  \/ \E t \in Tables, c \in Contents : WriteTable(t, c)
  \/ RunTimer \/ RunForced \/ ForcedAnswered
  \/ RunStep
  \/ Restart

\* setInterval goes on, and what was called returns or fails.
BackupFairness == WF_backupVars(RunTimer) /\ WF_backupVars(RunStep)

BackupSpec == BackupInit /\ [][BackupNext]_backupVars /\ BackupFairness

-----------------------------------------------------------------------------
(* Properties                                                              *)

Copy == [Tables -> Contents \cup {Cleared}]
Results == {"none", "SENT", "UNCHANGED", "FAILED"}
RunRow == [stage : {"none", "collect", "layout", "clear", "values"},
           next : 1..(TableCount + 1), copy : Copy \cup {NoCopy},
           force : BOOLEAN, wrote : BOOLEAN]
CallRow == [stage : {"none", "waiting", "answered"}, joined : BOOLEAN, result : Results]

\* Types; what is remembered as sent is a complete copy.
BackupTypeOK ==
  /\ db \in [Tables -> Contents]
  /\ sheet \in Copy
  /\ sent \in [Tables -> Contents] \cup {NoCopy}
  /\ result \in Results
  /\ run \in RunRow
  /\ forced \in CallRow
  /\ damaged \in BOOLEAN

\* Between runs, a status that says the copy was sent, or is unchanged since it was,
\* is right: the mirror holds that copy (backup.service.ts 121-134).  The exception
\* is an UNCHANGED after a write that stopped half way: lastHash still names the
\* copy from before it.
MirrorHolds ==
  run.stage = "none" /\ result \in {"SENT", "UNCHANGED"} /\ ~damaged => sheet = sent

\* "force sends even what did not change" (backup.service.ts 80-83): a forced call
\* is answered UNCHANGED only when it joined a run that was already going.
ForcedSends ==
  forced.stage = "answered" /\ forced.result = "UNCHANGED" => forced.joined

\* Once the database rests and runs succeed, the mirror comes to hold it, even if
\* runs before read the tables while they changed, except after a write that stopped
\* half way.
MirrorCatchesUp ==
  \A d \in [Tables -> Contents] :
    <>[](db = d) /\ <>[](result # "FAILED")
      => []<>(sheet = d \/ damaged \/ result = "none")

=============================================================================
