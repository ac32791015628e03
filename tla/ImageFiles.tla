----------------------------- MODULE ImageFiles -----------------------------
(***************************************************************************)
(* Rows that name a picture, and the pictures on disk: partners, gallery   *)
(* and product media (create, remove), partners, categories and branches   *)
(* (replace), over image-storage.service.ts and local-disk.storage.ts.     *)
(* The file comes first, the row second; what is left over is deleted      *)
(* afterwards, quietly.  Requests interleave, each step may fail, the      *)
(* answer of a committed statement may be lost, and the process may stop.  *)
(***************************************************************************)
EXTENDS Naturals

CONSTANTS
  Entries,         \* rows made with their picture and deleted with it
  Covers,          \* rows that are there and may have a picture
  Files,           \* names randomUUID may give: never the same twice
  ImageRequests,
  NoFile, Absent

Owners == Entries \cup Covers

ASSUME ImageAssumption ==
  /\ Entries \cap Covers = {}
  /\ NoFile \notin Files /\ Absent \notin Files
  /\ NoFile # Absent

VARIABLES
  url,     \* url[o]: the picture the row names, or that there is no row
  file,    \* file[f]: never used, the original only, with its variants, deleted
  task,    \* task[r]: the request
  lost,    \* ghost: files whose row was committed though its request saw an error
  leaked   \* ghost: files nobody will delete, each for a reason named where it is added

imageVars == <<url, file, task, lost, leaked>>

NoTask == [pc |-> "idle", op |-> "none", owner |-> Absent, file |-> NoFile, old |-> NoFile]

ImageInit ==
  /\ url = [o \in Owners |-> IF o \in Covers THEN NoFile ELSE Absent]
  /\ file = [f \in Files |-> "unused"]
  /\ task = [r \in ImageRequests |-> NoTask]
  /\ lost = {}
  /\ leaked = {}

Goto(r, pc) == task' = [task EXCEPT ![r].pc = pc]
End(r) == task' = [task EXCEPT ![r] = NoTask]

-----------------------------------------------------------------------------
(* Where the operations begin                                              *)

Create(r, o) ==
  /\ task[r].pc = "idle"
  /\ o \in Entries /\ url[o] = Absent
  /\ \A u \in ImageRequests : task[u].owner # o
  /\ task' = [task EXCEPT ![r] = [pc |-> "save", op |-> "create", owner |-> o,
                                  file |-> NoFile, old |-> NoFile]]
  /\ UNCHANGED <<url, file, lost, leaked>>

\* replaceLogo, uploadImage: the old picture is the one read here.
Replace(r, o) ==
  /\ task[r].pc = "idle"
  /\ url[o] # Absent
  /\ task' = [task EXCEPT ![r] = [pc |-> "save", op |-> "replace", owner |-> o,
                                  file |-> NoFile, old |-> url[o]]]
  /\ UNCHANGED <<url, file, lost, leaked>>

Remove(r, o) ==
  /\ task[r].pc = "idle"
  /\ o \in Entries /\ url[o] # Absent
  /\ task' = [task EXCEPT ![r] = [pc |-> "row", op |-> "remove", owner |-> o,
                                  file |-> NoFile, old |-> url[o]]]
  /\ UNCHANGED <<url, file, lost, leaked>>

-----------------------------------------------------------------------------
(* ImageStorageService.save                                                *)

SaveOriginal(r, f) ==
  /\ task[r].pc = "save"
  /\ file[f] = "unused"
  /\ file' = [file EXCEPT ![f] = "original"]
  /\ task' = [task EXCEPT ![r].pc = "variants", ![r].file = f]
  /\ UNCHANGED <<url, lost, leaked>>

\* writeFile throws; what it wrote of the file stays.
SaveFails(r, f) ==
  /\ task[r].pc = "save"
  /\ file[f] = "unused"
  /\ file' = [file EXCEPT ![f] = "original"]
  /\ leaked' = leaked \cup {f}
  /\ End(r)
  /\ UNCHANGED <<url, lost>>

SaveVariants(r) ==
  /\ task[r].pc = "variants"
  /\ file' = [file EXCEPT ![task[r].file] = "complete"]
  /\ Goto(r, "row")
  /\ UNCHANGED <<url, lost, leaked>>

\* Mutant of VariantsFail: the error is passed on, the original stays.
VariantsFailThrow(r) ==
  /\ task[r].pc = "variants"
  /\ End(r)
  /\ UNCHANGED <<url, file, lost, leaked>>

\* Mutant of VariantsFail: the error is swallowed.
VariantsFailGoOn(r) ==
  /\ task[r].pc = "variants"
  /\ Goto(r, "row")
  /\ UNCHANGED <<url, file, lost, leaked>>

VariantsFail(r) ==
  /\ task[r].pc = "variants"
  /\ Goto(r, "undo")
  /\ UNCHANGED <<url, file, lost, leaked>>

-----------------------------------------------------------------------------
(* The row                                                                 *)

\* What the row names once the statement of r has committed.
Written(r) ==
  [url EXCEPT ![task[r].owner] = IF task[r].op = "remove" THEN Absent ELSE task[r].file]

\* The picture the statement takes out of the row, if r does not know of it: another
\* request replaced it since r read the row.
Forgotten(r) ==
  IF url[task[r].owner] \in Files \ {task[r].old} THEN {url[task[r].owner]} ELSE {}

\* update and delete find the row only while it is there (P2025).
Found(r) == task[r].op # "create" => url[task[r].owner] # Absent

WriteRow(r) ==
  /\ task[r].pc = "row"
  /\ Found(r)
  /\ url' = Written(r)
  /\ leaked' = leaked \cup Forgotten(r)
  /\ IF task[r].old \in Files THEN Goto(r, "old") ELSE End(r)
  /\ UNCHANGED <<file, lost>>

\* No row, or the statement fails: the new file goes.
WriteFails(r) ==
  /\ task[r].pc = "row"
  /\ IF task[r].op = "remove" THEN End(r) ELSE Goto(r, "undo")
  /\ UNCHANGED <<url, file, lost, leaked>>

\* The statement commits and its answer is lost: the same catch.
WriteLost(r) ==
  /\ task[r].pc = "row"
  /\ Found(r)
  /\ url' = Written(r)
  /\ lost' = lost \cup ({task[r].file} \cap Files)
  /\ leaked' = leaked \cup ({url[task[r].owner]} \cap Files)
  /\ IF task[r].op = "remove" THEN End(r) ELSE Goto(r, "undo")
  /\ UNCHANGED file

-----------------------------------------------------------------------------
(* removeFileQuietly                                                       *)

\* Mutant of Deleted: the failed request deletes the picture it was to replace.
DeletedOldToo(r) == {task[r].file, task[r].old} \cap Files

\* The file r has to delete.
Deleted(r) == {IF task[r].pc = "undo" THEN task[r].file ELSE task[r].old}

Delete(r) ==
  /\ task[r].pc \in {"undo", "old"}
  /\ file' = [f \in Files |-> IF f \in Deleted(r) THEN "gone" ELSE file[f]]
  /\ End(r)
  /\ UNCHANGED <<url, lost, leaked>>

\* unlink fails: logged, nothing else.
DeleteFails(r) ==
  /\ task[r].pc \in {"undo", "old"}
  /\ leaked' = leaked \cup Deleted(r)
  /\ End(r)
  /\ UNCHANGED <<url, file, lost>>

\* The file r is bound to name in a row or to delete.
Owed(r) ==
  CASE task[r].pc \in {"variants", "undo"} -> {task[r].file}
    [] task[r].pc = "row" /\ task[r].op # "remove" -> {task[r].file}
    [] task[r].pc = "old" -> {task[r].old}
    [] OTHER -> {}

Stop ==
  /\ task' = [r \in ImageRequests |-> NoTask]
  /\ leaked' = leaked \cup UNION {Owed(r) : r \in ImageRequests}
  /\ UNCHANGED <<url, file, lost>>

-----------------------------------------------------------------------------
ImageNext ==
  \/ \E r \in ImageRequests :
       \/ \E o \in Owners : Create(r, o) \/ Replace(r, o) \/ Remove(r, o)
       \/ \E f \in Files : SaveOriginal(r, f) \/ SaveFails(r, f)
       \/ SaveVariants(r) \/ VariantsFail(r)
       \/ WriteRow(r) \/ WriteFails(r) \/ WriteLost(r)
       \/ Delete(r) \/ DeleteFails(r)
  \/ Stop

ImageSpec == ImageInit /\ [][ImageNext]_imageVars

-----------------------------------------------------------------------------
(* Properties                                                              *)

Task == [pc : {"idle", "save", "variants", "row", "undo", "old"},
         op : {"none", "create", "replace", "remove"},
         owner : Owners \cup {Absent}, file : Files \cup {NoFile},
         old : Files \cup {NoFile}]

\* Types; a row is written only for a picture that has all its variants.
ImageTypeOK ==
  /\ url \in [Owners -> Files \cup {NoFile, Absent}]
  /\ file \in [Files -> {"unused", "original", "complete", "gone"}]
  /\ task \in [ImageRequests -> Task]
  /\ lost \subseteq Files
  /\ leaked \subseteq Files
  /\ \A r \in ImageRequests :
       task[r].pc = "row" /\ task[r].op # "remove" => file[task[r].file] = "complete"

\* No broken picture: the file a row names is there with its variants, whatever
\* replaces, removals and failures cross (product-media.service.ts 102-105,
\* image-storage.service.ts 21-23).  The exception is a row committed by a statement
\* whose answer was lost: the catch deletes its file.
RowsHaveFiles ==
  \A o \in Owners : url[o] \in Files => file[url[o]] = "complete" \/ url[o] \in lost

\* No file without an owner: what is on disk is named by a row, or a request still
\* has to name or delete it, or it was left by a crash, a failed delete, a lost
\* answer, or two requests that changed the same row.
OrphansExplained ==
  \A f \in Files :
    file[f] \in {"original", "complete"} =>
      \/ \E o \in Owners : url[o] = f
      \/ \E r \in ImageRequests : f \in Owed(r)
      \/ f \in leaked

=============================================================================
