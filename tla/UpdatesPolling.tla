--------------------------- MODULE UpdatesPolling ---------------------------
(***************************************************************************)
(* The cabinet asks every few seconds what changed since the time the last *)
(* answer named (useCabinetUpdates, updates.service.ts).  A row's          *)
(* updatedAt is stamped by the client that builds the statement, before it *)
(* commits.  Two polls may be open at once (the timer's, and the one sent  *)
(* when the tab becomes visible), and answers arrive in any order or not   *)
(* at all.  The answer has two lists, orders and notifications, filled     *)
(* alike: the changes here are of one of them, each of a row of its own.   *)
(***************************************************************************)
EXTENDS Naturals

CONSTANTS
  Changes,  \* statements that change rows the tab shows
  Polls,    \* polls that may be open at once
  MaxTime,  \* bound on the clock
  NoTime

ASSUME PollAssumption == MaxTime \in Nat \ {0} /\ NoTime \notin Nat

VARIABLES
  now,      \* the clock, in milliseconds
  change,   \* change[c]: not begun, stamped, committed; and its updatedAt
  poll,     \* poll[p]: the request
  since,    \* serverTime of the last answer
  shown,    \* changes the lists have been reloaded after
  first,    \* ghost: the latest serverTime of an answer to a poll without since
  horizon,  \* ghost: the latest serverTime of a query that has run
  late      \* ghost: changes committed after a query whose serverTime they do not pass

pollVars == <<now, change, poll, since, shown, first, horizon, late>>

Idle == [pc |-> "idle", from |-> NoTime, serverTime |-> 0, found |-> FALSE]

PollInit ==
  /\ now = 1
  /\ change = [c \in Changes |-> [stage |-> "none", at |-> 0]]
  /\ poll = [p \in Polls |-> Idle]
  /\ since = NoTime
  /\ shown = {}
  /\ first = 0 /\ horizon = 0
  /\ late = {}

Later(a, b) == IF a > b THEN a ELSE b

Tick ==
  /\ now < MaxTime
  /\ now' = now + 1
  /\ UNCHANGED <<change, poll, since, shown, first, horizon, late>>

Stamp(c) ==
  /\ change[c].stage = "none"
  /\ change' = [change EXCEPT ![c] = [stage |-> "stamped", at |-> now]]
  /\ UNCHANGED <<now, poll, since, shown, first, horizon, late>>

Commit(c) ==
  /\ change[c].stage = "stamped"
  /\ change' = [change EXCEPT ![c].stage = "committed"]
  /\ late' = IF change[c].at <= horizon THEN late \cup {c} ELSE late
  /\ UNCHANGED <<now, poll, since, shown, first, horizon>>

Committed == {c \in Changes : change[c].stage = "committed"}

-----------------------------------------------------------------------------
\* The tab sends its since; getUpdates takes serverTime before it queries.
SendPoll(p) ==
  /\ poll[p].pc = "idle"
  /\ poll' = [poll EXCEPT ![p] =
       [pc |-> "timed", from |-> since, serverTime |-> now, found |-> FALSE]]
  /\ UNCHANGED <<now, change, since, shown, first, horizon, late>>

\* The queries: rows with updatedAt after since; without since there are none.
QueryChanges(p) ==
  /\ poll[p].pc = "timed"
  /\ poll' = [poll EXCEPT ![p] =
       [poll[p] EXCEPT !.pc = "answered",
                       !.found = poll[p].from # NoTime
                                 /\ \E c \in Committed : change[c].at > poll[p].from]]
  /\ horizon' = Later(horizon, poll[p].serverTime)
  /\ UNCHANGED <<now, change, since, shown, first, late>>

\* Mutant of Receive: the tab remembers when the answer came.
ReceiveNow(p) ==
  /\ poll[p].pc = "answered"
  /\ since' = now
  /\ shown' = IF poll[p].found THEN Committed ELSE shown
  /\ first' = IF poll[p].from = NoTime THEN Later(first, poll[p].serverTime) ELSE first
  /\ poll' = [poll EXCEPT ![p] = Idle]
  /\ UNCHANGED <<now, change, horizon, late>>

\* The answer: since becomes its serverTime, whatever it was; anything found makes
\* the tab load its lists again (a truncated answer as well: it is not empty).
Receive(p) ==
  /\ poll[p].pc = "answered"
  /\ since' = poll[p].serverTime
  /\ shown' = IF poll[p].found THEN Committed ELSE shown
  /\ first' = IF poll[p].from = NoTime THEN Later(first, poll[p].serverTime) ELSE first
  /\ poll' = [poll EXCEPT ![p] = Idle]
  /\ UNCHANGED <<now, change, horizon, late>>

\* The poll fails, or its answer is lost: the next one asks from the same time.
LosePoll(p) ==
  /\ poll[p].pc \in {"timed", "answered"}
  /\ poll' = [poll EXCEPT ![p] = Idle]
  /\ UNCHANGED <<now, change, since, shown, first, horizon, late>>

PollNext ==
  \/ Tick
  \/ \E c \in Changes : Stamp(c) \/ Commit(c)
  \/ \E p \in Polls : SendPoll(p) \/ QueryChanges(p) \/ Receive(p) \/ LosePoll(p)

PollSpec == PollInit /\ [][PollNext]_pollVars

-----------------------------------------------------------------------------
ChangeRow == [stage : {"none", "stamped", "committed"}, at : 0..MaxTime]
PollRow == [pc : {"idle", "timed", "answered"}, from : Nat \cup {NoTime},
            serverTime : 0..MaxTime, found : BOOLEAN]

PollTypeOK ==
  /\ now \in 1..MaxTime
  /\ change \in [Changes -> ChangeRow]
  /\ poll \in [Polls -> PollRow]
  /\ since \in (1..MaxTime) \cup {NoTime}
  /\ shown \subseteq Committed
  /\ first \in 0..MaxTime /\ horizon \in 0..MaxTime
  /\ late \subseteq Committed

\* "Never dropped" (updates.service.ts 15-17): a change since the first answer that
\* the tab has not shown is one the next poll still asks for, even when answers are
\* lost or cross.  The exception is a change that commits after a query whose
\* serverTime its stamp does not pass.
NothingDropped ==
  \A c \in Committed \ (shown \cup late) :
    since # NoTime /\ change[c].at > first => change[c].at > since

=============================================================================
