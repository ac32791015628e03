------------------------- MODULE NotificationProofs -------------------------
(***************************************************************************)
(* Proofs about what reaches whom: the changes a tab of the dashboard      *)
(* polls for (NothingDropped), the messages to every customer              *)
(* (AnnouncedOnce, ReachesAll) and those about a change of an order        *)
(* (NoticeOfCommitted), for any number of changes, polls, customers, loops *)
(* and orders, any batch and any length of time.                           *)
(***************************************************************************)
EXTENDS UpdatesPolling, Broadcasts, OrderNotices, FiniteSetTheorems, WellFoundedInduction,
        TLAPS

-----------------------------------------------------------------------------
(* UpdatesPolling.  A change that is owed to the tab (committed, not shown,*)
(* not late, and newer than the first answers) is newer than everything    *)
(* the tab has asked from and may still ask from: than since, than the     *)
(* from of every open poll, and than the serverTime of every answer that   *)
(* found nothing.                                                          *)

Unshown == {c \in Committed \ (shown \cup late) : change[c].at > first}

\* Nothing owed is older than t.
Before(t) == \A c \in Unshown : change[c].at > t

SinceSafe == since # NoTime => since <= horizon /\ Before(since)

PollsSafe ==
  \A p \in Polls :
    LET q == poll[p] IN
    q.pc # "idle" =>
      /\ q.serverTime \in 1..MaxTime
      /\ q.from # NoTime => q.from \in 1..MaxTime /\ q.from <= horizon /\ Before(q.from)
      /\ q.pc = "answered" => q.serverTime <= horizon
      /\ q.pc = "answered" /\ q.from # NoTime /\ ~q.found => Before(q.serverTime)

PollInv == PollTypeOK /\ SinceSafe /\ PollsSafe

-----------------------------------------------------------------------------
\* No change, no poll.
LEMMA PollInitInv == PollInit => PollInv
<1> SUFFICES ASSUME PollInit PROVE PollInv
  OBVIOUS
<1> USE PollAssumption DEF PollInit
<1>1. Committed = {}
  BY DEF Committed
<1>2. PollTypeOK
  BY <1>1 DEF PollTypeOK, ChangeRow, PollRow, Idle
<1>3. SinceSafe /\ PollsSafe
  BY DEF SinceSafe, PollsSafe, Idle
<1> QED
  BY <1>2, <1>3 DEF PollInv

\* The polls and since are left alone, and what becomes owed is later than every query.
LEMMA RestInv ==
  ASSUME PollInv, PollTypeOK', UNCHANGED <<poll, since, horizon>>,
         \A c \in Unshown' : \/ c \in Unshown /\ change'[c].at = change[c].at
                          \/ change'[c].at > horizon
  PROVE  PollInv'
<1> USE PollAssumption DEF PollInv
<1>1. horizon \in Nat
  BY DEF PollTypeOK
<1>2. \A t \in Nat : t <= horizon /\ Before(t) => Before(t)'
  <2> SUFFICES ASSUME NEW t \in Nat, t <= horizon, Before(t), NEW c \in Unshown'
               PROVE  change'[c].at > t
    BY DEF Before
  <2>1. change'[c].at \in Nat
    BY DEF Unshown, Committed, PollTypeOK, ChangeRow
  <2> QED
    BY <1>1, <2>1 DEF Before
<1>3. SinceSafe'
  BY <1>2 DEF SinceSafe, PollTypeOK, Before
<1>4. PollsSafe'
  BY <1>2 DEF PollsSafe, Before
<1> QED
  BY <1>3, <1>4

\* Time passes; a change is stamped, and commits.
LEMMA ChangeInv ==
  ASSUME PollInv, Tick \/ \E c \in Changes : Stamp(c) \/ Commit(c)
  PROVE  PollInv'
<1> USE PollAssumption DEF PollInv
<1>1. CASE Tick
  <2>1. PollTypeOK' /\ UNCHANGED <<poll, since, horizon, change>> /\ Unshown' = Unshown
    BY <1>1 DEF Tick, PollTypeOK, Unshown, Committed
  <2> QED
    BY <2>1, RestInv
<1>2. ASSUME NEW c \in Changes, Stamp(c) PROVE PollInv'
  <2>1. change[c].stage = "none"
    BY <1>2 DEF Stamp
  <2>2. PICK new \in ChangeRow : new.stage = "stamped" /\ change' = [change EXCEPT ![c] = new]
    <3>1. [stage |-> "stamped", at |-> now] \in ChangeRow
      BY DEF ChangeRow, PollTypeOK
    <3> QED
      BY <1>2, <3>1 DEF Stamp
  <2>3. UNCHANGED <<now, poll, since, shown, first, horizon, late>>
    BY <1>2 DEF Stamp
  <2>4. /\ change' \in [Changes -> ChangeRow] /\ change'[c] = new
        /\ \A d \in Changes \ {c} : change'[d] = change[d]
    BY <2>2 DEF PollTypeOK
  <2>5. Committed' = Committed /\ c \notin Committed
    BY <2>1, <2>2, <2>4 DEF Committed
  <2>6. PollTypeOK'
    BY <2>3, <2>4, <2>5 DEF PollTypeOK
  <2>7. \A d \in Unshown' : d \in Unshown /\ change'[d].at = change[d].at
    BY <2>3, <2>4, <2>5 DEF Unshown, Committed
  <2> QED
    BY <2>3, <2>6, <2>7, RestInv
<1>3. ASSUME NEW c \in Changes, Commit(c) PROVE PollInv'
  <2>1. change[c] \in ChangeRow /\ change[c].stage = "stamped"
    BY <1>3 DEF Commit, PollTypeOK
  <2>2. PICK new \in ChangeRow : /\ new.stage = "committed" /\ new.at = change[c].at
                                 /\ change' = [change EXCEPT ![c] = new]
    <3>1. [change[c] EXCEPT !.stage = "committed"] \in ChangeRow
      BY <2>1 DEF ChangeRow
    <3> QED
      BY <1>3, <2>1, <3>1 DEF Commit, PollTypeOK, ChangeRow
  <2>3. /\ UNCHANGED <<now, poll, since, shown, first, horizon>>
        /\ late' = IF change[c].at <= horizon THEN late \cup {c} ELSE late
    BY <1>3 DEF Commit
  <2>4. /\ change' \in [Changes -> ChangeRow] /\ change'[c] = new
        /\ \A d \in Changes \ {c} : change'[d] = change[d]
    BY <2>2 DEF PollTypeOK
  <2>5. Committed' = Committed \cup {c} /\ c \notin Committed
    BY <2>1, <2>2, <2>4 DEF Committed
  <2>6. PollTypeOK'
    BY <2>3, <2>4, <2>5 DEF PollTypeOK
  <2>7. change[c].at \in Nat /\ horizon \in Nat
    BY <2>1 DEF ChangeRow, PollTypeOK
  <2>8. ASSUME NEW d \in Unshown'
        PROVE  (d \in Unshown /\ change'[d].at = change[d].at) \/ change'[d].at > horizon
    <3>1. CASE d = c
      BY <2>2, <2>3, <2>4, <2>7, <3>1 DEF Unshown
    <3>2. CASE d # c
      BY <2>3, <2>4, <2>5, <3>2 DEF Unshown, Committed
    <3> QED
      BY <3>1, <3>2
  <2> QED
    BY <2>3, <2>6, <2>8, RestInv
<1> QED
  BY <1>1, <1>2, <1>3

\* A poll leaves, is queried, and is lost: what the tab has is as it was.
LEMMA PollOpenInv ==
  ASSUME PollInv, NEW p \in Polls, SendPoll(p) \/ QueryChanges(p) \/ LosePoll(p)
  PROVE  PollInv'
<1> USE PollAssumption DEF PollInv
<1>1. poll[p] \in PollRow /\ now \in 1..MaxTime
  BY DEF PollTypeOK
<1>2. /\ UNCHANGED <<now, change, since, shown, first, late>>
      /\ Unshown' = Unshown /\ Committed' = Committed
  BY DEF SendPoll, QueryChanges, LosePoll, Unshown, Committed
<1>3. \A t : Before(t)' <=> Before(t)
  BY <1>2 DEF Before
<1>4. PICK new \in PollRow :
        /\ poll' = [poll EXCEPT ![p] = new]
        /\ horizon' \in 0..MaxTime /\ horizon <= horizon'
        /\ \/ new.pc = "idle"
           \/ /\ new.pc = "timed" /\ new.serverTime = now /\ new.from = since
           \/ /\ poll[p].pc = "timed" /\ new.pc = "answered"
              /\ new.serverTime = poll[p].serverTime /\ new.from = poll[p].from
              /\ new.serverTime <= horizon'
              /\ new.found <=> new.from # NoTime
                               /\ \E c \in Committed : change[c].at > new.from
  <2>1. horizon \in 0..MaxTime
    BY DEF PollTypeOK
  <2>2. CASE SendPoll(p)
    <3> DEFINE new == [pc |-> "timed", from |-> since, serverTime |-> now, found |-> FALSE]
    <3>1. since \in Nat \cup {NoTime}
      BY DEF PollTypeOK
    <3>2. new \in PollRow /\ new.pc = "timed" /\ new.serverTime = now /\ new.from = since
      BY <1>1, <3>1 DEF PollRow
    <3>3. poll' = [poll EXCEPT ![p] = new] /\ horizon' = horizon
      BY <2>2 DEF SendPoll
    <3> HIDE DEF new
    <3> USE <3>2
    <3> WITNESS new \in PollRow
    <3> QED
      BY <2>1, <3>2, <3>3
  <2>3. CASE QueryChanges(p)
    <3> DEFINE found == poll[p].from # NoTime
                          /\ \E c \in Committed : change[c].at > poll[p].from
               new == [poll[p] EXCEPT !.pc = "answered", !.found = found]
    <3>1. found \in BOOLEAN
      OBVIOUS
    <3>2. /\ poll' = [poll EXCEPT ![p] = new] /\ poll[p].pc = "timed"
          /\ horizon' = Later(horizon, poll[p].serverTime)
      BY <2>3 DEF QueryChanges
    <3> HIDE DEF found
    <3>3. /\ new \in PollRow /\ new.pc = "answered" /\ new.found = found
          /\ new.serverTime = poll[p].serverTime /\ new.from = poll[p].from
          /\ new.serverTime \in 0..MaxTime
      BY <1>1, <3>1 DEF PollRow
    <3> HIDE DEF new
    <3>4. horizon' \in 0..MaxTime /\ horizon <= horizon' /\ new.serverTime <= horizon'
      BY <2>1, <3>2, <3>3 DEF Later
    <3> QED
      BY <3>2, <3>3, <3>4 DEF found
  <2>4. CASE LosePoll(p)
    <3>1. Idle \in PollRow /\ Idle.pc = "idle"
      BY DEF Idle, PollRow
    <3>2. poll' = [poll EXCEPT ![p] = Idle] /\ horizon' = horizon
      BY <2>4 DEF LosePoll
    <3> USE <3>1
    <3> WITNESS Idle \in PollRow
    <3> QED
      BY <2>1, <3>1, <3>2
  <2> QED
    BY <2>2, <2>3, <2>4
<1>5. /\ poll' \in [Polls -> PollRow] /\ poll'[p] = new
      /\ \A u \in Polls \ {p} : poll'[u] = poll[u]
  BY <1>4 DEF PollTypeOK
<1>6. PollTypeOK'
  BY <1>2, <1>4, <1>5 DEF PollTypeOK
<1>7. SinceSafe'
  BY <1>2, <1>3, <1>4 DEF SinceSafe, PollTypeOK
<1>8. PollsSafe'
  <2> SUFFICES ASSUME NEW u \in Polls, poll'[u].pc # "idle"
               PROVE  /\ poll'[u].serverTime \in 1..MaxTime
                      /\ poll'[u].from # NoTime =>
                           /\ poll'[u].from \in 1..MaxTime /\ poll'[u].from <= horizon'
                           /\ Before(poll'[u].from)
                      /\ poll'[u].pc = "answered" => poll'[u].serverTime <= horizon'
                      /\ poll'[u].pc = "answered" /\ poll'[u].from # NoTime /\ ~poll'[u].found
                           => Before(poll'[u].serverTime)
    BY <1>2 DEF PollsSafe, Before
  <2>1. CASE u # p
    BY <1>4, <1>5, <2>1 DEF PollsSafe, PollTypeOK
  <2>2. CASE u = p /\ new.pc = "timed"
    BY <1>1, <1>4, <1>5, <2>2 DEF SinceSafe, PollTypeOK
  <2>3. CASE u = p /\ new.pc = "answered"
    <3>1. Unshown \subseteq Committed
      BY DEF Unshown
    <3>2. new.from # NoTime /\ ~new.found => Unshown = {}
      BY <1>4, <2>3, <3>1 DEF PollsSafe, Before
    <3> QED
      BY <1>4, <1>5, <2>3, <3>2 DEF PollsSafe, PollTypeOK, Before
  <2> QED
    BY <1>4, <1>5, <2>1, <2>2, <2>3 DEF PollRow
<1> QED
  BY <1>6, <1>7, <1>8

\* The answer: everything is shown, or nothing owed is older than its serverTime.
LEMMA ReceiveInv ==
  ASSUME PollInv, NEW p \in Polls, Receive(p)
  PROVE  PollInv'
<1> USE PollAssumption DEF PollInv
<1>1. PICK q \in PollRow : q = poll[p] /\ q.pc = "answered"
  BY DEF Receive, PollTypeOK
<1>2. /\ q.serverTime \in 1..MaxTime /\ q.serverTime <= horizon
      /\ q.from # NoTime /\ ~q.found => Before(q.serverTime)
  BY <1>1 DEF PollsSafe
<1>3. /\ UNCHANGED <<now, change, horizon, late>> /\ since' = q.serverTime
      /\ shown' = IF q.found THEN Committed ELSE shown
      /\ first' = IF q.from = NoTime THEN Later(first, q.serverTime) ELSE first
      /\ poll' = [poll EXCEPT ![p] = Idle]
  BY <1>1 DEF Receive
<1>4. Committed' = Committed
  BY <1>3 DEF Committed
<1>5. /\ first' \in 0..MaxTime /\ first <= first'
      /\ q.from = NoTime => q.serverTime <= first'
  BY <1>2, <1>3 DEF Later, PollTypeOK
<1>6. Idle \in PollRow
  BY DEF Idle, PollRow
<1>7. PollTypeOK'
  BY <1>2, <1>3, <1>4, <1>5, <1>6 DEF PollTypeOK
<1>8. \A c \in Committed : change[c].at \in Nat
  BY DEF Committed, PollTypeOK, ChangeRow
<1>9. Unshown' \subseteq Unshown
  BY <1>3, <1>4, <1>5, <1>8 DEF Unshown, PollTypeOK
<1>10. \A t : Before(t) => Before(t)'
  BY <1>3, <1>9 DEF Before
<1>11. PICK t \in 1..MaxTime : t = q.serverTime
  BY <1>2
<1>12. Before(t)'
  <2>1. CASE q.found
    <3>1. Unshown' = {}
      BY <1>3, <1>4, <2>1 DEF Unshown
    <3> QED
      BY <3>1 DEF Before
  <2>2. CASE ~q.found /\ q.from # NoTime
    BY <1>2, <1>10, <1>11, <2>2
  <2>3. CASE q.from = NoTime
    <3>1. \A c \in Unshown' : change'[c].at > first' /\ change'[c].at \in Nat
      BY <1>3, <1>4, <1>8 DEF Unshown
    <3> QED
      BY <1>5, <1>11, <2>3, <3>1 DEF Before
  <2> QED
    BY <2>1, <2>2, <2>3
<1>13. SinceSafe'
  BY <1>2, <1>3, <1>11, <1>12 DEF SinceSafe, Before
<1>14. PollsSafe'
  BY <1>3, <1>10 DEF PollsSafe, PollTypeOK, Idle, Before
<1> QED
  BY <1>7, <1>13, <1>14

-----------------------------------------------------------------------------
LEMMA PollStep == ASSUME PollInv, [PollNext]_pollVars PROVE PollInv'
<1>1. CASE UNCHANGED pollVars
  <2>1. Committed' = Committed /\ Unshown' = Unshown
    BY <1>1 DEF pollVars, Committed, Unshown
  <2>2. \A t : Before(t)' <=> Before(t)
    BY <1>1, <2>1 DEF pollVars, Before
  <2> QED
    BY <1>1, <2>1, <2>2 DEF pollVars, PollInv, PollTypeOK, SinceSafe, PollsSafe, Before
<1> QED
  BY <1>1, ChangeInv, PollOpenInv, ReceiveInv DEF PollNext

\* What is owed stays within reach of every poll, in every reachable state.
THEOREM PollInvariant == PollSpec => []PollInv
<1> QED
  BY PollInitInv, PollStep, PTL DEF PollSpec

\* A committed change that the tab has not shown is one its next poll still asks for,
\* whatever polls cross or are lost (updates.service.ts 15-17), unless it committed after
\* a query that its stamp does not pass.
THEOREM NothingIsDropped == PollSpec => []NothingDropped
<1>1. PollInv => NothingDropped
  BY DEF PollInv, SinceSafe, Before, Unshown, NothingDropped
<1> QED
  BY <1>1, PollInvariant, PTL

-----------------------------------------------------------------------------
(* Extremes of a finite set of numbers                                     *)

\* A finite set of sets that is not empty has a least member by inclusion.
LEMMA Smallest ==
  ASSUME NEW N \in Nat, NEW T \in SUBSET (0..N), T # {}
  PROVE  \E x \in T : \A y \in T : x <= y
<1> DEFINE F == {0..c : c \in T}
           R == StrictSubsetOrdering(0..N)
<1>1. IsFiniteSet(0..N)
  BY FS_Interval
<1>2. IsWellFoundedOn(R, SUBSET (0..N))
  BY <1>1, FS_StrictSubsetOrderingWellFounded, FS_FiniteSubsetsOfFinite
<1>3. F \subseteq SUBSET (0..N) /\ F # {}
  <2>1. \A c \in T : 0..c \subseteq 0..N
    OBVIOUS
  <2>2. QED
    BY <2>1, Zenon
<1>4. PICK s \in F : \A y \in F : ~(<<y, s>> \in R)
  <2> HIDE DEF F, R
  <2>1. QED
    BY <1>2, <1>3, WFMin
<1>5. PICK x \in T : s = 0..x
  OBVIOUS
<1>6. ASSUME NEW y \in T, y < x
      PROVE  FALSE
  <2>1. 0..y \in F /\ 0..y \subseteq 0..x /\ x \in 0..x /\ x \notin 0..y
    BY <1>6
  <2>2. <<0..y, s>> \in R
    BY <1>3, <1>5, <2>1 DEF StrictSubsetOrdering
  <2>3. QED
    BY <1>4, <2>1, <2>2
<1>7. QED
  BY <1>6

\* ... and a largest.
LEMMA Largest ==
  ASSUME NEW N \in Nat, NEW T \in SUBSET (0..N), T # {}
  PROVE  \E x \in T : \A y \in T : y <= x
<1> DEFINE D == {N - c : c \in T}
<1>1. D \subseteq 0..N /\ D # {}
  <2>1. \A c \in T : N - c \in 0..N
    OBVIOUS
  <2>2. QED
    BY <2>1, Zenon
<1>2. PICK m \in D : \A d \in D : m <= d
  <2> HIDE DEF D
  <2>1. QED
    BY <1>1, Smallest
<1>3. PICK x \in T : m = N - x
  OBVIOUS
<1>4. ASSUME NEW y \in T
      PROVE  y <= x
  <2>1. N - y \in D
    OBVIOUS
  <2>2. N - x <= N - y
    BY <1>2, <1>3, <2>1
  <2>3. QED
    BY <2>2
<1>5. QED
  BY <1>4

-----------------------------------------------------------------------------
(* What Lowest returns                                                     *)

LEMMA BuyersNumbered ==
  /\ Buyers \subseteq 0..CustomerCount
  /\ \A c \in Buyers : c \in Nat /\ 0 < c
BY BroadcastAssumption DEF Buyers

\* It is a part of the set, and finite when the set is.
LEMMA LowestPart ==
  ASSUME NEW n \in Nat, NEW S \in SUBSET Buyers
  PROVE  /\ Lowest(n, S) \subseteq S
         /\ IsFiniteSet(S) /\ IsFiniteSet(Lowest(n, S))
         /\ \A c \in S : /\ IsFiniteSet({d \in S : d < c})
                         /\ Cardinality({d \in S : d < c}) \in Nat
<1> USE BroadcastAssumption
<1>1. IsFiniteSet(Buyers)
  BY FS_Interval DEF Buyers
<1>2. \A T \in SUBSET Buyers : IsFiniteSet(T) /\ Cardinality(T) \in Nat
  BY <1>1, FS_Subset, FS_CardinalityType
<1>3. Lowest(n, S) \subseteq S
  BY DEF Lowest
<1>4. QED
  BY <1>2, <1>3

\* Who is passed over comes after everybody who is taken.
LEMMA LowestFirst ==
  ASSUME NEW n \in Nat, NEW S \in SUBSET Buyers,
         NEW c \in S \ Lowest(n, S), NEW d \in Lowest(n, S)
  PROVE  d < c
<1> USE BroadcastAssumption
<1>1. d \in S /\ Cardinality({e \in S : e < d}) < n /\ ~(Cardinality({e \in S : e < c}) < n)
  BY DEF Lowest
<1>2. SUFFICES ASSUME c <= d PROVE FALSE
  BY <1>1, BuyersNumbered
<1>3. {e \in S : e < c} \subseteq {e \in S : e < d}
  <2>1. c \in Nat /\ d \in Nat /\ \A e \in S : e \in Nat
    BY <1>1, BuyersNumbered
  <2>2. \A e \in S : e < c => e < d
    BY <1>2, <2>1
  <2>3. QED
    BY <2>2
<1>4. Cardinality({e \in S : e < c}) <= Cardinality({e \in S : e < d})
  BY <1>1, <1>3, LowestPart, FS_Subset
<1>5. QED
  BY <1>1, <1>4, LowestPart

\* Fewer than asked for is all there are: of the others the least has nobody before
\* him but those taken.
LEMMA LowestShort ==
  ASSUME NEW n \in Nat, NEW S \in SUBSET Buyers, Cardinality(Lowest(n, S)) < n
  PROVE  Lowest(n, S) = S
<1> USE BroadcastAssumption
<1> DEFINE rest == S \ Lowest(n, S)
<1>1. SUFFICES ASSUME rest # {} PROVE FALSE
  BY LowestPart
<1>2. rest \subseteq 0..CustomerCount
  BY BuyersNumbered
<1>3. PICK c \in rest : \A d \in rest : c <= d
  <2> HIDE DEF rest
  <2>1. QED
    BY <1>1, <1>2, Smallest
<1>4. {d \in S : d < c} \subseteq Lowest(n, S)
  BY <1>2, <1>3
<1>5. Cardinality({d \in S : d < c}) <= Cardinality(Lowest(n, S))
  BY <1>4, LowestPart, FS_Subset
<1>6. Cardinality({d \in S : d < c}) \in Nat /\ Cardinality(Lowest(n, S)) \in Nat
  BY LowestPart, FS_CardinalityType
<1>7. c \in Lowest(n, S)
  BY <1>5, <1>6 DEF Lowest
<1>8. QED
  BY <1>7

\* The first one alone.
LEMMA LowestOne ==
  ASSUME NEW S \in SUBSET Buyers, NEW m \in S, \A d \in S : m <= d
  PROVE  Lowest(1, S) = {m}
<1> USE BroadcastAssumption
<1>1. \A c \in S \ {m} : m \in {d \in S : d < c}
  BY BuyersNumbered
<1>2. ASSUME NEW c \in S \ {m}
      PROVE  ~(Cardinality({d \in S : d < c}) < 1)
  <2>1. IsFiniteSet({d \in S : d < c}) /\ {d \in S : d < c} # {}
    BY <1>1, LowestPart
  <2>2. Cardinality({d \in S : d < c}) # 0 /\ Cardinality({d \in S : d < c}) \in Nat
    BY <2>1, FS_EmptySet, FS_CardinalityType
  <2>3. QED
    BY <2>2
<1>3. Cardinality({d \in S : d < m}) < 1
  <2>1. m \in Nat /\ \A d \in S : d \in Nat /\ m <= d
    BY BuyersNumbered
  <2>2. {d \in S : d < m} = {}
    <3>1. \A d \in S : ~(d < m)
      BY <2>1
    <3>2. QED
      BY <3>1
  <2>3. QED
    BY <2>2, FS_EmptySet
<1>4. QED
  BY <1>2, <1>3 DEF Lowest

-----------------------------------------------------------------------------
(* Broadcasts: the invariant                                               *)

\* A loop that has not begun is of no kind, and the product of a loop is marked.
LoopsNamed ==
  /\ \A l \in Loops : loop[l].pc = "none" => loop[l].kind = "none"
  /\ \A l \in Loops : loop[l].kind = "product" => product.announced

\* Who is owed a message is active, and comes after the cursor.
OwedActive == \A l \in Loops : owed[l] \subseteq active
OwedAhead ==
  \A l \in Loops :
    loop[l].pc = "sending" /\ ~loop[l].shifted => \A c \in owed[l] : loop[l].cursor < c

CastInv ==
  /\ CastTypeOK
  /\ LoopsNamed /\ AnnouncedOnce
  /\ OwedActive /\ OwedAhead /\ ReachesAll

LEMMA CastInitInv == CastInit => CastInv
<1> SUFFICES ASSUME CastInit PROVE CastInv
  OBVIOUS
<1> USE BroadcastAssumption DEF CastInit
<1>1. Cardinality(Loops) \in Nat
  BY FS_CardinalityType
<1>2. CastTypeOK
  BY <1>1 DEF CastTypeOK, LoopRow, NoLoop
<1>3. LoopsNamed /\ AnnouncedOnce
  BY DEF LoopsNamed, AnnouncedOnce, NoLoop
<1>4. OwedActive /\ OwedAhead /\ ReachesAll
  BY DEF OwedActive, OwedAhead, ReachesAll, NoLoop
<1>5. QED
  BY <1>2, <1>3, <1>4 DEF CastInv

-----------------------------------------------------------------------------
(* Broadcasts: the steps                                                   *)

\* The panel switches a customer, a product or a factory, and events are counted.
LEMMA PanelInv ==
  ASSUME CastInv,
         \/ \E c \in Buyers : SetBuyerActive(c)
         \/ \E b \in BOOLEAN : SaveProduct(b) \/ SetFactory(b)
  PROVE  CastInv'
<1> USE BroadcastAssumption DEF CastInv
<1>1. ASSUME NEW c \in Buyers, SetBuyerActive(c)
      PROVE  CastInv'
  <2>1. CastTypeOK' /\ OwedActive'
    BY <1>1 DEF SetBuyerActive, CastTypeOK, OwedActive
  <2>2. OwedAhead' /\ ReachesAll'
    BY <1>1 DEF SetBuyerActive, OwedAhead, ReachesAll, CastTypeOK
  <2>3. QED
    BY <1>1, <2>1, <2>2 DEF SetBuyerActive, LoopsNamed, AnnouncedOnce
<1>2. ASSUME NEW b \in BOOLEAN, SaveProduct(b) \/ SetFactory(b)
      PROVE  CastInv'
  <2>1. UNCHANGED <<active, loop, owed>> /\ product'.announced = product.announced
    BY <1>2 DEF SaveProduct, SetFactory, CastTypeOK
  <2>2. events' \in 0..Cardinality(Loops)
    <3>1. Cardinality(Loops) \in Nat
      BY FS_CardinalityType
    <3>2. QED
      BY <1>2, <3>1 DEF SaveProduct, SetFactory, CastTypeOK
  <2>3. CastTypeOK'
    BY <1>2, <2>1, <2>2 DEF SaveProduct, SetFactory, CastTypeOK
  <2>4. QED
    BY <2>1, <2>3 DEF LoopsNamed, AnnouncedOnce, OwedActive, OwedAhead, ReachesAll
<1>3. QED
  BY <1>1, <1>2

\* A loop begins: of a product, only if no loop of it has begun.
LEMMA StartingInv ==
  ASSUME CastInv, NEW l \in Loops, NEW kind \in {"product", "announcement"},
         Starting(l, kind), loop[l].pc = "none",
         UNCHANGED active, CastTypeOK',
         kind = "product" => ~product.announced /\ product'.announced,
         product.announced => product'.announced
  PROVE  CastInv'
<1> USE BroadcastAssumption DEF CastInv
<1>1. /\ \A k \in Loops : loop'[k] = IF k = l THEN [pc |-> "sending", kind |-> kind,
                                                    cursor |-> 0, shifted |-> FALSE]
                                     ELSE loop[k]
      /\ \A k \in Loops : owed'[k] = IF k = l THEN active ELSE owed[k]
  BY DEF Starting, CastTypeOK
<1>2. \A c \in active : 0 < c
  BY BuyersNumbered DEF CastTypeOK
<1>3. LoopsNamed' /\ AnnouncedOnce'
  BY <1>1 DEF LoopsNamed, AnnouncedOnce
<1>4. OwedActive' /\ OwedAhead' /\ ReachesAll'
  BY <1>1, <1>2 DEF OwedActive, OwedAhead, ReachesAll
<1>5. QED
  BY <1>3, <1>4

LEMMA BeginsInv ==
  ASSUME CastInv, NEW l \in Loops, ClaimProduct(l) \/ Announce(l)
  PROVE  CastInv'
<1> USE BroadcastAssumption
<1>1. /\ Cardinality(Loops) \in Nat
      /\ CastTypeOK
  BY FS_CardinalityType DEF CastInv
<1>2. ASSUME NEW kind \in {"product", "announcement"}, Starting(l, kind)
      PROVE  loop' \in [Loops -> LoopRow] /\ owed' \in [Loops -> SUBSET Buyers]
  BY <1>1, <1>2 DEF Starting, CastTypeOK, LoopRow
<1>3. CASE ClaimProduct(l) /\ Visible /\ ~product.announced
  <2>1. CastTypeOK'
    <3>1. product' \in [active : BOOLEAN, factory : BOOLEAN, announced : BOOLEAN]
      BY <1>1, <1>3 DEF ClaimProduct, CastTypeOK
    <3>2. events' \in 0..Cardinality(Loops) /\ active' = active
      BY <1>1, <1>3 DEF ClaimProduct, CastTypeOK
    <3>3. QED
      BY <1>1, <1>2, <1>3, <3>1, <3>2 DEF ClaimProduct, CastTypeOK
  <2>2. QED
    BY <1>1, <1>3, <2>1, StartingInv DEF ClaimProduct, CastTypeOK
<1>4. CASE ClaimProduct(l) /\ ~(Visible /\ ~product.announced)
  BY <1>1, <1>4 DEF ClaimProduct, CastInv, CastTypeOK, LoopsNamed, AnnouncedOnce, OwedActive,
                    OwedAhead, ReachesAll
<1>5. CASE Announce(l)
  <2>1. CastTypeOK'
    BY <1>1, <1>2, <1>5 DEF Announce, CastTypeOK
  <2>2. QED
    BY <1>1, <1>5, <2>1, StartingInv DEF Announce
<1>6. QED
  BY <1>3, <1>4, <1>5

\* A batch takes the first of those after the cursor: the rest comes after the new
\* cursor, and there is no rest when the batch is the last.
LEMMA BatchEffect ==
  ASSUME CastInv, NEW l \in Loops
  PROVE  /\ Batch(l) \subseteq active
         /\ Batch(l) # {} =>
              \E m \in Batch(l) : \A d \in Batch(l) : d <= m
         /\ loop[l].cursor = 0 \/ loop[l].cursor \in active =>
              \A c \in active \ Batch(l) :
                loop[l].cursor < c => ~Last(Batch(l)) /\ \A d \in Batch(l) : d < c
<1> USE BroadcastAssumption
<1> DEFINE cursor == loop[l].cursor
           from == {c \in active : c >= cursor}
           rest == IF cursor = 0 THEN from ELSE from \ Lowest(1, from)
           batch == Lowest(Chunk, rest)
<1>1. Batch(l) = batch
  BY DEF Batch
<1>2. cursor \in 0..CustomerCount /\ active \subseteq Buyers /\ from \subseteq active
  BY DEF CastInv, CastTypeOK, LoopRow
<1>3. rest \subseteq from /\ rest \in SUBSET Buyers
  BY <1>2
<1>4. batch \subseteq rest
  <2> HIDE DEF rest
  <2>1. QED
    BY <1>3, LowestPart
<1>5. batch # {} => \E m \in batch : \A d \in batch : d <= m
  <2>1. batch \subseteq 0..CustomerCount
    BY <1>3, <1>4, BuyersNumbered
  <2> HIDE DEF batch
  <2>2. QED
    BY <2>1, Largest
<1>6. ASSUME cursor = 0 \/ cursor \in active, NEW c \in active \ batch, cursor < c
      PROVE  ~Last(batch) /\ \A d \in batch : d < c
  <2>1. c \in from
    BY <1>2, <1>6, BuyersNumbered
  <2>2. c \in rest
    <3>1. CASE cursor = 0
      BY <2>1, <3>1
    <3>2. CASE cursor # 0 /\ cursor \in active
      <4>1. cursor \in from /\ from \in SUBSET Buyers /\ \A d \in from : cursor <= d
        <5>1. cursor \in Nat /\ \A d \in active : d \in Nat
          BY <1>2, BuyersNumbered
        <5>2. cursor \in from /\ from \subseteq active
          BY <3>2, <5>1
        <5>3. \A d \in from : cursor <= d
          BY <5>1
        <5>4. QED
          BY <1>2, <5>2, <5>3
      <4>2. Lowest(1, from) = {cursor}
        <5> HIDE DEF from, cursor
        <5>1. QED
          BY <4>1, LowestOne
      <4>3. c # cursor
        BY <1>2, <1>6, BuyersNumbered
      <4>4. QED
        BY <2>1, <3>2, <4>2, <4>3
    <3>3. QED
      BY <1>6, <3>1, <3>2
  <2>3. ~(Cardinality(batch) < Chunk)
    <3> HIDE DEF rest
    <3>1. QED
      BY <1>3, <1>6, <2>2, LowestShort
  <2>4. \A d \in batch : d < c
    <3> HIDE DEF rest
    <3>1. QED
      BY <1>3, <1>6, <2>2, LowestFirst
  <2>5. QED
    BY <2>3, <2>4 DEF Last
<1> HIDE DEF batch
<1>7. QED
  BY <1>1, <1>2, <1>3, <1>4, <1>5, <1>6

LEMMA SendBatchInv ==
  ASSUME CastInv, NEW l \in Loops, SendBatch(l)
  PROVE  CastInv'
<1> USE BroadcastAssumption DEF CastInv
<1>1. PICK row \in LoopRow : row = loop[l]
  BY DEF CastTypeOK
<1>2. PICK batch : batch = Batch(l)
  OBVIOUS
<1>3. batch \subseteq active /\ active \subseteq Buyers
  BY <1>2, BatchEffect DEF CastTypeOK
<1>4. PICK new \in LoopRow :
        /\ loop' = [loop EXCEPT ![l] = new]
        /\ new.kind = row.kind
        /\ new.shifted = (row.shifted \/ (row.cursor # 0 /\ row.cursor \notin active))
        /\ new.pc = IF Last(batch) THEN "done" ELSE "sending"
        /\ batch = {} => new.cursor = row.cursor
        /\ batch # {} => new.cursor \in batch
  <2>1. PICK cursor : cursor = IF batch = {} THEN row.cursor
                               ELSE CHOOSE c \in batch : \A d \in batch : d <= c
    OBVIOUS
  <2>2. batch # {} => cursor \in batch
    BY <1>2, <2>1, BatchEffect
  <2>3. cursor \in 0..CustomerCount
    BY <1>1, <1>3, <2>1, <2>2, BuyersNumbered DEF LoopRow
  <2>4. PICK shifted \in BOOLEAN :
          shifted = (row.shifted \/ (row.cursor # 0 /\ row.cursor \notin active))
    BY <1>1 DEF LoopRow
  <2>5. PICK pc \in {"done", "sending"} : pc = IF Last(batch) THEN "done" ELSE "sending"
    OBVIOUS
  <2>6. loop' = [loop EXCEPT ![l] = [row EXCEPT !.shifted = shifted, !.pc = pc,
                                                !.cursor = cursor]]
    BY <1>1, <1>2, <2>1, <2>4, <2>5 DEF SendBatch
  <2>7. QED
    <3>1. PICK new : new = [row EXCEPT !.shifted = shifted, !.pc = pc, !.cursor = cursor]
      OBVIOUS
    <3>2. new \in LoopRow
      BY <2>3, <2>5, <3>1 DEF LoopRow
    <3>3. loop' = [loop EXCEPT ![l] = new]
      BY <2>6, <3>1
    <3>4. /\ new.kind = row.kind /\ new.shifted = shifted /\ new.pc = pc
          /\ new.cursor = cursor
      BY <3>1 DEF LoopRow
    <3>5. QED
      BY <2>1, <2>2, <2>4, <2>5, <3>2, <3>3, <3>4
<1>5. /\ row.pc = "sending"
      /\ owed' = [owed EXCEPT ![l] = owed[l] \ batch]
      /\ UNCHANGED <<active, product, events>>
  BY <1>1, <1>2 DEF SendBatch
<1>6. /\ \A k \in Loops : loop'[k] = IF k = l THEN new ELSE loop[k]
      /\ \A k \in Loops : owed'[k] = IF k = l THEN owed[l] \ batch ELSE owed[k]
  BY <1>4, <1>5 DEF CastTypeOK
<1>7. CastTypeOK'
  BY <1>4, <1>5 DEF CastTypeOK
<1>8. LoopsNamed' /\ AnnouncedOnce' /\ OwedActive'
  BY <1>1, <1>4, <1>5, <1>6 DEF LoopsNamed, AnnouncedOnce, OwedActive
<1>9. ASSUME ~new.shifted
      PROVE  \A c \in owed[l] \ batch : ~Last(batch) /\ new.cursor < c
  <2>1. SUFFICES ASSUME NEW c \in owed[l] \ batch PROVE ~Last(batch) /\ new.cursor < c
    OBVIOUS
  <2>2. ~row.shifted /\ (row.cursor = 0 \/ row.cursor \in active)
    BY <1>4, <1>9
  <2>3. row.cursor < c /\ c \in active
    BY <1>1, <1>5, <2>1, <2>2 DEF OwedAhead, OwedActive
  <2>4. ~Last(batch) /\ \A d \in batch : d < c
    BY <1>1, <1>2, <2>1, <2>2, <2>3, BatchEffect
  <2>5. QED
    BY <1>4, <2>3, <2>4
<1>10. OwedAhead' /\ ReachesAll'
  BY <1>4, <1>6, <1>9 DEF OwedAhead, ReachesAll
<1>11. QED
  BY <1>7, <1>8, <1>10

\* A loop that fails owes what it owed, and nothing is said of it.
LEMMA FailInv ==
  ASSUME CastInv, CastCrash \/ \E l \in Loops : LoopFails(l)
  PROVE  CastInv'
<1> USE BroadcastAssumption DEF CastInv
<1>1. /\ loop' \in [Loops -> LoopRow]
      /\ \A k \in Loops : /\ loop'[k].kind = loop[k].kind
                          /\ loop'[k].shifted = loop[k].shifted
                          /\ loop'[k] = loop[k] \/ loop'[k].pc = "failed"
  <2>1. CASE CastCrash
    <3>1. \A k \in Loops : [loop[k] EXCEPT !.pc = "failed"] \in LoopRow
      BY DEF CastTypeOK, LoopRow
    <3>2. QED
      BY <2>1, <3>1 DEF CastCrash, CastTypeOK, LoopRow
  <2>2. ASSUME NEW l \in Loops, LoopFails(l)
        PROVE  <1>1!1 /\ <1>1!2
    BY <2>2 DEF LoopFails, CastTypeOK, LoopRow
  <2>3. QED
    BY <2>1, <2>2
<1>2. UNCHANGED <<active, product, owed>> /\ events' \in 0..Cardinality(Loops)
  <2>1. Cardinality(Loops) \in Nat
    BY FS_CardinalityType
  <2>2. QED
    BY <2>1 DEF CastCrash, LoopFails, CastTypeOK
<1>3. CastTypeOK' /\ OwedActive'
  BY <1>1, <1>2 DEF CastTypeOK, OwedActive
<1>4. LoopsNamed' /\ AnnouncedOnce'
  BY <1>1, <1>2 DEF LoopsNamed, AnnouncedOnce
<1>5. OwedAhead' /\ ReachesAll'
  BY <1>1, <1>2 DEF OwedAhead, ReachesAll
<1>6. QED
  BY <1>3, <1>4, <1>5

-----------------------------------------------------------------------------
LEMMA CastStep == ASSUME CastInv, [CastNext]_castVars PROVE CastInv'
<1>1. CASE UNCHANGED castVars
  BY <1>1 DEF castVars, CastInv, CastTypeOK, LoopsNamed, AnnouncedOnce, OwedActive, OwedAhead,
              ReachesAll
<1>2. CASE CastNext
  BY <1>2, PanelInv, BeginsInv, SendBatchInv, FailInv DEF CastNext
<1>3. QED
  BY <1>1, <1>2

\* Who is owed a message is still ahead of the cursor, in every reachable state.
THEOREM CastInvariant == CastSpec => []CastInv
<1> QED
  BY CastInitInv, CastStep, PTL DEF CastSpec

\* A product is announced to a customer once, however often it is saved active and however
\* its events run together (notification.service.ts 202-204).
THEOREM ProductsAreAnnouncedOnce == CastSpec => []AnnouncedOnce
<1>1. CastInv => AnnouncedOnce
  BY DEF CastInv
<1>2. QED
  BY <1>1, CastInvariant, PTL

\* A loop that ended has sent to each customer who was active since it began, unless one of
\* its cursors was switched off (notification.service.ts 199, announcements.service.ts 71).
THEOREM LoopsReachAll == CastSpec => []ReachesAll
<1>1. CastInv => ReachesAll
  BY DEF CastInv
<1>2. QED
  BY <1>1, CastInvariant, PTL

-----------------------------------------------------------------------------
(* OrderNotices: between the commit and the last send the handler only     *)
(* ever holds a change that has committed.                                 *)

NoticeInv ==
  /\ NoticeTypeOK
  /\ NoticeOfCommitted
  /\ \A n \in OrderChanges : event[n] \in {"emitted", "buyer"} => tx[n] = "committed"

LEMMA NoticeInitInv == NoticeInit => NoticeInv
BY DEF NoticeInit, NoticeInv, NoticeTypeOK, NoticeOfCommitted

\* No step of a change or of its handler breaks it.
LEMMA NoticeStep == ASSUME NoticeInv, [NoticeNext]_noticeVars PROVE NoticeInv'
<1> USE DEF NoticeInv, NoticeTypeOK, NoticeOfCommitted
<1>1. ASSUME NEW n \in OrderChanges,
             BeginChange(n) \/ CommitChange(n) \/ CommitUnheard(n) \/ RollBack(n)
      PROVE  NoticeInv'
  BY <1>1 DEF BeginChange, CommitChange, CommitUnheard, RollBack
<1>2. ASSUME NEW n \in OrderChanges, EmitChange(n) \/ HandlerThrows(n)
      PROVE  NoticeInv'
  BY <1>2 DEF EmitChange, HandlerThrows
<1>3. ASSUME NEW n \in OrderChanges, TellBuyer(n)
      PROVE  NoticeInv'
  BY <1>3 DEF TellBuyer
<1>4. ASSUME NEW n \in OrderChanges, TellStaff(n)
      PROVE  NoticeInv'
  <2>1. told' \in [OrderChanges -> SUBSET {"buyer", "staff"}]
    <3>1. told[n] \cup {"staff"} \subseteq {"buyer", "staff"}
      OBVIOUS
    <3>2. QED
      BY <1>4, <3>1 DEF TellStaff
  <2>2. QED
    BY <1>4, <2>1 DEF TellStaff
<1>5. CASE NoticeCrash
  BY <1>5 DEF NoticeCrash
<1>6. CASE UNCHANGED noticeVars
  BY <1>6 DEF noticeVars
<1>7. QED
  BY <1>1, <1>2, <1>3, <1>4, <1>5, <1>6 DEF NoticeNext

\* Types and the source of every event, in every reachable state.
THEOREM NoticeInvariant == NoticeSpec => []NoticeInv
<1>1. QED
  BY NoticeInitInv, NoticeStep, PTL DEF NoticeSpec

\* No message about what did not happen (orders.service.ts emits after its transaction).
THEOREM NoticesAreOfCommittedChanges == NoticeSpec => []NoticeOfCommitted
<1>1. NoticeInv => NoticeOfCommitted
  BY DEF NoticeInv
<1>2. QED
  BY <1>1, NoticeInvariant, PTL

=============================================================================
