----------------------------- MODULE Broadcasts -----------------------------
(***************************************************************************)
(* Messages to every active customer (NotificationService                  *)
(* .onProductActivated, AnnouncementsService.create): a new product is     *)
(* claimed once with announcedAt, an announcement is made by an employee;  *)
(* both then read the customers in batches after a cursor and send to      *)
(* each.  Customers are numbered in the order of their ids.  The event of  *)
(* a product is kept in memory: a crash loses it and the loop in progress. *)
(***************************************************************************)
EXTENDS Naturals, FiniteSets

CONSTANTS
  CustomerCount,  \* customers, active or not
  Chunk,          \* BROADCAST_CHUNK, DISPATCH_CHUNK
  Loops           \* handlers and announcements that may run

Buyers == 1..CustomerCount

ASSUME BroadcastAssumption ==
  CustomerCount \in Nat /\ Chunk \in Nat \ {0} /\ IsFiniteSet(Loops)

VARIABLES
  active,     \* customers with isActive
  product,    \* isActive, whether its factory is active, and announcedAt
  events,     \* ProductActivated events not handled yet, in memory
  loop,       \* loop[l]: a broadcast
  owed        \* ghost: owed[l]: customers active since l began and not yet sent to

castVars == <<active, product, events, loop, owed>>

NoLoop == [pc |-> "none", kind |-> "none", cursor |-> 0, shifted |-> FALSE]

CastInit ==
  /\ active = Buyers
  /\ product = [active |-> FALSE, factory |-> TRUE, announced |-> FALSE]
  /\ events = 0
  /\ loop = [l \in Loops |-> NoLoop]
  /\ owed = [l \in Loops |-> {}]

-----------------------------------------------------------------------------
(* What the panel does meanwhile                                           *)

SetBuyerActive(c) ==
  /\ active' = IF c \in active THEN active \ {c} ELSE active \cup {c}
  /\ owed' = [l \in Loops |-> owed[l] \ {c}]
  /\ UNCHANGED <<product, events, loop>>

\* ProductsAdminService.update: isActive TRUE is announced by an event each time.
SaveProduct(isActive) ==
  /\ product' = [product EXCEPT !.active = isActive]
  /\ events' = IF isActive THEN events + 1 ELSE events
  /\ events < Cardinality(Loops)
  /\ UNCHANGED <<active, loop, owed>>

SetFactory(isActive) ==
  /\ product.factory # isActive
  /\ product' = [product EXCEPT !.factory = isActive]
  /\ UNCHANGED <<active, events, loop, owed>>

-----------------------------------------------------------------------------
Starting(l, kind) ==
  /\ loop' = [loop EXCEPT ![l] =
       [pc |-> "sending", kind |-> kind, cursor |-> 0, shifted |-> FALSE]]
  /\ owed' = [owed EXCEPT ![l] = active]

Visible == product.active /\ product.factory

\* Mutant of ClaimProduct: the product is looked at, then marked when it has been sent.
ClaimProductLater(l) ==
  /\ loop[l].pc = "none"
  /\ events > 0
  /\ events' = events - 1
  /\ IF Visible /\ ~product.announced
     THEN Starting(l, "product")
     ELSE UNCHANGED <<loop, owed>>
  /\ product' = [product EXCEPT !.announced = \E k \in Loops : loop[k].pc = "done"]
  /\ UNCHANGED active

\* onProductActivated: one conditional UPDATE, then the loop.
ClaimProduct(l) ==
  /\ loop[l].pc = "none"
  /\ events > 0
  /\ events' = events - 1
  /\ IF Visible /\ ~product.announced
     THEN /\ product' = [product EXCEPT !.announced = TRUE]
          /\ Starting(l, "product")
     ELSE UNCHANGED <<product, loop, owed>>
  /\ UNCHANGED active

\* AnnouncementsService.create, to all: refused when nobody is active.
Announce(l) ==
  /\ loop[l].pc = "none"
  /\ active # {}
  /\ Starting(l, "announcement")
  /\ UNCHANGED <<active, product, events>>

-----------------------------------------------------------------------------
\* The n first of a set of customers, in the order of their ids.
Lowest(n, s) == {c \in s : Cardinality({d \in s : d < c}) < n}

\* findMany with cursor and skip 1: the active customers from the cursor on, less the
\* first of them, which is the cursor only while it is active itself.
Batch(l) ==
  LET from == {c \in active : c >= loop[l].cursor}
      rest == IF loop[l].cursor = 0 THEN from ELSE from \ Lowest(1, from) IN
  Lowest(Chunk, rest)

\* Mutant of Last: the loop ends with a full batch as well.
LastFull(batch) == Cardinality(batch) <= Chunk

\* An empty or short batch is the last.
Last(batch) == Cardinality(batch) < Chunk

\* dispatch sends to the whole batch; a send that fails is logged and not repeated.
SendBatch(l) ==
  LET batch == Batch(l) IN
  /\ loop[l].pc = "sending"
  /\ owed' = [owed EXCEPT ![l] = owed[l] \ batch]
  /\ LET shifted == loop[l].shifted \/ (loop[l].cursor # 0 /\ loop[l].cursor \notin active) IN
     loop' = [loop EXCEPT ![l] =
       [loop[l] EXCEPT !.shifted = shifted,
                       !.pc = IF Last(batch) THEN "done" ELSE "sending",
                       !.cursor = IF batch = {} THEN loop[l].cursor
                                  ELSE CHOOSE c \in batch : \A d \in batch : d <= c]]
  /\ UNCHANGED <<active, product, events>>

\* A query throws, or the process stops: the loop is not taken up again, and the
\* events still in memory are gone with the process.
LoopFails(l) ==
  /\ loop[l].pc = "sending"
  /\ loop' = [loop EXCEPT ![l].pc = "failed"]
  /\ UNCHANGED <<active, product, events, owed>>

CastCrash ==
  /\ loop' = [l \in Loops |->
       IF loop[l].pc = "sending" THEN [loop[l] EXCEPT !.pc = "failed"] ELSE loop[l]]
  /\ events' = 0
  /\ UNCHANGED <<active, product, owed>>

CastNext ==
  \/ \E c \in Buyers : SetBuyerActive(c)
  \/ \E b \in BOOLEAN : SaveProduct(b) \/ SetFactory(b)
  \/ \E l \in Loops : ClaimProduct(l) \/ Announce(l) \/ SendBatch(l) \/ LoopFails(l)
  \/ CastCrash

CastSpec == CastInit /\ [][CastNext]_castVars

-----------------------------------------------------------------------------
LoopRow == [pc : {"none", "sending", "done", "failed"},
            kind : {"none", "product", "announcement"},
            cursor : 0..CustomerCount, shifted : BOOLEAN]

CastTypeOK ==
  /\ active \subseteq Buyers
  /\ product \in [active : BOOLEAN, factory : BOOLEAN, announced : BOOLEAN]
  /\ events \in 0..Cardinality(Loops)
  /\ loop \in [Loops -> LoopRow]
  /\ owed \in [Loops -> SUBSET Buyers]

\* A product is announced to a customer once, however often it is saved active, and
\* however its events run together (notification.service.ts 202-204).
AnnouncedOnce ==
  \A k, l \in Loops :
    loop[k].kind = "product" /\ loop[l].kind = "product" => k = l

\* "To ALL active customers" (notification.service.ts 199, announcements.service.ts
\* 71): a loop that ended has sent to each customer who was active since it
\* began.  The exception is a loop one of whose cursors was switched off before
\* the next batch: skip 1 then passes over somebody else.
ReachesAll ==
  \A l \in Loops :
    loop[l].pc = "done" /\ ~loop[l].shifted => owed[l] = {}

=============================================================================
