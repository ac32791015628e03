----------------------- MODULE StockReservationProofs -----------------------
(***************************************************************************)
(* Proofs about StockReservation, for any products, orders, baskets and     *)
(* number of concurrent requests.                                           *)
(***************************************************************************)
EXTENDS StockReservation, FiniteSetTheorems, TLAPS

USE DEF OrderStatus

-----------------------------------------------------------------------------
(* Types                                                                   *)

\* An item of an order is a product.
LEMMA ItemsType == \A o \in Orders : Items(o) \subseteq Products
  BY DEF Items

\* Turning to another row keeps the request a request.
LEMMA StepToType ==
  ASSUME TypeOK, NEW t \in Procs, NEW r \in Request, StepTo(t, r)
  PROVE  tx' \in [Procs -> Request]
<1>1. PICK q \in NextRow(tx[t].todo) :
        tx' = [tx EXCEPT ![t] = [r EXCEPT !.at = q, !.todo = tx[t].todo \ {q}]]
  BY DEF StepTo
<1>2. tx[t].todo \in SUBSET Products
  BY DEF TypeOK, Request
<1>3. q \in Products \cup {NoProduct}
  BY <1>2 DEF NextRow
<1>4. [r EXCEPT !.at = q, !.todo = tx[t].todo \ {q}] \in Request
  BY <1>2, <1>3 DEF Request
<1> QED
  BY <1>1, <1>4 DEF TypeOK

\* Writing a row with a number of pallets keeps the types.
LEMMA WriteRowType ==
  ASSUME TypeOK, NEW t \in Procs, NEW n \in Nat,
         tx[t].at # NoProduct, WriteRow(t, n)
  PROVE  TypeOK'
<1> DEFINE p == tx[t].at
           r == [tx[t] EXCEPT !.wrote = @ \cup {p}, !.draft[p] = n]
<1>1. p \in Products /\ tx[t] \in Request
  BY DEF TypeOK, Request
<1>2. r \in Request
  BY <1>1 DEF Request
<1>3. StepTo(t, r)
  BY DEF WriteRow
<1>4. tx' \in [Procs -> Request]
  BY <1>2, <1>3, StepToType
<1>5. stockLock' \in [Products -> Procs \cup {NoProc}]
  BY <1>1 DEF WriteRow, TypeOK
<1> QED
  BY <1>4, <1>5 DEF WriteRow, TypeOK

\* Ending a transaction keeps the types of locks and requests.
LEMMA ReleaseType ==
  ASSUME TypeOK, NEW t \in Procs, ReleaseLocks(t)
  PROVE  /\ counterLock' \in Procs \cup {NoProc}
         /\ stockLock' \in [Products -> Procs \cup {NoProc}]
         /\ orderLock' \in [Orders -> Procs \cup {NoProc}]
         /\ tx' \in [Procs -> Request]
<1>1. Idle \in Request
  BY DEF Idle, Request, Phases
<1> QED
  BY <1>1 DEF ReleaseLocks, TypeOK

\* A roll-back keeps the types.
LEMMA RollbackType ==
  ASSUME TypeOK, NEW t \in Procs, Rollback(t)
  PROVE  TypeOK'
  BY ReleaseType DEF Rollback, bookVars, TypeOK

\* What a commit leaves in stock is a number of pallets.
LEMMA CommittedType ==
  ASSUME TypeOK, NEW t \in Procs
  PROVE  Committed(t) \in [Products -> Nat]
<1>1. tx[t].draft \in [Products -> Nat]
  BY DEF TypeOK, Request
<1> QED
  BY <1>1 DEF Committed, TypeOK

-----------------------------------------------------------------------------
(* The inductive invariant                                                 *)

\* The types are not inductive alone: that a draft is a number of pallets needs
\* the row to qualify, and that the request has an order in hand.
Inv == TypeOK /\ TransactionsConsistent

\* An idle request is a request.
LEMMA IdleType == Idle \in Request
  BY DEF Idle, Request, Phases

\* No request is open at the start.
LEMMA InitInv == Init => Inv
<1> SUFFICES ASSUME Init PROVE Inv
  OBVIOUS
<1>1. TypeOK
  BY IdleType, BookAssumption DEF Init, BookInit, TypeOK, OrderRow
<1>2. \A t \in Procs : tx[t] = Idle
  BY DEF Init
<1>3. LocksMatch
  BY <1>2, ReservationAssumption DEF Init, LocksMatch, Idle
<1>4. PlacementsSound /\ ChangesSound
  BY <1>2 DEF PlacementsSound, ChangesSound, Placing, Changing, Idle
<1>5. RowsAccounted /\ DraftsCurrent
  BY <1>2 DEF RowsAccounted, DraftsCurrent, Idle
<1> QED
  BY <1>1, <1>3, <1>4, <1>5 DEF Inv, TransactionsConsistent

\* Ending a transaction frees its rows and no others.
LEMMA ReleaseLocksMatch ==
  ASSUME TypeOK, LocksMatch, NEW t \in Procs, ReleaseLocks(t)
  PROVE  /\ LocksMatch'
         /\ tx'[t] = Idle
         /\ \A u \in Procs : u # t => tx'[u] = tx[u]
<1>1. tx'[t] = Idle /\ \A u \in Procs : u # t => tx'[u] = tx[u]
  BY DEF ReleaseLocks, TypeOK
<1>2. \A u \in Procs : counterLock' = u <=> tx'[u].pc = "reserving"
  BY <1>1, ReservationAssumption DEF ReleaseLocks, LocksMatch, Idle
<1>3. \A u \in Procs, p \in Products : stockLock'[p] = u <=> p \in tx'[u].wrote
  BY <1>1, ReservationAssumption DEF ReleaseLocks, LocksMatch, Idle
<1>4. \A u \in Procs, o \in Orders :
        orderLock'[o] = u <=> tx'[u].pc = "updating" /\ tx'[u].order = o
  BY <1>1, ReservationAssumption DEF ReleaseLocks, LocksMatch, Idle
<1> QED
  BY <1>1, <1>2, <1>3, <1>4 DEF LocksMatch

\* A roll-back leaves every other request as it was.
LEMMA RollbackInv ==
  ASSUME Inv, NEW t \in Procs, Rollback(t)
  PROVE  Inv'
<1> USE DEF Inv, TransactionsConsistent
<1>1. LocksMatch' /\ tx'[t] = Idle /\ \A u \in Procs : u # t => tx'[u] = tx[u]
  BY ReleaseLocksMatch DEF Rollback
<1>2. UNCHANGED <<stock, lastNumber, orders>>
  BY DEF Rollback, bookVars
<1>3. TypeOK'
  BY RollbackType
<1>4. PlacementsSound'
  BY <1>1, <1>2 DEF PlacementsSound, Placing, Idle
<1>5. ChangesSound'
  BY <1>1, <1>2 DEF ChangesSound, Changing, Idle
<1>6. RowsAccounted'
  BY <1>1, <1>2 DEF RowsAccounted, Remaining, Idle
<1>7. DraftsCurrent'
  BY <1>1, <1>2 DEF DraftsCurrent, Idle
<1> QED
  BY <1>1, <1>3, <1>4, <1>5, <1>6, <1>7


-----------------------------------------------------------------------------
(* One lemma per action                                                    *)

\* A placement that passed its check has the order to itself.
LEMMA CheckStockInv ==
  ASSUME Inv, NEW t \in Procs, NEW o \in Orders, CheckStock(t, o)
  PROVE  Inv'
<1> USE DEF Inv, TransactionsConsistent
<1> DEFINE r == [Idle EXCEPT !.pc = "placing", !.order = o]
<1>1. /\ tx' = [tx EXCEPT ![t] = r]
      /\ UNCHANGED <<stock, lastNumber, orders, counterLock, stockLock, orderLock>>
      /\ tx[t].pc = "idle" /\ orders[o].status = "absent"
      /\ \A u \in Procs : tx[u].order = o => tx[u].from # "absent"
  BY DEF CheckStock, bookVars, locks
<1>2. r \in Request
  BY DEF Idle, Request, Phases
<1>3. TypeOK'
  BY <1>1, <1>2 DEF TypeOK
<1>4. tx'[t] = r /\ \A u \in Procs : u # t => tx'[u] = tx[u]
  BY <1>1 DEF TypeOK
<1>5. LocksMatch'
  BY <1>1, <1>4 DEF LocksMatch, RowsAccounted, Idle
<1>6. PlacementsSound'
  BY <1>1, <1>4 DEF PlacementsSound, Placing, Idle
<1>7. ChangesSound'
  BY <1>1, <1>4 DEF ChangesSound, Changing, Idle
<1>8. RowsAccounted'
  BY <1>1, <1>4 DEF RowsAccounted, Remaining, Idle
<1>9. DraftsCurrent'
  BY <1>1, <1>4 DEF DraftsCurrent, Idle
<1> QED
  BY <1>3, <1>5, <1>6, <1>7, <1>8, <1>9

\* A change that passed its check follows the flow.
LEMMA ReadStatusInv ==
  ASSUME Inv, NEW t \in Procs, NEW o \in Orders, NEW to \in OrderStatus,
         ReadStatus(t, o, to)
  PROVE  Inv'
<1> USE DEF Inv, TransactionsConsistent
<1> DEFINE r == [Idle EXCEPT !.pc = "changing", !.order = o,
                             !.from = orders[o].status, !.to = to]
<1>1. /\ tx' = [tx EXCEPT ![t] = r]
      /\ UNCHANGED <<stock, lastNumber, orders, counterLock, stockLock, orderLock>>
      /\ tx[t].pc = "idle" /\ orders[o].status # "absent"
      /\ canTransition(orders[o].status, to, HasDelivery[o])
  BY DEF ReadStatus, bookVars, locks
<1>2. orders[o].status \in OrderStatus
  BY <1>1 DEF TypeOK, OrderRow
<1>3. r \in Request
  BY <1>2 DEF Idle, Request, Phases
<1>4. TypeOK'
  BY <1>1, <1>3 DEF TypeOK
<1>5. tx'[t] = r /\ \A u \in Procs : u # t => tx'[u] = tx[u]
  BY <1>1 DEF TypeOK
<1>6. LocksMatch'
  BY <1>1, <1>5 DEF LocksMatch, RowsAccounted, Idle
<1>7. PlacementsSound'
  BY <1>1, <1>5 DEF PlacementsSound, Placing, Idle
<1>8. ChangesSound'
  BY <1>1, <1>2, <1>5 DEF ChangesSound, Changing, Idle
<1>9. RowsAccounted'
  BY <1>1, <1>5 DEF RowsAccounted, Remaining, Idle
<1>10. DraftsCurrent'
  BY <1>1, <1>5 DEF DraftsCurrent, Idle
<1> QED
  BY <1>4, <1>6, <1>7, <1>8, <1>9, <1>10

\* The counter's row gives one transaction at a time the next number.
LEMMA TakeNumberInv ==
  ASSUME Inv, NEW t \in Procs, TakeNumber(t)
  PROVE  Inv'
<1> USE DEF Inv, TransactionsConsistent
<1> DEFINE I == Items(tx[t].order)
<1>1. PICK q \in NextRow(I) :
        tx' = [tx EXCEPT ![t] = [tx[t] EXCEPT !.pc = "reserving",
                                   !.number = lastNumber + 1, !.at = q,
                                   !.todo = I \ {q}]]
  BY DEF TakeNumber
<1> DEFINE r == [tx[t] EXCEPT !.pc = "reserving", !.number = lastNumber + 1,
                              !.at = q, !.todo = I \ {q}]
<1>2. /\ UNCHANGED <<stock, lastNumber, orders, stockLock, orderLock>>
      /\ tx[t].pc = "placing" /\ counterLock = NoProc /\ counterLock' = t
  BY DEF TakeNumber, bookVars
<1>3. /\ tx[t] \in Request /\ I \subseteq Products /\ q \in Products \cup {NoProduct}
      /\ lastNumber + 1 \in Nat
  BY <1>1 DEF TypeOK, Items, NextRow
<1>4. r \in Request
  <2>1. I \ {q} \in SUBSET Products
    BY <1>3
  <2> HIDE DEF I
  <2> QED
    BY <1>3, <2>1 DEF Request, Phases
<1>5. TypeOK'
  BY <1>1, <1>2, <1>4 DEF TypeOK
<1>6. /\ tx'[t] = r
      /\ \A u \in Procs : u # t => tx'[u] = tx[u]
      /\ r.pc = "reserving" /\ r.number = lastNumber + 1 /\ r.at = q
      /\ r.todo = I \ {q} /\ r.order = tx[t].order /\ r.from = tx[t].from
      /\ r.to = tx[t].to /\ r.wrote = tx[t].wrote /\ r.draft = tx[t].draft
  BY <1>1, <1>3 DEF TypeOK, Request
<1> HIDE DEF r
<1>7. LocksMatch'
  BY <1>2, <1>6, ReservationAssumption DEF LocksMatch
<1>8. PlacementsSound'
  BY <1>2, <1>6 DEF PlacementsSound, Placing
<1>9. ChangesSound'
  BY <1>2, <1>6 DEF ChangesSound, Changing
<1>10. tx[t].wrote = {}
  BY <1>2 DEF RowsAccounted
<1>11. /\ r.at = NoProduct => r.todo = {}
       /\ r.todo \cup (IF r.at = NoProduct THEN {} ELSE {r.at}) = I
  BY <1>1, <1>3, <1>6, ReservationAssumption DEF NextRow
<1>12. RowsAccounted'
  BY <1>2, <1>6, <1>10, <1>11 DEF RowsAccounted, Remaining, Items
<1>13. DraftsCurrent'
  BY <1>2, <1>6, <1>10 DEF DraftsCurrent
<1> QED
  BY <1>5, <1>7, <1>8, <1>9, <1>12, <1>13


\* With the order's row, the status that was read is the status it has.
LEMMA ClaimOrderInv ==
  ASSUME Inv, NEW t \in Procs, ClaimOrder(t)
  PROVE  Inv'
<1> USE DEF Inv, TransactionsConsistent
<1> DEFINE o == tx[t].order
           back == IF tx[t].to = "CANCELLED" /\ orders[o].reserved THEN Items(o) ELSE {}
<1>1. PICK q \in NextRow(back) :
        tx' = [tx EXCEPT ![t] = [tx[t] EXCEPT !.pc = "updating",
                                   !.at = q, !.todo = back \ {q}]]
  BY DEF ClaimOrder
<1> DEFINE r == [tx[t] EXCEPT !.pc = "updating", !.at = q, !.todo = back \ {q}]
<1>2. /\ UNCHANGED <<stock, lastNumber, orders, counterLock, stockLock>>
      /\ tx[t].pc = "changing" /\ orders[o].status = tx[t].from
      /\ orderLock[o] = NoProc /\ orderLock' = [orderLock EXCEPT ![o] = t]
  BY DEF ClaimOrder, bookVars
<1>3. o \in Orders
  BY <1>2 DEF ChangesSound, Changing
<1>4. tx[t] \in Request /\ back \subseteq Products /\ q \in Products \cup {NoProduct}
  BY <1>1 DEF TypeOK, Items, NextRow
<1>5. r \in Request
  <2>1. back \ {q} \in SUBSET Products
    BY <1>4
  <2> HIDE DEF back
  <2> QED
    BY <1>4, <2>1 DEF Request, Phases
<1>6. TypeOK'
  BY <1>1, <1>2, <1>3, <1>5 DEF TypeOK
<1>7. /\ tx'[t] = r
      /\ \A u \in Procs : u # t => tx'[u] = tx[u]
      /\ r.pc = "updating" /\ r.at = q /\ r.todo = back \ {q}
      /\ r.order = o /\ r.from = tx[t].from /\ r.to = tx[t].to
      /\ r.wrote = tx[t].wrote /\ r.draft = tx[t].draft
  BY <1>1, <1>4 DEF TypeOK, Request
<1> HIDE DEF r
<1>8. LocksMatch'
  BY <1>2, <1>3, <1>7, ReservationAssumption DEF LocksMatch, TypeOK
<1>9. PlacementsSound'
  BY <1>2, <1>7 DEF PlacementsSound, Placing
<1>10. ChangesSound'
  BY <1>2, <1>7 DEF ChangesSound, Changing
<1>11. tx[t].wrote = {}
  BY <1>2 DEF RowsAccounted
<1>12. /\ r.at = NoProduct => r.todo = {}
       /\ r.todo \cup (IF r.at = NoProduct THEN {} ELSE {r.at}) = back
  BY <1>1, <1>4, <1>7, ReservationAssumption DEF NextRow
<1>13. RowsAccounted'
  <2>1. \A u \in Procs : u # t => Remaining(u)' = Remaining(u)
    BY <1>7 DEF Remaining
  <2>2. Remaining(t)' = back
    BY <1>7, <1>12 DEF Remaining
  <2> QED
    BY <1>2, <1>7, <1>11, <1>12, <2>1, <2>2 DEF RowsAccounted, Items
<1>14. DraftsCurrent'
  BY <1>2, <1>7, <1>11 DEF DraftsCurrent
<1> QED
  BY <1>6, <1>8, <1>9, <1>10, <1>13, <1>14

\* Turning to another row moves it from what remains to the current statement.
LEMMA StepToRows ==
  ASSUME TypeOK, NEW t \in Procs, NEW r \in Request, StepTo(t, r)
  PROVE  /\ \A u \in Procs : u # t => tx'[u] = tx[u]
         /\ tx'[t].pc = r.pc /\ tx'[t].order = r.order /\ tx'[t].from = r.from
         /\ tx'[t].to = r.to /\ tx'[t].wrote = r.wrote /\ tx'[t].draft = r.draft
         /\ tx'[t].lost = r.lost /\ tx'[t].number = r.number
         /\ Remaining(t)' = tx[t].todo
         /\ tx'[t].at = NoProduct => tx'[t].todo = {}
         /\ tx'[t].at \notin tx'[t].todo
         /\ tx'[t].at # NoProduct => tx'[t].at \in tx[t].todo
         /\ tx'[t].todo \subseteq tx[t].todo
<1>1. PICK q \in NextRow(tx[t].todo) :
        tx' = [tx EXCEPT ![t] = [r EXCEPT !.at = q, !.todo = tx[t].todo \ {q}]]
  BY DEF StepTo
<1>2. tx[t].todo \in SUBSET Products
  BY DEF TypeOK, Request
<1>3. \A u \in Procs : u # t => tx'[u] = tx[u]
  BY <1>1 DEF TypeOK
<1>4. /\ tx'[t].pc = r.pc /\ tx'[t].order = r.order /\ tx'[t].from = r.from
      /\ tx'[t].to = r.to /\ tx'[t].wrote = r.wrote /\ tx'[t].draft = r.draft
      /\ tx'[t].lost = r.lost /\ tx'[t].number = r.number
      /\ tx'[t].at = q /\ tx'[t].todo = tx[t].todo \ {q}
  BY <1>1 DEF TypeOK, Request
<1>5. q = NoProduct <=> tx[t].todo = {}
  BY <1>2, ReservationAssumption DEF NextRow
<1>6. q # NoProduct => q \in tx[t].todo
  BY <1>5 DEF NextRow
<1>7. Remaining(t)' = tx[t].todo
  BY <1>4, <1>5, <1>6 DEF Remaining
<1> QED
  BY <1>3, <1>4, <1>5, <1>6, <1>7


\* A short row is skipped, and the placement will be rejected.
LEMMA RowShortInv ==
  ASSUME Inv, NEW t \in Procs, RowShort(t)
  PROVE  Inv'
<1> USE DEF Inv, TransactionsConsistent
<1> DEFINE r == [tx[t] EXCEPT !.lost = TRUE]
<1>1. /\ UNCHANGED <<stock, lastNumber, orders, counterLock, stockLock, orderLock>>
      /\ tx[t].pc = "reserving" /\ StepTo(t, r)
  BY DEF RowShort, bookVars, locks
<1>2. tx[t] \in Request
  BY DEF TypeOK
<1>3. /\ r \in Request /\ r.lost = TRUE /\ r.pc = "reserving"
      /\ r.order = tx[t].order /\ r.from = tx[t].from /\ r.to = tx[t].to
      /\ r.wrote = tx[t].wrote /\ r.draft = tx[t].draft /\ r.number = tx[t].number
  BY <1>1, <1>2 DEF Request
<1> HIDE DEF r
<1>4. TypeOK'
  BY <1>1, <1>3, StepToType DEF TypeOK
<1>5. /\ \A u \in Procs : u # t => tx'[u] = tx[u]
      /\ tx'[t].pc = r.pc /\ tx'[t].order = r.order /\ tx'[t].from = r.from
      /\ tx'[t].to = r.to /\ tx'[t].wrote = r.wrote /\ tx'[t].draft = r.draft
      /\ tx'[t].lost = r.lost /\ tx'[t].number = r.number
      /\ tx'[t].at = NoProduct => tx'[t].todo = {}
      /\ tx'[t].at \notin tx'[t].todo
      /\ tx'[t].at # NoProduct => tx'[t].at \in tx[t].todo
      /\ tx'[t].todo \subseteq tx[t].todo
  BY <1>1, <1>3, StepToRows
<1>6. LocksMatch'
  BY <1>1, <1>3, <1>5 DEF LocksMatch
<1>7. PlacementsSound'
  BY <1>1, <1>3, <1>5 DEF PlacementsSound, Placing
<1>8. ChangesSound'
  BY <1>1, <1>3, <1>5 DEF ChangesSound, Changing
<1>9. RowsAccounted'
  <2>1. \A u \in Procs : u # t => Remaining(u)' = Remaining(u)
    BY <1>5 DEF Remaining
  <2>2. tx'[t].at \notin tx'[t].wrote
    BY <1>2, <1>3, <1>5, ReservationAssumption DEF RowsAccounted, Request
  <2>3. tx'[t].todo \cap tx'[t].wrote = {}
    BY <1>3, <1>5 DEF RowsAccounted
  <2> QED
    BY <1>1, <1>3, <1>5, <2>1, <2>2, <2>3 DEF RowsAccounted
<1>10. DraftsCurrent'
  BY <1>1, <1>3, <1>5 DEF DraftsCurrent
<1> QED
  BY <1>4, <1>6, <1>7, <1>8, <1>9, <1>10

\* Writing a row that nobody holds, with the value its statement computes.
LEMMA WriteRowInv ==
  ASSUME Inv, NEW t \in Procs, NEW n \in Nat,
         tx[t].pc \in {"reserving", "updating"}, tx[t].at # NoProduct,
         WriteRow(t, n),
         tx[t].pc = "reserving" =>
           /\ stock[tx[t].at] >= Basket[tx[t].order][tx[t].at]
           /\ n = stock[tx[t].at] - Basket[tx[t].order][tx[t].at],
         tx[t].pc = "updating" =>
           n = stock[tx[t].at] + Basket[tx[t].order][tx[t].at]
  PROVE  Inv'
<1> USE DEF Inv, TransactionsConsistent
<1> DEFINE p == tx[t].at
           r == [tx[t] EXCEPT !.wrote = @ \cup {p}, !.draft[p] = n]
<1>1. /\ UNCHANGED <<stock, lastNumber, orders, counterLock, orderLock>>
      /\ StepTo(t, r) /\ stockLock[p] = NoProc
      /\ stockLock' = [stockLock EXCEPT ![p] = t]
  BY DEF WriteRow
<1>2. tx[t] \in Request /\ p \in Products
  BY DEF TypeOK, Request
<1>3. /\ r \in Request /\ r.pc = tx[t].pc /\ r.lost = tx[t].lost
      /\ r.order = tx[t].order /\ r.from = tx[t].from /\ r.to = tx[t].to
      /\ r.number = tx[t].number
      /\ r.wrote = tx[t].wrote \cup {p}
      /\ r.draft = [tx[t].draft EXCEPT ![p] = n]
  BY <1>2 DEF Request
<1>4. TypeOK'
  BY WriteRowType
<1> HIDE DEF r
<1>5. /\ \A u \in Procs : u # t => tx'[u] = tx[u]
      /\ tx'[t].pc = r.pc /\ tx'[t].order = r.order /\ tx'[t].from = r.from
      /\ tx'[t].to = r.to /\ tx'[t].wrote = r.wrote /\ tx'[t].draft = r.draft
      /\ tx'[t].lost = r.lost /\ tx'[t].number = r.number
      /\ Remaining(t)' = tx[t].todo
      /\ tx'[t].at = NoProduct => tx'[t].todo = {}
      /\ tx'[t].at \notin tx'[t].todo
      /\ tx'[t].at # NoProduct => tx'[t].at \in tx[t].todo
      /\ tx'[t].todo \subseteq tx[t].todo
  BY <1>1, <1>3, StepToRows
<1>6. LocksMatch'
  BY <1>1, <1>2, <1>3, <1>5, ReservationAssumption DEF LocksMatch, TypeOK
<1>7. PlacementsSound'
  BY <1>1, <1>3, <1>5 DEF PlacementsSound, Placing
<1>8. ChangesSound'
  BY <1>1, <1>3, <1>5 DEF ChangesSound, Changing
<1>9. RowsAccounted'
  <2>1. \A u \in Procs : u # t => Remaining(u)' = Remaining(u)
    BY <1>5 DEF Remaining
  <2>2. NoProduct \notin tx'[t].wrote /\ p \notin tx[t].todo
    BY <1>2, <1>3, <1>5, ReservationAssumption DEF RowsAccounted, Request
  <2>3. /\ tx'[t].at \notin tx'[t].wrote
        /\ tx'[t].todo \cap tx'[t].wrote = {}
    BY <1>3, <1>5, <2>2 DEF RowsAccounted
  <2>4. tx'[t].wrote \cup Remaining(t)' = tx[t].wrote \cup Remaining(t)
    BY <1>3, <1>5 DEF Remaining
  <2> QED
    BY <1>1, <1>3, <1>5, <2>1, <2>3, <2>4 DEF RowsAccounted, Items
<1>10. DraftsCurrent'
  <2>1. tx[t].draft \in [Products -> Nat] /\ tx[t].wrote \subseteq Products
    BY <1>2 DEF Request
  <2>2. \A q \in tx[t].wrote : q # p /\ tx'[t].draft[q] = tx[t].draft[q]
    BY <1>3, <1>5, <2>1 DEF RowsAccounted
  <2>3. tx'[t].draft[p] = n
    BY <1>2, <1>3, <1>5, <2>1
  <2>4. SUFFICES ASSUME NEW u \in Procs, NEW q \in tx'[u].wrote
                 PROVE  /\ tx'[u].pc = "reserving" =>
                             /\ stock[q] >= Basket[tx'[u].order][q]
                             /\ tx'[u].draft[q] = stock[q] - Basket[tx'[u].order][q]
                        /\ tx'[u].pc = "updating" =>
                             tx'[u].draft[q] = stock[q] + Basket[tx'[u].order][q]
    BY <1>1 DEF DraftsCurrent
  <2>5. CASE u # t
    BY <1>5, <2>5 DEF DraftsCurrent
  <2>6. CASE u = t /\ q = p
    <3>1. /\ tx'[u].pc = tx[t].pc /\ tx'[u].order = tx[t].order
          /\ tx'[u].draft[q] = n /\ q = tx[t].at
      BY <1>3, <1>5, <2>3, <2>6
    <3> QED
      BY <3>1
  <2>7. CASE u = t /\ q \in tx[t].wrote
    <3>1. /\ tx'[u].pc = tx[t].pc /\ tx'[u].order = tx[t].order
          /\ tx'[u].draft[q] = tx[t].draft[q]
      BY <1>3, <1>5, <2>2, <2>7
    <3>2. /\ tx[t].pc = "reserving" =>
               /\ stock[q] >= Basket[tx[t].order][q]
               /\ tx[t].draft[q] = stock[q] - Basket[tx[t].order][q]
          /\ tx[t].pc = "updating" =>
               tx[t].draft[q] = stock[q] + Basket[tx[t].order][q]
      BY <2>7 DEF DraftsCurrent
    <3> QED
      BY <3>1, <3>2
  <2> QED
    BY <1>3, <1>5, <2>5, <2>6, <2>7
<1> QED
  BY <1>4, <1>6, <1>7, <1>8, <1>9, <1>10

\* The pallets a request counts with are numbers.
LEMMA BasketType ==
  ASSUME TypeOK, NEW o \in Orders, NEW p \in Products
  PROVE  Basket[o][p] \in Nat /\ stock[p] \in Nat
  BY BookAssumption DEF TypeOK

\* The conditional decrement never takes more than the row has.
LEMMA ReserveRowInv ==
  ASSUME Inv, NEW t \in Procs, ReserveRow(t)
  PROVE  Inv'
<1> DEFINE p == tx[t].at
           o == tx[t].order
<1>1. /\ tx[t].pc = "reserving" /\ p # NoProduct /\ stock[p] >= Basket[o][p]
      /\ WriteRow(t, stock[p] - Basket[o][p])
  BY DEF ReserveRow
<1>2. p \in Products /\ o \in Orders
  BY <1>1 DEF Inv, TransactionsConsistent, PlacementsSound, Placing, TypeOK, Request
<1>3. stock[p] - Basket[o][p] \in Nat
  BY <1>1, <1>2, BasketType DEF Inv
<1> QED
  BY <1>1, <1>3, WriteRowInv

\* A cancellation gives a row its pallets back.
LEMMA RestoreRowInv ==
  ASSUME Inv, NEW t \in Procs, RestoreRow(t)
  PROVE  Inv'
<1> DEFINE p == tx[t].at
           o == tx[t].order
<1>1. /\ tx[t].pc = "updating" /\ p # NoProduct
      /\ WriteRow(t, stock[p] + Basket[o][p])
  BY DEF RestoreRow
<1>2. p \in Products /\ o \in Orders
  BY <1>1 DEF Inv, TransactionsConsistent, ChangesSound, Changing, TypeOK, Request
<1>3. stock[p] + Basket[o][p] \in Nat
  BY <1>2, BasketType DEF Inv
<1> QED
  BY <1>1, <1>3, WriteRowInv

\* A commit changes only rows its transaction holds, so no draft of another
\* request goes stale.
LEMMA CommittedElsewhere ==
  ASSUME TypeOK, LocksMatch, NEW t \in Procs, NEW u \in Procs, u # t,
         NEW p \in tx[u].wrote
  PROVE  Committed(t)[p] = stock[p]
<1>1. p \in Products
  BY DEF TypeOK, Request
<1>2. p \notin tx[t].wrote
  BY <1>1 DEF LocksMatch
<1> QED
  BY <1>1, <1>2 DEF Committed

\* The order appears, its number is taken, and no other placement counted on
\* either.
LEMMA CommitPlaceInv ==
  ASSUME Inv, NEW t \in Procs, CommitPlace(t)
  PROVE  Inv'
<1> USE DEF Inv, TransactionsConsistent
<1> DEFINE o == tx[t].order
           row == [status |-> "NEW", reserved |-> TRUE, number |-> tx[t].number]
<1>1. /\ tx[t].pc = "reserving" /\ ReleaseLocks(t)
      /\ stock' = Committed(t) /\ lastNumber' = tx[t].number
      /\ orders' = [orders EXCEPT ![o] = row]
  BY DEF CommitPlace
<1>2. o \in Orders /\ orders[o].status = "absent"
  BY <1>1 DEF PlacementsSound, Placing
<1>3. LocksMatch' /\ tx'[t] = Idle /\ \A u \in Procs : u # t => tx'[u] = tx[u]
  BY <1>1, ReleaseLocksMatch
<1>4. tx[t].number \in Nat
  BY DEF TypeOK, Request
<1>5. row \in OrderRow
  BY <1>4 DEF OrderRow
<1>6. TypeOK'
  BY <1>1, <1>2, <1>4, <1>5, ReleaseType, CommittedType DEF TypeOK
<1>7. \A v \in Orders : v # o => orders'[v] = orders[v]
  BY <1>1 DEF TypeOK
<1>8. \A u \in Procs : u # t => tx[u].pc # "reserving"
  BY <1>1 DEF LocksMatch
<1>9. \A u \in Procs : u # t /\ (Placing(u) \/ Changing(u)) => tx[u].order # o
  BY <1>1, <1>2 DEF PlacementsSound, ChangesSound, Placing
<1>10. PlacementsSound'
  BY <1>3, <1>7, <1>8, <1>9 DEF PlacementsSound, Placing, Idle
<1>11. ChangesSound'
  BY <1>3, <1>7, <1>9 DEF ChangesSound, Changing, Idle
<1>12. RowsAccounted'
  <2>1. \A u \in Procs : u # t => Remaining(u)' = Remaining(u)
    BY <1>3 DEF Remaining
  <2>2. \A u \in Procs : u # t /\ tx[u].pc = "updating" =>
          orders'[tx[u].order] = orders[tx[u].order]
    BY <1>7, <1>9 DEF Changing, ChangesSound
  <2> QED
    BY <1>3, <2>1, <2>2 DEF RowsAccounted, Idle, Items
<1>13. DraftsCurrent'
  <2>1. \A u \in Procs : u # t => \A p \in tx[u].wrote : stock'[p] = stock[p]
    BY <1>1, CommittedElsewhere
  <2> QED
    BY <1>3, <2>1 DEF DraftsCurrent, Idle
<1> QED
  BY <1>3, <1>6, <1>10, <1>11, <1>12, <1>13

\* The order moves on, and nobody else holds its row.
LEMMA CommitChangeInv ==
  ASSUME Inv, NEW t \in Procs, CommitChange(t)
  PROVE  Inv'
<1> USE DEF Inv, TransactionsConsistent
<1> DEFINE o == tx[t].order
           row == [orders[o] EXCEPT !.status = tx[t].to,
                     !.reserved = orders[o].reserved /\ tx[t].to # "CANCELLED"]
<1>1. /\ tx[t].pc = "updating" /\ ReleaseLocks(t)
      /\ stock' = Committed(t) /\ lastNumber' = lastNumber
      /\ orders' = [orders EXCEPT ![o].status = tx[t].to,
                      ![o].reserved = @ /\ tx[t].to # "CANCELLED"]
  BY DEF CommitChange
<1>2. o \in Orders /\ orders[o].status # "absent"
  BY <1>1 DEF ChangesSound, Changing
<1>3. LocksMatch' /\ tx'[t] = Idle /\ \A u \in Procs : u # t => tx'[u] = tx[u]
  BY <1>1, ReleaseLocksMatch
<1>4. tx[t].to \in OrderStatus /\ orders[o] \in OrderRow
  BY <1>2 DEF TypeOK, Request
<1>5. row \in OrderRow /\ row.status = tx[t].to
  BY <1>4 DEF OrderRow
<1>13. orders' = [orders EXCEPT ![o] = row]
  BY <1>1, <1>2 DEF TypeOK, OrderRow
<1> HIDE DEF row
<1>6. TypeOK'
  BY <1>1, <1>2, <1>5, <1>13, ReleaseType, CommittedType DEF TypeOK
<1>7. /\ \A v \in Orders : v # o => orders'[v] = orders[v]
      /\ orders'[o].status # "absent"
  BY <1>2, <1>4, <1>5, <1>13 DEF TypeOK
<1>8. \A u \in Procs : u # t /\ (Placing(u) \/ tx[u].pc = "updating") => tx[u].order # o
  <2>1. orderLock[o] = t
    BY <1>1, <1>2 DEF LocksMatch
  <2>2. \A u \in Procs : u # t /\ tx[u].pc = "updating" => tx[u].order # o
    BY <1>2, <2>1 DEF LocksMatch
  <2> QED
    BY <1>2, <2>2 DEF PlacementsSound
<1>9. PlacementsSound'
  <2>1. \A u \in Procs : u # t /\ Placing(u) =>
          tx[u].order \in Orders /\ orders'[tx[u].order] = orders[tx[u].order]
    BY <1>7, <1>8 DEF PlacementsSound
  <2>2. lastNumber' = lastNumber
    BY <1>1
  <2> QED
    BY <1>3, <2>1, <2>2 DEF PlacementsSound, Placing, Idle
<1>10. ChangesSound'
  BY <1>3, <1>7, <1>8 DEF ChangesSound, Changing, Idle
<1>11. RowsAccounted'
  <2>1. \A u \in Procs : u # t => Remaining(u)' = Remaining(u)
    BY <1>3 DEF Remaining
  <2>2. \A u \in Procs : u # t /\ tx[u].pc = "updating" =>
          orders'[tx[u].order] = orders[tx[u].order]
    BY <1>7, <1>8 DEF Changing, ChangesSound
  <2> QED
    BY <1>3, <2>1, <2>2 DEF RowsAccounted, Idle, Items
<1>12. DraftsCurrent'
  <2>1. \A u \in Procs : u # t => \A p \in tx[u].wrote : stock'[p] = stock[p]
    BY <1>1, CommittedElsewhere
  <2> QED
    BY <1>3, <2>1 DEF DraftsCurrent, Idle
<1> QED
  BY <1>3, <1>6, <1>9, <1>10, <1>11, <1>12

\* The moderator's statement waits for the row, so it is under no draft.
LEMMA SetStockInv ==
  ASSUME Inv, NEW p \in Products, NEW n \in StockLevels, SetStock(p, n)
  PROVE  Inv'
<1> USE DEF Inv, TransactionsConsistent
<1>1. /\ stockLock[p] = NoProc /\ stock' = [stock EXCEPT ![p] = n]
      /\ UNCHANGED <<lastNumber, orders, counterLock, stockLock, orderLock, tx>>
  BY DEF SetStock, Restock, locks
<1>2. TypeOK'
  BY <1>1, BookAssumption DEF TypeOK
<1>3. LocksMatch' /\ PlacementsSound' /\ ChangesSound'
  BY <1>1 DEF LocksMatch, PlacementsSound, Placing, ChangesSound, Changing
<1>4. RowsAccounted'
  <2>1. \A u \in Procs : Remaining(u)' = Remaining(u)
    BY <1>1 DEF Remaining
  <2> QED
    BY <1>1, <2>1 DEF RowsAccounted, Items
<1>5. DraftsCurrent'
  <2>1. \A u \in Procs : \A q \in tx[u].wrote : q # p
    BY <1>1, ReservationAssumption DEF LocksMatch
  <2>2. \A u \in Procs : \A q \in tx[u].wrote : stock'[q] = stock[q]
    BY <1>1, <2>1 DEF TypeOK, Request
  <2> QED
    BY <1>1, <2>2 DEF DraftsCurrent
<1> QED
  BY <1>2, <1>3, <1>4, <1>5

\* Every step keeps the invariant.
LEMMA NextInv == Inv /\ [Next]_vars => Inv'
<1> SUFFICES ASSUME Inv, [Next]_vars PROVE Inv'
  OBVIOUS
<1>1. ASSUME NEW t \in Procs, Statement(t) PROVE Inv'
  <2>1. CASE TakeNumber(t)
    BY <2>1, TakeNumberInv
  <2>2. CASE ReserveRow(t)
    BY <2>2, ReserveRowInv
  <2>3. CASE RowShort(t)
    BY <2>3, RowShortInv
  <2>4. CASE PlaceRejected(t)
    BY <2>4, RollbackInv DEF PlaceRejected
  <2>5. CASE CommitPlace(t)
    BY <2>5, CommitPlaceInv
  <2>6. CASE ClaimOrder(t)
    BY <2>6, ClaimOrderInv
  <2>7. CASE ChangeConflict(t)
    BY <2>7, RollbackInv DEF ChangeConflict
  <2>8. CASE RestoreRow(t)
    BY <2>8, RestoreRowInv
  <2>9. CASE CommitChange(t)
    BY <2>9, CommitChangeInv
  <2> QED
    BY <1>1, <2>1, <2>2, <2>3, <2>4, <2>5, <2>6, <2>7, <2>8, <2>9 DEF Statement
<1>2. ASSUME NEW t \in Procs, DeadlockVictim(t) \/ Abort(t) PROVE Inv'
  BY <1>2, RollbackInv DEF DeadlockVictim, Abort
<1>3. ASSUME NEW t \in Procs, NEW o \in Orders, CheckStock(t, o) PROVE Inv'
  BY <1>3, CheckStockInv
<1>4. ASSUME NEW t \in Procs, NEW o \in Orders, NEW to \in OrderStatus,
             ReadStatus(t, o, to)
      PROVE  Inv'
  BY <1>4, ReadStatusInv
<1>5. ASSUME NEW p \in Products, NEW n \in StockLevels, SetStock(p, n) PROVE Inv'
  BY <1>5, SetStockInv
<1>6. CASE UNCHANGED vars
  <2> USE <1>6 DEF vars, Inv, TransactionsConsistent
  <2>1. TypeOK' /\ LocksMatch'
    BY DEF TypeOK, LocksMatch
  <2>2. PlacementsSound' /\ ChangesSound'
    BY DEF PlacementsSound, ChangesSound, Placing, Changing
  <2>3. RowsAccounted'
    BY DEF RowsAccounted, Remaining, Items
  <2>4. DraftsCurrent'
    BY DEF DraftsCurrent
  <2> QED
    BY <2>1, <2>2, <2>3, <2>4
<1> QED
  BY <1>1, <1>2, <1>3, <1>4, <1>5, <1>6 DEF Next

\* The invariant holds in every state.
THEOREM Invariance == Spec => []Inv
<1>1. Init => Inv
  BY InitInv
<1>2. Inv /\ [Next]_vars => Inv'
  BY NextInv
<1> QED
  BY <1>1, <1>2, PTL DEF Spec

\* Every variable keeps its type; stock_pallets never goes below zero, whatever
\* number of placements race for the last pallets.
THEOREM TypeCorrect == Spec => []TypeOK
<1>1. Inv => TypeOK
  BY DEF Inv
<1> QED
  BY <1>1, Invariance, PTL

\* Locks, requests and drafts agree with the committed rows at every statement.
THEOREM Consistent == Spec => []TransactionsConsistent
<1>1. Inv => TransactionsConsistent
  BY DEF Inv
<1> QED
  BY <1>1, Invariance, PTL

-----------------------------------------------------------------------------
(* The transactions implement the atomic book                              *)

\* A committed placement takes all of its pallets, of every product at once.
LEMMA CommitPlaceReserves ==
  ASSUME Inv, NEW t \in Procs, CommitPlace(t)
  PROVE  tx[t].order \in Orders /\ Reserve(tx[t].order)
<1> USE DEF Inv, TransactionsConsistent
<1> DEFINE o == tx[t].order
<1>1. /\ tx[t].pc = "reserving" /\ tx[t].at = NoProduct /\ ~tx[t].lost
      /\ stock' = Committed(t) /\ lastNumber' = tx[t].number
      /\ orders' = [orders EXCEPT ![o] =
           [status |-> "NEW", reserved |-> TRUE, number |-> tx[t].number]]
  BY DEF CommitPlace
<1>2. o \in Orders /\ orders[o].status = "absent" /\ tx[t].number = lastNumber + 1
  BY <1>1 DEF PlacementsSound, Placing
<1>3. tx[t].wrote = Items(o)
  <2>1. Remaining(t) = {}
    BY <1>1 DEF RowsAccounted, Remaining
  <2> QED
    BY <1>1, <2>1 DEF RowsAccounted
<1>4. ASSUME NEW p \in Products
      PROVE  /\ stock[p] >= Basket[o][p]
             /\ Committed(t)[p] = stock[p] - Basket[o][p]
  <2>1. Basket[o][p] \in Nat /\ stock[p] \in Nat
    BY <1>2, BasketType
  <2>2. CASE p \in tx[t].wrote
    <3>1. stock[p] >= Basket[o][p] /\ tx[t].draft[p] = stock[p] - Basket[o][p]
      BY <1>1, <2>2 DEF DraftsCurrent
    <3> QED
      BY <2>2, <3>1 DEF Committed
  <2>3. CASE p \notin tx[t].wrote
    <3>1. Basket[o][p] = 0
      BY <1>3, <2>1, <2>3 DEF Items
    <3> QED
      BY <2>1, <2>3, <3>1 DEF Committed
  <2> QED
    BY <2>2, <2>3
<1>5. stock' = [p \in Products |-> stock[p] - Basket[o][p]]
  BY <1>1, <1>4 DEF Committed
<1> QED
  BY <1>1, <1>2, <1>4, <1>5 DEF Reserve

\* The steps of the book that orders take.
OrderStep ==
  \E o \in Orders : \/ Reserve(o) \/ Release(o)
                    \/ \E to \in OrderStatus : Advance(o, to)

\* A committed change is one step of the order: a cancellation gives back what
\* the order holds, any other change no stock.
LEMMA CommitChangeAdvances ==
  ASSUME Inv, NEW t \in Procs, CommitChange(t)
  PROVE  OrderStep
<1> USE DEF Inv, TransactionsConsistent
<1> DEFINE o == tx[t].order
           to == tx[t].to
           back == to = "CANCELLED" /\ orders[o].reserved
<1>1. /\ tx[t].pc = "updating" /\ tx[t].at = NoProduct
      /\ stock' = Committed(t) /\ lastNumber' = lastNumber
      /\ orders' = [orders EXCEPT ![o].status = to,
                                  ![o].reserved = @ /\ to # "CANCELLED"]
  BY DEF CommitChange
<1>2. /\ o \in Orders /\ orders[o].status # "absent"
      /\ canTransition(orders[o].status, to, HasDelivery[o])
  BY <1>1 DEF ChangesSound, Changing
<1>3. to \in OrderStatus /\ orders[o] \in OrderRow
  BY <1>2 DEF TypeOK, Request
<1>4. tx[t].wrote = IF back THEN Items(o) ELSE {}
  <2>1. Remaining(t) = {}
    BY <1>1 DEF RowsAccounted, Remaining
  <2> QED
    BY <1>1, <2>1 DEF RowsAccounted
<1>5. ASSUME NEW p \in Products
      PROVE  Committed(t)[p] = IF back THEN stock[p] + Basket[o][p] ELSE stock[p]
  <2>1. Basket[o][p] \in Nat /\ stock[p] \in Nat
    BY <1>2, BasketType
  <2>2. CASE p \in tx[t].wrote
    <3>1. tx[t].draft[p] = stock[p] + Basket[o][p]
      BY <1>1, <2>2 DEF DraftsCurrent
    <3> QED
      BY <1>4, <2>2, <3>1 DEF Committed
  <2>3. CASE p \notin tx[t].wrote
    <3>1. back => Basket[o][p] = 0
      BY <1>4, <2>1, <2>3 DEF Items
    <3> QED
      BY <2>1, <2>3, <3>1 DEF Committed
  <2> QED
    BY <2>2, <2>3
<1>6. stock' = [p \in Products |-> IF back THEN stock[p] + Basket[o][p] ELSE stock[p]]
  BY <1>1, <1>5 DEF Committed
<1>7. CASE to = "CANCELLED"
  <2>1. orders' = [orders EXCEPT ![o].status = "CANCELLED", ![o].reserved = FALSE]
    BY <1>1, <1>2, <1>3, <1>7 DEF TypeOK, OrderRow
  <2>2. Release(o)
    BY <1>1, <1>2, <1>6, <1>7, <2>1 DEF Release
  <2> QED
    BY <1>2, <2>2 DEF OrderStep
<1>8. CASE to # "CANCELLED"
  <2>1. orders' = [orders EXCEPT ![o].status = to]
    BY <1>1, <1>2, <1>3, <1>8 DEF TypeOK, OrderRow
  <2>2. stock' = stock
    BY <1>6, <1>8 DEF TypeOK
  <2>3. Advance(o, to)
    BY <1>1, <1>2, <1>8, <2>1, <2>2 DEF Advance
  <2> QED
    BY <1>2, <1>3, <2>3 DEF OrderStep
<1> QED
  BY <1>7, <1>8

\* Every step of a request is a step of its order, or changes nothing in the book; the rest
\* are the moderator's entries.
LEMMA NextOnBook ==
  ASSUME Inv, [Next]_vars
  PROVE  \/ OrderStep \/ UNCHANGED bookVars
         \/ \E p \in Products, n \in StockLevels : SetStock(p, n)
<1>1. ASSUME NEW t \in Procs, Statement(t) PROVE OrderStep \/ UNCHANGED bookVars
  <2>1. CASE CommitPlace(t)
    BY <2>1, CommitPlaceReserves DEF OrderStep
  <2>2. CASE CommitChange(t)
    BY <2>2, CommitChangeAdvances
  <2>3. CASE TakeNumber(t) \/ ClaimOrder(t)
    BY <2>3 DEF TakeNumber, ClaimOrder
  <2>4. CASE ReserveRow(t) \/ RestoreRow(t) \/ RowShort(t)
    BY <2>4 DEF ReserveRow, RestoreRow, RowShort, WriteRow, bookVars
  <2>5. CASE PlaceRejected(t) \/ ChangeConflict(t)
    BY <2>5 DEF PlaceRejected, ChangeConflict, Rollback
  <2> QED
    BY <1>1, <2>1, <2>2, <2>3, <2>4, <2>5 DEF Statement
<1>2. ASSUME NEW t \in Procs, DeadlockVictim(t) \/ Abort(t)
      PROVE  UNCHANGED bookVars
  BY <1>2 DEF DeadlockVictim, Abort, Rollback
<1>3. ASSUME NEW t \in Procs, NEW o \in Orders, NEW to \in OrderStatus, ReadStatus(t, o, to)
      PROVE  UNCHANGED bookVars
  BY <1>3 DEF ReadStatus
<1>4. ASSUME NEW t \in Procs, NEW o \in Orders, CheckStock(t, o)
      PROVE  UNCHANGED bookVars
  BY <1>4 DEF CheckStock
<1>5. CASE UNCHANGED vars
  BY <1>5 DEF vars, bookVars
<1> QED
  BY <1>1, <1>2, <1>3, <1>4, <1>5 DEF Next

LEMMA NextImplements ==
  ASSUME Inv, [Next]_vars
  PROVE  [BookNext]_bookVars
BY NextOnBook DEF OrderStep, SetStock, BookNext

\* Row by row, with locks, drafts, roll-backs and deadlocks, place and change
\* do to the warehouse what the atomic book does.
THEOREM Implementation == Spec => ImplementsStockBook
<1>1. Init => BookInit
  BY DEF Init
<1>2. Inv /\ [Next]_vars => [BookNext]_bookVars
  BY NextImplements
<1> QED
  BY <1>1, <1>2, Invariance, PTL DEF Spec, BookSpec, ImplementsStockBook

-----------------------------------------------------------------------------
(* Deadlocks                                                               *)

\* A request that is blocked waits for the row its next statement needs, and a
\* member of a ring is blocked by a member of it.
LEMMA RingStep ==
  ASSUME NEW S \in SUBSET Procs, IsDeadlock(S), NEW t \in S
  PROVE  /\ WaitsFor(t) \in S
         /\ tx[t].pc # "idle"
         /\ tx[t].pc = "placing" => counterLock \in S
         /\ tx[t].pc = "changing" => orderLock[tx[t].order] \in S
         /\ tx[t].pc = "reserving" => tx[t].at # NoProduct /\ stockLock[tx[t].at] \in S
         /\ tx[t].pc = "updating" => tx[t].at # NoProduct
<1>1. WaitsFor(t) \in S
  BY DEF IsDeadlock
<1>2. WaitsFor(t) # NoProc
  BY <1>1, ReservationAssumption
<1>3. CASE tx[t].pc = "placing"
  BY <1>1, <1>3 DEF WaitsFor
<1>4. CASE tx[t].pc = "changing"
  BY <1>1, <1>2, <1>4 DEF WaitsFor
<1>5. CASE tx[t].pc = "reserving"
  BY <1>1, <1>2, <1>5 DEF WaitsFor
<1>6. CASE tx[t].pc = "updating"
  BY <1>1, <1>2, <1>6 DEF WaitsFor
<1>7. CASE tx[t].pc \notin {"placing", "changing", "reserving", "updating"}
  BY <1>2, <1>7 DEF WaitsFor
<1> QED
  BY <1>1, <1>3, <1>4, <1>5, <1>6, <1>7

\* A ring without a cancellation has nobody in it that holds a row.
LEMMA NoRing == Inv => PlacementsNeverDeadlock
<1> SUFFICES ASSUME Inv, NEW S \in SUBSET Procs, IsDeadlock(S),
                    \A t \in S : tx[t].to # "CANCELLED"
             PROVE  FALSE
  BY DEF PlacementsNeverDeadlock
<1> USE DEF Inv, TransactionsConsistent
<1>1. \A t \in S : tx[t].pc # "updating"
  <2> SUFFICES ASSUME NEW t \in S, tx[t].pc = "updating" PROVE FALSE
    OBVIOUS
  <2>1. tx[t].wrote \cup Remaining(t) = {}
    BY DEF RowsAccounted
  <2>2. tx[t].at = NoProduct
    BY <2>1 DEF Remaining
  <2> QED
    BY <2>2, RingStep
<1>2. \A t \in S : tx[t].pc # "changing"
  <2> SUFFICES ASSUME NEW t \in S, tx[t].pc = "changing" PROVE FALSE
    OBVIOUS
  <2>1. tx[t].order \in Orders /\ orderLock[tx[t].order] \in S
    BY RingStep DEF ChangesSound, Changing
  <2>2. tx[orderLock[tx[t].order]].pc = "updating"
    BY <2>1 DEF LocksMatch
  <2> QED
    BY <1>1, <2>1, <2>2
<1>3. \A t \in S : tx[t].pc # "reserving"
  <2> SUFFICES ASSUME NEW t \in S, tx[t].pc = "reserving" PROVE FALSE
    OBVIOUS
  <2> DEFINE p == tx[t].at
             u == stockLock[p]
  <2>1. p \in Products /\ u \in S
    BY RingStep DEF TypeOK, Request
  <2>2. p \in tx[u].wrote
    BY <2>1 DEF LocksMatch
  <2>3. tx[u].pc = "reserving"
    BY <1>1, <2>1, <2>2 DEF RowsAccounted, TypeOK, Request, Phases
  <2>4. u = t
    BY <2>1, <2>3 DEF LocksMatch
  <2> QED
    BY <2>2, <2>4 DEF RowsAccounted
<1>4. \A t \in S : tx[t].pc # "placing"
  BY <1>3, RingStep DEF LocksMatch
<1>5. PICK t \in S : TRUE
  BY DEF IsDeadlock
<1>6. tx[t].pc \in Phases
  BY DEF TypeOK, Request
<1> QED
  BY <1>1, <1>2, <1>3, <1>4, <1>6, RingStep DEF Phases

\* However many placements run, and in whatever order they list their products,
\* a ring of waiting transactions has a cancellation in it.
THEOREM DeadlockFree == Spec => []PlacementsNeverDeadlock
  BY Invariance, NoRing, PTL

-----------------------------------------------------------------------------
(* Order numbers, proved of the atomic book                                *)

Placed == {o \in Orders : orders[o].number > 0}

\* An order that does not exist has no number, which is what lets the next
\* placement of it take one.
NumbersInv ==
  /\ NumbersContiguous
  /\ IsFiniteSet(Placed)
  /\ lastNumber \in Nat
  /\ orders \in [Orders -> OrderRow]
  /\ \A o \in Orders : orders[o].status = "absent" => orders[o].number = 0

\* Nothing is numbered at the start: old orders' numbers are not tracked.
LEMMA NumbersStart == BookInit => NumbersInv
<1> SUFFICES ASSUME BookInit PROVE NumbersInv
  OBVIOUS
<1>1. lastNumber = 0 /\ \A o \in Orders : orders[o].number = 0
  BY DEF BookInit
<1>2. Placed = {}
  BY <1>1 DEF Placed
<1>3. IsFiniteSet(Placed) /\ Cardinality(Placed) = 0
  BY <1>2, FS_EmptySet
<1>4. {orders[o].number : o \in Placed} = 1 .. lastNumber
  BY <1>1, <1>2
<1>5. NumbersContiguous
  BY <1>1, <1>3, <1>4 DEF NumbersContiguous, Placed
<1>6. orders \in [Orders -> OrderRow]
  BY DEF BookInit, OrderRow
<1> QED
  BY <1>1, <1>3, <1>5, <1>6 DEF NumbersInv

\* Nothing that keeps the counter, the numbers and which orders exist disturbs
\* the numbering.
LEMMA NumbersKept ==
  ASSUME NumbersInv, lastNumber' = lastNumber, orders' \in [Orders -> OrderRow],
         \A o \in Orders : /\ orders'[o].number = orders[o].number
                           /\ orders'[o].status = "absent" => orders[o].status = "absent"
  PROVE  NumbersInv'
<1>1. Placed' = Placed
  BY DEF Placed
<1>2. {orders'[o].number : o \in Placed} = {orders[o].number : o \in Placed}
  BY DEF Placed
<1>3. NumbersContiguous'
  BY <1>1, <1>2 DEF NumbersInv, NumbersContiguous, Placed
<1> QED
  BY <1>1, <1>3 DEF NumbersInv

\* A new order takes the number after the last.
LEMMA NumbersTaken ==
  ASSUME NumbersInv, NEW o \in Orders, Reserve(o)
  PROVE  NumbersInv'
<1> DEFINE n == lastNumber + 1
           row == [status |-> "NEW", reserved |-> TRUE, number |-> n]
<1>1. /\ orders[o].status = "absent" /\ lastNumber' = n
      /\ orders' = [orders EXCEPT ![o] = row]
  BY DEF Reserve
<1>2. n \in Nat /\ n > 0 /\ row \in OrderRow
  BY DEF NumbersInv, OrderRow
<1>3. /\ orders' \in [Orders -> OrderRow] /\ orders'[o] = row
      /\ \A v \in Orders : v # o => orders'[v] = orders[v]
  BY <1>1, <1>2 DEF NumbersInv
<1>4. o \notin Placed /\ Placed' = Placed \cup {o}
  BY <1>1, <1>2, <1>3 DEF Placed, NumbersInv
<1>5. /\ IsFiniteSet(Placed') /\ Cardinality(Placed') = Cardinality(Placed) + 1
  BY <1>4, FS_AddElement DEF NumbersInv
<1>6. {orders'[v].number : v \in Placed'} = {orders[v].number : v \in Placed} \cup {n}
  BY <1>3, <1>4 DEF Placed
<1>7. {orders[v].number : v \in Placed} = 1 .. lastNumber /\ Cardinality(Placed) = lastNumber
  BY DEF NumbersInv, NumbersContiguous, Placed
<1>8. (1 .. lastNumber) \cup {n} = 1 .. n
  BY DEF NumbersInv
<1>9. NumbersContiguous'
  BY <1>1, <1>5, <1>6, <1>7, <1>8 DEF NumbersContiguous, Placed
<1>10. \A v \in Orders : orders'[v].status = "absent" => orders'[v].number = 0
  BY <1>3 DEF NumbersInv
<1> QED
  BY <1>1, <1>2, <1>3, <1>5, <1>9, <1>10 DEF NumbersInv

\* The book keeps its numbers without gap or duplicate.
LEMMA BookNumbers == BookSpec => []NumbersContiguous
<1>1. NumbersInv /\ [BookNext]_bookVars => NumbersInv'
  <2> SUFFICES ASSUME NumbersInv, [BookNext]_bookVars PROVE NumbersInv'
    OBVIOUS
  <2>1. ASSUME NEW o \in Orders, Release(o) PROVE NumbersInv'
    <3>1. /\ lastNumber' = lastNumber /\ orders[o].status # "absent"
          /\ orders' = [orders EXCEPT ![o].status = "CANCELLED", ![o].reserved = FALSE]
      BY <2>1 DEF Release
    <3> QED
      BY <3>1, NumbersKept DEF NumbersInv, OrderRow
  <2>2. ASSUME NEW o \in Orders, NEW to \in OrderStatus, Advance(o, to)
        PROVE  NumbersInv'
    <3>1. /\ lastNumber' = lastNumber /\ orders[o].status # "absent"
          /\ orders' = [orders EXCEPT ![o].status = to]
      BY <2>2 DEF Advance
    <3> QED
      BY <3>1, NumbersKept DEF NumbersInv, OrderRow
  <2>3. ASSUME NEW p \in Products, NEW n \in StockLevels, Restock(p, n)
        PROVE  NumbersInv'
    BY <2>3, NumbersKept DEF Restock, NumbersInv
  <2>4. CASE UNCHANGED bookVars
    BY <2>4, NumbersKept DEF bookVars, NumbersInv
  <2> QED
    BY <2>1, <2>2, <2>3, <2>4, NumbersTaken DEF BookNext
<1>2. NumbersInv => NumbersContiguous
  BY DEF NumbersInv
<1> QED
  BY <1>1, <1>2, NumbersStart, PTL DEF BookSpec

\* Order numbers have no gap and no duplicate, because the book's have none and
\* the transactions implement the book.
THEOREM Numbered == Spec => []NumbersContiguous
  BY Implementation, BookNumbers, PTL DEF ImplementsStockBook

-----------------------------------------------------------------------------
(* The sum of pallets, proved of the atomic book                           *)

\* An order nobody has placed holds nothing, and what is held can be counted.
HoldingInv ==
  /\ orders \in [Orders -> OrderRow]
  /\ \A o \in Orders : orders[o].status = "absent" => ~orders[o].reserved
  /\ \A p \in Products : IsFiniteSet(HeldPallets(p))

\* Every order has as many pallets as its basket says, and no two share one.
LEMMA PalletsOfOrders ==
  ASSUME NEW o \in Orders, NEW p \in Products
  PROVE  /\ IsFiniteSet(Pallets(o, p)) /\ Cardinality(Pallets(o, p)) = Basket[o][p]
         /\ Basket[o][p] \in Nat
         /\ \A v \in Orders : v # o => Pallets(o, p) \cap Pallets(v, p) = {}
<1>1. Basket[o][p] \in Nat
  BY BookAssumption
<1>2. /\ IsFiniteSet(1 .. Basket[o][p]) /\ Cardinality(1 .. Basket[o][p]) = Basket[o][p]
  <2>1. PICK n \in Nat : n = Basket[o][p]
    BY <1>1
  <2>2. /\ IsFiniteSet(1 .. n) /\ Cardinality(1 .. n) = IF 1 > n THEN 0 ELSE n - 1 + 1
    BY FS_Interval
  <2>3. QED
    BY <2>1, <2>2
<1>3. IsFiniteSet({o}) /\ Cardinality({o}) = 1
  BY FS_Singleton
<1>4. /\ IsFiniteSet(Pallets(o, p))
      /\ Cardinality(Pallets(o, p)) = 1 * Basket[o][p]
  <2>1. PICK A, B : A = {o} /\ B = 1 .. Basket[o][p]
    OBVIOUS
  <2>2. IsFiniteSet(A \X B) /\ Cardinality(A \X B) = Cardinality(A) * Cardinality(B)
    BY <1>2, <1>3, <2>1, FS_Product
  <2>3. Pallets(o, p) = A \X B
    BY <2>1 DEF Pallets
  <2>4. QED
    BY <1>2, <1>3, <2>1, <2>2, <2>3
<1>5. \A v \in Orders : v # o => Pallets(o, p) \cap Pallets(v, p) = {}
  <2>1. \A v \in Orders : \A x \in Pallets(v, p) : x[1] = v
    BY DEF Pallets
  <2>2. QED
    BY <2>1
<1>6. QED
  BY <1>1, <1>4, <1>5

\* When one order more holds its pallets, they are added to those held.
LEMMA HeldMore ==
  ASSUME NEW p \in Products, NEW o \in Orders, NEW S \in SUBSET Orders, o \notin S,
         NEW H, H = UNION {Pallets(u, p) : u \in S}, IsFiniteSet(H)
  PROVE  LET more == UNION {Pallets(u, p) : u \in S \cup {o}} IN
         IsFiniteSet(more) /\ Cardinality(more) = Cardinality(H) + Basket[o][p]
<1> DEFINE more == UNION {Pallets(u, p) : u \in S \cup {o}}
<1>1. more = H \cup Pallets(o, p)
  OBVIOUS
<1>2. H \cap Pallets(o, p) = {}
  BY PalletsOfOrders
<1>3. IsFiniteSet(more)
      /\ Cardinality(more) = Cardinality(H) + Cardinality(Pallets(o, p)) - Cardinality({})
  <2>1. IsFiniteSet(Pallets(o, p))
    BY PalletsOfOrders
  <2>2. PICK T : T = Pallets(o, p)
    OBVIOUS
  <2>3. /\ IsFiniteSet(H \cup T)
        /\ Cardinality(H \cup T) = Cardinality(H) + Cardinality(T) - Cardinality(H \cap T)
    BY <2>1, <2>2, FS_Union
  <2> HIDE DEF more
  <2>4. QED
    BY <1>1, <1>2, <2>2, <2>3
<1>4. Cardinality(H) \in Nat /\ Cardinality({}) = 0
  BY FS_CardinalityType, FS_EmptySet
<1>5. QED
  BY <1>3, <1>4, PalletsOfOrders

\* What holds while no order takes or gives back pallets.
LEMMA HeldKept ==
  ASSUME HoldingInv, orders' \in [Orders -> OrderRow],
         \A u \in Orders : /\ orders'[u].reserved <=> orders[u].reserved
                           /\ orders'[u].status = "absent" => orders[u].status = "absent"
  PROVE  HoldingInv' /\ \A p \in Products : Held(p)' = Held(p)
<1>1. {u \in Orders : orders'[u].reserved} = {u \in Orders : orders[u].reserved}
  OBVIOUS
<1>2. \A p \in Products : HeldPallets(p)' = HeldPallets(p)
  BY <1>1 DEF HeldPallets
<1>3. QED
  BY <1>2 DEF HoldingInv, Held

\* An order's step keeps the sum of every product.
LEMMA OrdersConserve ==
  ASSUME HoldingInv, stock \in [Products -> Nat], lastNumber \in Nat, OrderStep
  PROVE  HoldingInv' /\ \A p \in Products : stock'[p] + Held(p)' = stock[p] + Held(p)
<1> DEFINE holders == {u \in Orders : orders[u].reserved}
<1>1. \A p \in Products : Held(p) \in Nat
  BY FS_CardinalityType DEF HoldingInv, Held
<1>3. ASSUME NEW o \in Orders, Reserve(o)
      PROVE  HoldingInv' /\ \A p \in Products : stock'[p] + Held(p)' = stock[p] + Held(p)
  <2>1. ~orders[o].reserved /\ orders[o].status = "absent"
    BY <1>3 DEF Reserve, HoldingInv
  <2>2. PICK row : row = [status |-> "NEW", reserved |-> TRUE, number |-> lastNumber + 1]
    OBVIOUS
  <2>3. /\ orders' = [orders EXCEPT ![o] = row] /\ row.reserved /\ row.status # "absent"
        /\ \A p \in Products : stock[p] >= Basket[o][p]
        /\ stock' = [p \in Products |-> stock[p] - Basket[o][p]]
    BY <1>3, <2>2 DEF Reserve
  <2>4. /\ \A u \in Orders : orders'[u] = IF u = o THEN row ELSE orders[u]
    BY <2>3 DEF HoldingInv
  <2>5. {u \in Orders : orders'[u].reserved} = holders \cup {o} /\ o \notin holders
    BY <2>1, <2>3, <2>4
  <2>6. ASSUME NEW p \in Products
        PROVE  /\ IsFiniteSet(HeldPallets(p)')
               /\ Held(p)' = Held(p) + Basket[o][p]
    <3>1. HeldPallets(p) = UNION {Pallets(u, p) : u \in holders}
      BY DEF HeldPallets
    <3>2. HeldPallets(p)' = UNION {Pallets(u, p) : u \in holders \cup {o}}
      BY <2>5 DEF HeldPallets
    <3>3. holders \in SUBSET Orders /\ IsFiniteSet(HeldPallets(p))
      BY DEF HoldingInv
    <3> HIDE DEF holders
    <3>4. QED
      BY <2>5, <3>1, <3>2, <3>3, HeldMore DEF Held
  <2>7. \A p \in Products : stock'[p] + Held(p)' = stock[p] + Held(p)
    BY <1>1, <2>3, <2>6, PalletsOfOrders
  <2>8. orders' \in [Orders -> OrderRow]
    <3>1. row \in OrderRow
      BY <2>2 DEF OrderRow
    <3>2. QED
      BY <2>3, <3>1 DEF HoldingInv
  <2>9. QED
    BY <2>3, <2>4, <2>6, <2>7, <2>8 DEF HoldingInv
<1>4. ASSUME NEW o \in Orders, Release(o)
      PROVE  HoldingInv' /\ \A p \in Products : stock'[p] + Held(p)' = stock[p] + Held(p)
  <2>1. PICK old \in OrderRow : old = orders[o] /\ old.status # "absent"
    BY <1>4 DEF Release, HoldingInv
  <2>2. PICK row : row = [old EXCEPT !.status = "CANCELLED", !.reserved = FALSE]
    OBVIOUS
  <2>3. /\ row \in OrderRow /\ ~row.reserved /\ row.status # "absent"
        /\ orders' = [orders EXCEPT ![o] = row]
        /\ stock' = [p \in Products |-> IF old.reserved THEN stock[p] + Basket[o][p]
                                        ELSE stock[p]]
    <3>1. row \in OrderRow /\ row.reserved = FALSE /\ row.status = "CANCELLED"
      BY <2>2 DEF OrderRow
    <3>2. orders' = [orders EXCEPT ![o] = [old EXCEPT !.status = "CANCELLED",
                                                      !.reserved = FALSE]]
      BY <1>4, <2>1 DEF Release, HoldingInv
    <3>3. QED
      BY <1>4, <2>1, <2>2, <3>1, <3>2 DEF Release
  <2>4. /\ orders' \in [Orders -> OrderRow]
        /\ \A u \in Orders : orders'[u] = IF u = o THEN row ELSE orders[u]
    BY <2>3 DEF HoldingInv
  <2>5. \A u \in Orders : orders'[u].status = "absent" => ~orders'[u].reserved
    BY <2>3, <2>4 DEF HoldingInv
  <2>6. CASE ~old.reserved
    <3>1. \A u \in Orders : /\ orders'[u].reserved <=> orders[u].reserved
                            /\ orders'[u].status = "absent" => orders[u].status = "absent"
      BY <2>1, <2>3, <2>4, <2>6
    <3>2. \A p \in Products : stock'[p] = stock[p]
      BY <2>3, <2>6
    <3>3. QED
      BY HeldKept, <2>4, <3>1, <3>2
  <2>7. CASE old.reserved
    <3> DEFINE others == {u \in Orders : orders'[u].reserved}
    <3>1. holders = others \cup {o} /\ o \notin others /\ others \in SUBSET Orders
      BY <2>1, <2>3, <2>4, <2>7
    <3>2. ASSUME NEW p \in Products
          PROVE  IsFiniteSet(HeldPallets(p)') /\ Held(p) = Held(p)' + Basket[o][p]
      <4>1. HeldPallets(p)' = UNION {Pallets(u, p) : u \in others}
        BY DEF HeldPallets
      <4>2. HeldPallets(p) = UNION {Pallets(u, p) : u \in others \cup {o}}
        BY <3>1 DEF HeldPallets
      <4>3. HeldPallets(p)' \in SUBSET HeldPallets(p) /\ IsFiniteSet(HeldPallets(p))
        BY <4>1, <4>2 DEF HoldingInv
      <4>4. IsFiniteSet(HeldPallets(p)')
        BY <4>3, FS_Subset
      <4> HIDE DEF others
      <4>5. QED
        BY <3>1, <4>1, <4>2, <4>4, HeldMore DEF Held
    <3>3. \A p \in Products : Held(p)' \in Nat
      BY <3>2, FS_CardinalityType DEF Held
    <3>4. \A p \in Products : stock'[p] = stock[p] + Basket[o][p]
      BY <2>3, <2>7
    <3>5. \A p \in Products : stock'[p] + Held(p)' = stock[p] + Held(p)
      BY <3>2, <3>3, <3>4, PalletsOfOrders
    <3>6. QED
      BY <2>4, <2>5, <3>2, <3>5 DEF HoldingInv
  <2>8. QED
    BY <2>6, <2>7
<1>5. ASSUME NEW o \in Orders, NEW to \in OrderStatus, Advance(o, to)
      PROVE  HoldingInv' /\ \A p \in Products : stock'[p] + Held(p)' = stock[p] + Held(p)
  <2>1. PICK old \in OrderRow : old = orders[o] /\ old.status # "absent"
    BY <1>5 DEF Advance, HoldingInv
  <2>2. PICK row : row = [old EXCEPT !.status = to]
    OBVIOUS
  <2>3. row \in OrderRow /\ row.reserved = old.reserved
    BY <2>2 DEF OrderRow
  <2>4. orders' = [orders EXCEPT ![o] = row] /\ stock' = stock
    BY <1>5, <2>1, <2>2 DEF Advance, HoldingInv
  <2>5. /\ orders' \in [Orders -> OrderRow]
        /\ \A u \in Orders : /\ orders'[u].reserved <=> orders[u].reserved
                             /\ orders'[u].status = "absent" => orders[u].status = "absent"
    <3>1. /\ orders' \in [Orders -> OrderRow]
          /\ \A u \in Orders : orders'[u] = IF u = o THEN row ELSE orders[u]
      BY <2>3, <2>4 DEF HoldingInv
    <3>2. row.status = "absent" => to = "absent"
      BY <2>2 DEF OrderRow
    <3>3. QED
      BY <2>1, <2>3, <3>1, <3>2
  <2>6. QED
    BY HeldKept, <2>4, <2>5
<1>6. QED
  BY <1>3, <1>4, <1>5 DEF OrderStep

\* Pallets are neither made nor lost, for any products, baskets, requests and orders: stock
\* plus what the orders hold changes only by a moderator's entry (product-stocks.service.ts).
THEOREM Conserved == Spec => PalletsConserved
<1>1. Init => HoldingInv
  <2> SUFFICES ASSUME Init PROVE HoldingInv
    OBVIOUS
  <2>1. \A o \in Orders : orders[o].reserved = FALSE /\ orders[o] \in OrderRow
    BY DEF Init, BookInit, OrderRow
  <2>2. \A p \in Products : HeldPallets(p) = {}
    BY <2>1 DEF HeldPallets
  <2>3. QED
    BY <2>1, <2>2, FS_EmptySet DEF HoldingInv, Init, BookInit
<1>2. ASSUME Inv, HoldingInv, [Next]_vars
      PROVE  /\ HoldingInv'
             /\ \A p \in Products :
                  \/ stock'[p] + Held(p)' = stock[p] + Held(p)
                  \/ \E n \in StockLevels : SetStock(p, n)
  <2>1. CASE OrderStep
    BY <1>2, <2>1, OrdersConserve DEF Inv, TypeOK
  <2>2. ASSUME orders' = orders
        PROVE  HoldingInv' /\ \A p \in Products : Held(p)' = Held(p)
    BY <1>2, <2>2, HeldKept DEF HoldingInv
  <2>3. CASE UNCHANGED bookVars
    BY <2>2, <2>3 DEF bookVars
  <2>4. ASSUME NEW q \in Products, NEW n \in StockLevels, SetStock(q, n)
        PROVE  /\ HoldingInv'
               /\ \A p \in Products :
                    \/ stock'[p] + Held(p)' = stock[p] + Held(p)
                    \/ \E m \in StockLevels : SetStock(p, m)
    <3>1. orders' = orders /\ stock' = [stock EXCEPT ![q] = n]
      BY <2>4 DEF SetStock, Restock
    <3>2. \A p \in Products : p # q => stock'[p] = stock[p]
      BY <3>1
    <3>3. QED
      <4>1. \A p \in Products : p = q => \E m \in StockLevels : SetStock(p, m)
        BY <2>4
      <4>2. QED
        BY <2>2, <3>1, <3>2, <4>1
  <2>5. QED
    BY <1>2, <2>1, <2>3, <2>4, NextOnBook
<1>3. QED
  BY <1>1, <1>2, Invariance, PTL DEF Spec, PalletsConserved

=============================================================================
