-------------------------- MODULE StockReservation --------------------------
(***************************************************************************)
(* Placing, cancelling and moving orders as the API runs them: a check      *)
(* outside the transaction, then a READ COMMITTED transaction whose UPDATEs *)
(* lock one row each and hold the lock until the end.                       *)
(*                                                                          *)
(*   orders.service.ts        place: stock check, counter upsert, one       *)
(*                            conditional decrement per product, insert     *)
(*   order-status.service.ts  change: status check, optimistic UPDATE, on   *)
(*                            CANCELLED one increment per product           *)
(*   product-stocks.service.ts upsert: a single statement                   *)
(*                                                                          *)
(* stock, lastNumber and orders (of StockBook) are the committed rows; what *)
(* an open transaction has written is in its draft.                         *)
(***************************************************************************)
EXTENDS StockBook, FiniteSets

CONSTANTS
  Procs,      \* concurrent requests
  NoProc,     \* no holder
  NoProduct,  \* no current product
  NoOrder     \* no order in hand

ASSUME ReservationAssumption ==
  /\ NoProc \notin Procs
  /\ NoProduct \notin Products
  /\ NoOrder \notin Orders

VARIABLES
  counterLock,  \* holder of the order_number_counters row
  stockLock,    \* stockLock[p]: holder of the product_stocks row
  orderLock,    \* orderLock[o]: holder of the orders row
  tx            \* tx[t]: where request t is

locks == <<counterLock, stockLock, orderLock>>
vars == <<stock, lastNumber, orders, counterLock, stockLock, orderLock, tx>>

-----------------------------------------------------------------------------
(* Requests                                                                *)

\* "placing", "changing": checked, transaction not yet writing;
\* "reserving", "updating": inside the transaction, rows locked.
Phases == {"idle", "placing", "reserving", "changing", "updating"}

Request == [pc : Phases,
            order : Orders \cup {NoOrder},
            from : OrderStatus \cup {"absent"},  \* status read before the transaction
            to : OrderStatus,
            at : Products \cup {NoProduct},      \* row the next statement updates
            todo : SUBSET Products,              \* rows after that one
            wrote : SUBSET Products,             \* rows updated and locked
            draft : [Products -> Nat],           \* their uncommitted values
            lost : BOOLEAN,                      \* some conditional update matched no row
            number : Nat]                        \* uncommitted counter value

Idle == [pc |-> "idle", order |-> NoOrder, from |-> "absent", to |-> "NEW",
         at |-> NoProduct, todo |-> {}, wrote |-> {},
         draft |-> [p \in Products |-> 0], lost |-> FALSE, number |-> 0]

Items(o) == {p \in Products : Basket[o][p] > 0}

\* The products one may turn to next: any of S (a request lists its items, and
\* GROUP BY returns its rows, in any order), or none when S is exhausted.
NextRow(S) == IF S = {} THEN {NoProduct} ELSE S

Init ==
  /\ BookInit
  /\ counterLock = NoProc
  /\ stockLock = [p \in Products |-> NoProc]
  /\ orderLock = [o \in Orders |-> NoProc]
  /\ tx = [t \in Procs |-> Idle]

ReleaseLocks(t) ==
  /\ counterLock' = IF counterLock = t THEN NoProc ELSE counterLock
  /\ stockLock' = [p \in Products |-> IF stockLock[p] = t THEN NoProc ELSE stockLock[p]]
  /\ orderLock' = [o \in Orders |-> IF orderLock[o] = t THEN NoProc ELSE orderLock[o]]
  /\ tx' = [tx EXCEPT ![t] = Idle]

Rollback(t) ==
  /\ ReleaseLocks(t)
  /\ UNCHANGED bookVars

\* The current statement is done with its row and the loop turns to another.
StepTo(t, r) ==
  \E q \in NextRow(tx[t].todo) :
    tx' = [tx EXCEPT ![t] = [r EXCEPT !.at = q, !.todo = tx[t].todo \ {q}]]

\* An UPDATE of the current row to value n: needs the row's lock and keeps it.
WriteRow(t, n) ==
  LET p == tx[t].at IN
  /\ stockLock[p] = NoProc
  /\ stockLock' = [stockLock EXCEPT ![p] = t]
  /\ StepTo(t, [tx[t] EXCEPT !.wrote = @ \cup {p}, !.draft[p] = n])
  /\ UNCHANGED <<stock, lastNumber, orders, counterLock, orderLock>>

\* The stock rows once t's updates are committed.
Committed(t) ==
  [p \in Products |-> IF p \in tx[t].wrote THEN tx[t].draft[p] ELSE stock[p]]

-----------------------------------------------------------------------------
(* Placing an order                                                        *)

\* The stock is looked at outside the transaction, so that one answer can name
\* every short product; nothing holds it there.
CheckStock(t, o) ==
  /\ tx[t].pc = "idle"
  /\ orders[o].status = "absent"
  /\ \A u \in Procs : tx[u].order = o => tx[u].from # "absent"
  /\ \A p \in Products : stock[p] >= Basket[o][p]
  /\ tx' = [tx EXCEPT ![t] = [Idle EXCEPT !.pc = "placing", !.order = o]]
  /\ UNCHANGED <<bookVars, locks>>

\* Mutant of TakeNumber: SELECT MAX(number) + 1, which locks nothing.
TakeNumberUnlocked(t) ==
  /\ tx[t].pc = "placing"
  /\ \E q \in NextRow(Items(tx[t].order)) :
       tx' = [tx EXCEPT ![t] = [@ EXCEPT !.pc = "reserving",
                                  !.number = lastNumber + 1,
                                  !.at = q,
                                  !.todo = Items(tx[t].order) \ {q}]]
  /\ UNCHANGED <<bookVars, locks>>

\* INSERT ... ON CONFLICT DO UPDATE SET last_value = last_value + 1
TakeNumber(t) ==
  /\ tx[t].pc = "placing"
  /\ counterLock = NoProc
  /\ counterLock' = t
  /\ \E q \in NextRow(Items(tx[t].order)) :
       tx' = [tx EXCEPT ![t] = [@ EXCEPT !.pc = "reserving",
                                  !.number = lastNumber + 1,
                                  !.at = q,
                                  !.todo = Items(tx[t].order) \ {q}]]
  /\ UNCHANGED <<bookVars, stockLock, orderLock>>

\* Mutant of ReserveRow: the decrement without its WHERE stock_pallets >= needed.
ReserveRowBlind(t) ==
  /\ tx[t].pc = "reserving"
  /\ tx[t].at # NoProduct
  /\ WriteRow(t, stock[tx[t].at] - Basket[tx[t].order][tx[t].at])

ReserveRow(t) ==
  /\ tx[t].pc = "reserving"
  /\ tx[t].at # NoProduct
  /\ stock[tx[t].at] >= Basket[tx[t].order][tx[t].at]
  /\ WriteRow(t, stock[tx[t].at] - Basket[tx[t].order][tx[t].at])

\* Mutant of RowShort: the loop repeats the UPDATE until the row has the stock, with
\* the counter row in hand.
RowShortRepeats(t) ==
  /\ tx[t].pc = "reserving"
  /\ tx[t].at # NoProduct
  /\ stock[tx[t].at] < Basket[tx[t].order][tx[t].at]
  /\ UNCHANGED <<bookVars, locks, tx>>

\* UPDATE ... WHERE stock_pallets >= needed matched no row.
RowShort(t) ==
  /\ tx[t].pc = "reserving"
  /\ tx[t].at # NoProduct
  /\ stock[tx[t].at] < Basket[tx[t].order][tx[t].at]
  /\ StepTo(t, [tx[t] EXCEPT !.lost = TRUE])
  /\ UNCHANGED <<bookVars, locks>>

PlaceRejected(t) ==
  /\ tx[t].pc = "reserving"
  /\ tx[t].at = NoProduct
  /\ tx[t].lost
  /\ Rollback(t)

CommitPlace(t) ==
  /\ tx[t].pc = "reserving"
  /\ tx[t].at = NoProduct
  /\ ~tx[t].lost
  /\ stock' = Committed(t)
  /\ lastNumber' = tx[t].number
  /\ orders' = [orders EXCEPT ![tx[t].order] =
       [status |-> "NEW", reserved |-> TRUE, number |-> tx[t].number]]
  /\ ReleaseLocks(t)

-----------------------------------------------------------------------------
(* Changing an order's status                                              *)

\* The order is read, and the transition checked, before the transaction.
ReadStatus(t, o, to) ==
  /\ tx[t].pc = "idle"
  /\ orders[o].status # "absent"
  /\ canTransition(orders[o].status, to, HasDelivery[o])
  /\ tx' = [tx EXCEPT ![t] = [Idle EXCEPT !.pc = "changing", !.order = o,
                                !.from = orders[o].status, !.to = to]]
  /\ UNCHANGED <<bookVars, locks>>

\* Mutant of ClaimOrder: the UPDATE does not repeat the status that was read.
ClaimOrderBlind(t) ==
  LET o == tx[t].order
      back == IF tx[t].to = "CANCELLED" /\ orders[o].reserved
              THEN Items(o) ELSE {} IN
  /\ tx[t].pc = "changing"
  /\ orderLock[o] = NoProc
  /\ orderLock' = [orderLock EXCEPT ![o] = t]
  /\ \E q \in NextRow(back) :
       tx' = [tx EXCEPT ![t] = [@ EXCEPT !.pc = "updating",
                                  !.at = q, !.todo = back \ {q}]]
  /\ UNCHANGED <<bookVars, counterLock, stockLock>>

\* UPDATE ... WHERE status = <the status read>: the optimistic lock.  A
\* cancellation then clears stock_reserved and, if it was set, gets its items.
ClaimOrder(t) ==
  LET o == tx[t].order
      back == IF tx[t].to = "CANCELLED" /\ orders[o].reserved
              THEN Items(o) ELSE {} IN
  /\ tx[t].pc = "changing"
  /\ orders[o].status = tx[t].from
  /\ orderLock[o] = NoProc
  /\ orderLock' = [orderLock EXCEPT ![o] = t]
  /\ \E q \in NextRow(back) :
       tx' = [tx EXCEPT ![t] = [@ EXCEPT !.pc = "updating",
                                  !.at = q, !.todo = back \ {q}]]
  /\ UNCHANGED <<bookVars, counterLock, stockLock>>

\* The optimistic update matched no row: 409.
ChangeConflict(t) ==
  /\ tx[t].pc = "changing"
  /\ orders[tx[t].order].status # tx[t].from
  /\ Rollback(t)

RestoreRow(t) ==
  /\ tx[t].pc = "updating"
  /\ tx[t].at # NoProduct
  /\ WriteRow(t, stock[tx[t].at] + Basket[tx[t].order][tx[t].at])

\* Mutant of CommitChange: a cancellation leaves stock_reserved set.
CommitChangeKeepsFlag(t) ==
  /\ tx[t].pc = "updating"
  /\ tx[t].at = NoProduct
  /\ stock' = Committed(t)
  /\ orders' = [orders EXCEPT ![tx[t].order].status = tx[t].to]
  /\ UNCHANGED lastNumber
  /\ ReleaseLocks(t)

CommitChange(t) ==
  /\ tx[t].pc = "updating"
  /\ tx[t].at = NoProduct
  /\ stock' = Committed(t)
  /\ orders' = [orders EXCEPT
       ![tx[t].order].status = tx[t].to,
       ![tx[t].order].reserved = @ /\ tx[t].to # "CANCELLED"]
  /\ UNCHANGED lastNumber
  /\ ReleaseLocks(t)

-----------------------------------------------------------------------------
(* The moderator, and the ways a transaction ends early                    *)

\* product-stocks upsert: the value replaces the stock, whatever it was.
SetStock(p, n) ==
  /\ stockLock[p] = NoProc
  /\ Restock(p, n)
  /\ UNCHANGED <<locks, tx>>

\* The holder of the row t's next statement needs, NoProc when t is not blocked.
WaitsFor(t) ==
  CASE tx[t].pc = "placing" -> counterLock
    [] tx[t].pc = "changing" /\ orders[tx[t].order].status = tx[t].from ->
         orderLock[tx[t].order]
    [] tx[t].pc = "reserving" /\ tx[t].at # NoProduct
         /\ stock[tx[t].at] >= Basket[tx[t].order][tx[t].at] -> stockLock[tx[t].at]
    [] tx[t].pc = "updating" /\ tx[t].at # NoProduct -> stockLock[tx[t].at]
    [] OTHER -> NoProc

\* Requests that wait for one another in a ring.
IsDeadlock(S) == S # {} /\ S = {WaitsFor(t) : t \in S}

\* PostgreSQL finds the ring and aborts a transaction of it.
DeadlockVictim(t) ==
  /\ \E S \in SUBSET Procs : t \in S /\ IsDeadlock(S)
  /\ Rollback(t)

\* A transaction over Prisma's time limit, a lost connection, a crash.
Abort(t) ==
  /\ tx[t].pc # "idle"
  /\ Rollback(t)

-----------------------------------------------------------------------------
Statement(t) ==
  \/ TakeNumber(t) \/ ReserveRow(t) \/ RowShort(t)
  \/ PlaceRejected(t) \/ CommitPlace(t)
  \/ ClaimOrder(t) \/ ChangeConflict(t) \/ RestoreRow(t) \/ CommitChange(t)

Next ==
  \/ \E t \in Procs :
       \/ Statement(t)
       \/ DeadlockVictim(t)
       \/ Abort(t)
       \/ \E o \in Orders : CheckStock(t, o)
       \/ \E o \in Orders, to \in OrderStatus : ReadStatus(t, o, to)
  \/ \E p \in Products, n \in StockLevels : SetStock(p, n)

Spec == Init /\ [][Next]_vars

\* A started request goes on; PostgreSQL queues the waiters of a row, so a
\* request that keeps finding its row free gets it; its detector always runs.
Fairness == \A t \in Procs : SF_vars(Statement(t)) /\ WF_vars(DeadlockVictim(t))

FairSpec == Spec /\ Fairness

-----------------------------------------------------------------------------
(* Properties                                                              *)

\* Types of the committed rows, the locks and the requests; in particular no
\* interleaving of reservations takes stock_pallets below zero.
TypeOK ==
  /\ stock \in [Products -> Nat]
  /\ lastNumber \in Nat
  /\ orders \in [Orders -> OrderRow]
  /\ counterLock \in Procs \cup {NoProc}
  /\ stockLock \in [Products -> Procs \cup {NoProc}]
  /\ orderLock \in [Orders -> Procs \cup {NoProc}]
  /\ tx \in [Procs -> Request]

Placing(t) == tx[t].pc \in {"placing", "reserving"}
Changing(t) == tx[t].pc \in {"changing", "updating"}

\* The rows t has still to update.
Remaining(t) ==
  tx[t].todo \cup (IF tx[t].at = NoProduct THEN {} ELSE {tx[t].at})

\* A row's holder is the transaction that wrote it, and no lock outlives the
\* statements that took it.
LocksMatch ==
  /\ \A t \in Procs : counterLock = t <=> tx[t].pc = "reserving"
  /\ \A t \in Procs, p \in Products : stockLock[p] = t <=> p \in tx[t].wrote
  /\ \A t \in Procs, o \in Orders :
       orderLock[o] = t <=> tx[t].pc = "updating" /\ tx[t].order = o

\* A placement has its order to itself, and its number is still the next one.
PlacementsSound ==
  \A t \in Procs : Placing(t) =>
    /\ tx[t].order \in Orders
    /\ tx[t].from = "absent"
    /\ tx[t].to = "NEW"
    /\ orders[tx[t].order].status = "absent"
    /\ \A u \in Procs : u # t /\ Placing(u) => tx[u].order # tx[t].order
    /\ tx[t].pc = "reserving" => tx[t].number = lastNumber + 1

\* A change follows the flow, and once it has the order's row the status it read
\* is the status the order has.
ChangesSound ==
  \A t \in Procs : Changing(t) =>
    /\ tx[t].order \in Orders
    /\ tx[t].from \in OrderStatus
    /\ canTransition(tx[t].from, tx[t].to, HasDelivery[tx[t].order])
    /\ orders[tx[t].order].status # "absent"
    /\ tx[t].pc = "updating" => orders[tx[t].order].status = tx[t].from

\* What a request has written and what it has still to write make up its rows.
RowsAccounted ==
  \A t \in Procs :
    /\ tx[t].pc \in {"idle", "placing", "changing"} => tx[t].wrote = {}
    /\ tx[t].at = NoProduct => tx[t].todo = {}
    /\ tx[t].at \notin tx[t].wrote \cup tx[t].todo
    /\ tx[t].todo \cap tx[t].wrote = {}
    /\ tx[t].pc = "reserving" /\ ~tx[t].lost =>
         tx[t].wrote \cup Remaining(t) = Items(tx[t].order)
    /\ tx[t].pc = "updating" =>
         tx[t].wrote \cup Remaining(t) =
           IF tx[t].to = "CANCELLED" /\ orders[tx[t].order].reserved
           THEN Items(tx[t].order) ELSE {}

\* A draft is the committed stock less, or plus, the order's pallets: nobody
\* changes a row under the transaction that wrote it.
DraftsCurrent ==
  \A t \in Procs : \A p \in tx[t].wrote :
    /\ tx[t].pc = "reserving" =>
         /\ stock[p] >= Basket[tx[t].order][p]
         /\ tx[t].draft[p] = stock[p] - Basket[tx[t].order][p]
    /\ tx[t].pc = "updating" =>
         tx[t].draft[p] = stock[p] + Basket[tx[t].order][p]

\* Why the transactions are right: locks, requests and drafts agree with the
\* committed rows at every statement.
TransactionsConsistent ==
  /\ LocksMatch
  /\ PlacementsSound
  /\ ChangesSound
  /\ RowsAccounted
  /\ DraftsCurrent

\* The pallets of p that o asks for, and how many of p the orders hold.
Pallets(o, p) == {o} \X (1 .. Basket[o][p])
HeldPallets(p) == UNION {Pallets(o, p) : o \in {u \in Orders : orders[u].reserved}}
Held(p) == Cardinality(HeldPallets(p))

\* Pallets are neither made nor lost: whatever place and change do, with any
\* interleaving, abort or deadlock, stock plus what the orders hold stays the
\* same for every product.  Only a moderator's entry moves that sum.
PalletsConserved ==
  [][\A p \in Products :
       \/ stock'[p] + Held(p)' = stock[p] + Held(p)
       \/ \E n \in StockLevels : SetStock(p, n)]_vars

\* Order numbers of a year have no gap and no duplicate: a rejected or aborted
\* order gives its number back with the rest of its transaction.
NumbersContiguous ==
  LET placed == {o \in Orders : orders[o].number > 0} IN
  /\ {orders[o].number : o \in placed} = 1 .. lastNumber
  /\ Cardinality(placed) = lastNumber

\* Placements lock product rows in whatever order the request lists them, yet
\* never deadlock among themselves, because each holds the year's counter row
\* first.  A ring always has a cancellation in it.
PlacementsNeverDeadlock ==
  \A S \in SUBSET Procs :
    IsDeadlock(S) => \E t \in S : tx[t].to = "CANCELLED"

\* Every request that has passed its checks ends: rows are released on every
\* path, and a ring is broken.
RequestsEnd ==
  \A t \in Procs : tx[t].pc # "idle" ~> tx[t].pc = "idle"

\* place and change, for all their statements, implement the atomic StockBook.
ImplementsStockBook == BookSpec

=============================================================================
