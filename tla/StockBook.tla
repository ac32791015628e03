----------------------------- MODULE StockBook -----------------------------
(***************************************************************************)
(* What the warehouse book promises, with every request atomic: an order   *)
(* takes all of its pallets or none, at the moment it gets its number; a    *)
(* cancelled order gives back, once, exactly what it took; nothing but a    *)
(* moderator's stock entry changes the stock otherwise.                     *)
(*                                                                          *)
(* StockReservation, the transactions as orders.service.ts and              *)
(* order-status.service.ts run them row by row, implements this module.     *)
(***************************************************************************)
EXTENDS Naturals, OrderFlow

CONSTANTS
  Products,      \* rows of product_stocks
  Orders,        \* orders that exist or may be placed
  Basket,        \* Basket[o][p]: pallets of p that order o asks for
  Legacy,        \* orders placed before stock was reserved (stockReserved = false)
  HasDelivery,   \* order.deliveryRequested
  InitialStock,  \* stock at the start
  StockLevels    \* values a moderator may enter

ASSUME BookAssumption ==
  /\ Basket \in [Orders -> [Products -> Nat]]
  /\ Legacy \subseteq Orders
  /\ HasDelivery \in [Orders -> BOOLEAN]
  /\ InitialStock \in [Products -> Nat]
  /\ StockLevels \subseteq Nat

VARIABLES
  stock,       \* product_stocks.stock_pallets
  lastNumber,  \* order_number_counters.last_value
  orders       \* rows of orders: status, stock_reserved, order_number

bookVars == <<stock, lastNumber, orders>>

\* An order row; "absent" is an order nobody has placed yet.
OrderRow == [status : OrderStatus \cup {"absent"},
             reserved : BOOLEAN, number : Nat]

\* Orders older than the reservation column exist already; their numbers are
\* not tracked, new ones count from zero.
BookInit ==
  /\ stock = InitialStock
  /\ lastNumber = 0
  /\ orders = [o \in Orders |->
       [status |-> IF o \in Legacy THEN "NEW" ELSE "absent",
        reserved |-> FALSE, number |-> 0]]

Reserve(o) ==
  /\ orders[o].status = "absent"
  /\ \A p \in Products : stock[p] >= Basket[o][p]
  /\ stock' = [p \in Products |-> stock[p] - Basket[o][p]]
  /\ lastNumber' = lastNumber + 1
  /\ orders' = [orders EXCEPT ![o] =
       [status |-> "NEW", reserved |-> TRUE, number |-> lastNumber + 1]]

Advance(o, to) ==
  /\ orders[o].status # "absent"
  /\ to # "CANCELLED"
  /\ canTransition(orders[o].status, to, HasDelivery[o])
  /\ orders' = [orders EXCEPT ![o].status = to]
  /\ UNCHANGED <<stock, lastNumber>>

Release(o) ==
  /\ orders[o].status # "absent"
  /\ canTransition(orders[o].status, "CANCELLED", HasDelivery[o])
  /\ stock' = [p \in Products |->
       IF orders[o].reserved THEN stock[p] + Basket[o][p] ELSE stock[p]]
  /\ orders' = [orders EXCEPT ![o].status = "CANCELLED", ![o].reserved = FALSE]
  /\ UNCHANGED lastNumber

Restock(p, n) ==
  /\ stock' = [stock EXCEPT ![p] = n]
  /\ UNCHANGED <<lastNumber, orders>>

BookNext ==
  \/ \E o \in Orders : Reserve(o) \/ Release(o)
  \/ \E o \in Orders, to \in OrderStatus : Advance(o, to)
  \/ \E p \in Products, n \in StockLevels : Restock(p, n)

BookSpec == BookInit /\ [][BookNext]_bookVars

=============================================================================
