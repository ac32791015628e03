----------------------- MODULE OrderSettlementProofs -----------------------
(***************************************************************************)
(* Proofs about OrderSettlement, for any number of orders, payments and    *)
(* concurrent requests. What a request has read is stale when it writes:   *)
(* the invariant says what of it can still be relied on (RequestsKnown),   *)
(* and that an order has one open payment (OneOpen), on which crediting it *)
(* once rests. Every action keeps the invariant and is a step of the       *)
(* payment book or none. What the account owes needs one moderator at a    *)
(* time.                                                                   *)
(***************************************************************************)
EXTENDS OrderSettlement, SequenceTheorems, FiniteSetTheorems, TLAPS

USE DEF OrderStatus, PaymentMethod, Event, DELIVERY_EDITABLE_STATUSES

\* What a request in flight has read of the rows it will write.
RequestsKnown ==
  /\ \A s \in Staff :
       /\ staff[s].pc = "changing" =>
            /\ staff[s].order \in Orders
            /\ orders[staff[s].order].status # "absent"
            /\ \E d \in BOOLEAN : canTransition(staff[s].from, staff[s].to, d)
       /\ staff[s].pc = "confirming" => staff[s].payment \in Payments
  /\ \A m \in Moderators : moderator[m].pc = "pricing" =>
       moderator[m].order \in Orders /\ orders[moderator[m].order].status # "absent"
  /\ \A b \in Buyers : buyer[b].pc = "preparing" =>
       /\ buyer[b].order \in Orders
       /\ orders[buyer[b].order].status # "absent"
       /\ buyer[b].pending \in Payments =>
            /\ payments[buyer[b].pending].status # "absent"
            /\ payments[buyer[b].pending].order = buyer[b].order
  /\ \A h \in Hooks : hook[h].pc = "settling" => hook[h].payment \in Payments

\* A payment that exists is of an order that exists.
PaymentsKnown ==
  \A p \in Payments :
    IF payments[p].status = "absent" THEN payments[p].order = NoOrder
    ELSE payments[p].order \in Orders /\ orders[payments[p].order].status # "absent"

\* The partial unique index: an order has one open payment at most.
OneOpen ==
  \A p, q \in Payments :
    /\ payments[p].status = "PENDING" /\ payments[q].status = "PENDING"
    /\ payments[p].order = payments[q].order
    => p = q

SettlementInv == TypeOK /\ RequestsKnown /\ PaymentsKnown /\ OneOpen /\ SettledOnce

-----------------------------------------------------------------------------
(* Types                                                                   *)

\* An account entry keeps the sums' types and signs.
LEMMA RecordedType ==
  ASSUME TypeOK, NEW o, NEW n \in Int
  PROVE  /\ Recorded(o, n) \in [Orders -> Account]
         /\ \A q \in Orders : Recorded(o, n)[q].adjustment <= 0
<1>1. CASE o \notin AccountOrders \/ n = 0
  BY <1>1 DEF Recorded, TypeOK, Account
<1>2. CASE o \in AccountOrders /\ n # 0
  <2>1. o \in Orders /\ ledger[o].debt \in Nat /\ ledger[o].adjustment \in Int
    BY <1>2, SettlementAssumption DEF TypeOK, Account
  <2>2. CASE n > 0
    <3>1. ledger[o].debt + n \in Nat
      BY <2>1, <2>2
    <3> QED
      BY <1>2, <2>1, <2>2, <3>1 DEF Recorded, TypeOK, Account
  <2>3. CASE n < 0
    <3>1. ledger[o].adjustment + n \in Int /\ ledger[o].adjustment + n <= 0
      BY <2>1, <2>3 DEF TypeOK
    <3> QED
      BY <1>2, <2>1, <2>3, <3>1 DEF Recorded, TypeOK, Account
  <2> QED
    BY <1>2, <2>2, <2>3
<1> QED
  BY <1>1, <1>2

\* A new row is a payment.
LEMMA PendingRowType ==
  ASSUME NEW o \in Orders \cup {NoOrder}, NEW method \in PaymentMethod, NEW n \in Nat
  PROVE  PendingRow(o, method, n) \in PaymentRow
  BY DEF PendingRow, PaymentRow

\* The row an insert takes is one that is not used yet.
LEMMA NewPaymentFresh ==
  FreshPayments # {} => NewPayment \in Payments /\ payments[NewPayment].status = "absent"
  BY DEF NewPayment, FreshPayments

\* Settling a payment keeps the types of the rows.
LEMMA SettledType ==
  ASSUME TypeOK, NEW p \in Payments, NEW status \in {"PAID", "FAILED"},
         NEW n \in Nat, Settled(p, status, n)
  PROVE  /\ payments' \in [Payments -> PaymentRow]
         /\ posted' \in [Payments -> Seq(Nat)]
<1>1. payments \in [Payments -> PaymentRow] /\ posted \in [Payments -> Seq(Nat)]
  BY DEF TypeOK
<1>2. Append(posted[p], n) \in Seq(Nat)
  BY <1>1
<1>3. payments' = [payments EXCEPT ![p].status = status]
  BY DEF Settled
<1>4. payments' \in [Payments -> PaymentRow]
  BY <1>1, <1>3 DEF PaymentRow
<1>5. posted' = posted \/ posted' = [posted EXCEPT ![p] = Append(posted[p], n)]
  BY DEF Settled
<1> HIDE DEF PaymentRow
<1>6. posted' \in [Payments -> Seq(Nat)]
  BY <1>1, <1>2, <1>5
<1> QED
  BY <1>4, <1>6

\* Handing a prepared payment on keeps the request a request.
LEMMA PreparedType ==
  ASSUME TypeOK, NEW b \in Buyers, NEW p \in Payments, NEW row \in PaymentRow,
         Prepared(b, p, row)
  PROVE  buyer' \in [Buyers -> BuyerRequest]
<1>1. [IdleBuyer EXCEPT !.pc = "calling", !.pending = p, !.amount = row.amount]
        \in BuyerRequest
  BY DEF IdleBuyer, BuyerRequest, PaymentRow
<1>2. IdleBuyer \in BuyerRequest
  BY DEF IdleBuyer, BuyerRequest
<1>3. buyer \in [Buyers -> BuyerRequest]
  BY DEF TypeOK, BuyerRequest
<1> QED
  BY <1>1, <1>2, <1>3 DEF Prepared

-----------------------------------------------------------------------------
(* What one action does                                                    *)

\* A step of the abstract book, or none.
BookStep == Book!Next \/ UNCHANGED Book!bookVars

\* Rows may change, but every payment stays the same payment in the same status.
PaymentsKept ==
  /\ UNCHANGED posted
  /\ \A p \in Payments : payments'[p].status = payments[p].status
                         /\ payments'[p].order = payments[p].order

OrdersKept ==
  \A o \in Orders : orders[o].status # "absent" => orders'[o].status # "absent"

\* The book does not see a step that keeps the payments.
LEMMA BookStutters == PaymentsKept => BookStep
<1> SUFFICES ASSUME PaymentsKept PROVE UNCHANGED Book!bookVars
  BY DEF BookStep
<1>1. [p \in Payments |-> payments[p].status]' = [p \in Payments |-> payments[p].status]
  BY DEF PaymentsKept
<1>2. [p \in Payments |-> payments[p].order]' = [p \in Payments |-> payments[p].order]
  BY DEF PaymentsKept
<1>3. [p \in Payments |-> Len(posted[p])]' = [p \in Payments |-> Len(posted[p])]
  BY DEF PaymentsKept
<1> QED
  BY <1>1, <1>2, <1>3 DEF Book!bookVars

\* Every payment is still of an order that exists.
LEMMA PaymentsStayKnown ==
  ASSUME PaymentsKnown, PaymentsKept, OrdersKept
  PROVE  PaymentsKnown'
  BY DEF PaymentsKnown, PaymentsKept, OrdersKept

\* Placing an order opens its first payment.
LEMMA PlaceOrderStep ==
  ASSUME SettlementInv, NEW o \in Orders, NEW delivery \in BOOLEAN, NEW price \in Nat,
         NEW method \in PaymentMethod, PlaceOrder(o, delivery, price, method)
  PROVE  TypeOK' /\ RequestsKnown' /\ PaymentsKnown' /\ BookStep
<1> DEFINE total == ItemsTotal[o] + price
           row == PendingRow(o, method, total)
           q == NewPayment
<1>1. total \in Nat /\ row \in PaymentRow /\ row.order = o /\ row.status = "PENDING"
  BY SettlementAssumption, PendingRowType DEF PendingRow
<1>2. q \in Payments /\ payments[q].status = "absent"
  BY NewPaymentFresh DEF PlaceOrder
<1>3. /\ orders[o].status = "absent"
      /\ orders' = [orders EXCEPT ![o] =
           [status |-> "NEW", deliveryRequested |-> delivery,
            deliveryTotal |-> price, grandTotal |-> total]]
      /\ payments' = [payments EXCEPT ![q] = row]
      /\ ledger' = Recorded(o, total)
      /\ UNCHANGED <<posted, provider, flagged, staff, moderator, buyer, hook>>
  BY DEF PlaceOrder, requests
<1> HIDE DEF total, row, q
<1>4. TypeOK'
  <2>1. /\ ledger' \in [Orders -> Account]
        /\ \A u \in Orders : ledger'[u].adjustment <= 0
    BY <1>1, <1>3, RecordedType DEF SettlementInv
  <2>2. orders' \in [Orders -> Order]
    BY <1>1, <1>3 DEF SettlementInv, TypeOK, Order
  <2>3. payments' \in [Payments -> PaymentRow]
    BY <1>1, <1>3 DEF SettlementInv, TypeOK
  <2> QED
    BY <1>3, <2>1, <2>2, <2>3 DEF SettlementInv, TypeOK, Order, Account
<1>5. OrdersKept
  BY <1>1, <1>3 DEF OrdersKept, SettlementInv, TypeOK
<1>6. RequestsKnown'
  BY <1>1, <1>2, <1>3, <1>5 DEF SettlementInv, RequestsKnown, OrdersKept, TypeOK
<1>7. PaymentsKnown'
  BY <1>1, <1>2, <1>3, <1>5 DEF SettlementInv, PaymentsKnown, OrdersKept, TypeOK
<1>8. BookStep
  <2>1. \A p \in Payments : payments[p].status = "PENDING" => payments[p].order # o
    BY <1>3 DEF SettlementInv, PaymentsKnown
  <2>2. Book!Open(q, o)
    BY <1>1, <1>2, <1>3, <2>1 DEF Book!Open, Book!HasOpen, SettlementInv, TypeOK
  <2> QED
    BY <1>2, <2>2 DEF BookStep, Book!Next
<1> QED
  BY <1>4, <1>6, <1>7, <1>8

\* A step that leaves orders and payments alone leaves what is known of them.
LEMMA RowsUnchanged ==
  ASSUME SettlementInv, UNCHANGED <<orders, payments, posted>>
  PROVE  PaymentsKnown' /\ BookStep
<1>1. PaymentsKept /\ OrdersKept
  BY DEF PaymentsKept, OrdersKept
<1> QED
  BY <1>1, BookStutters, PaymentsStayKnown DEF SettlementInv

\* What an employee's request reads.
LEMMA StaffReads ==
  ASSUME SettlementInv, NEW s \in Staff,
         \/ \E o \in Orders, to \in OrderStatus : ReadStatus(s, o, to)
         \/ \E p \in Payments : ReadForConfirm(s, p)
  PROVE  TypeOK' /\ RequestsKnown' /\ PaymentsKnown' /\ BookStep
<1> USE DEF SettlementInv
<1>1. PICK r \in StaffRequest :
        /\ staff' = [staff EXCEPT ![s] = r]
        /\ \/ /\ r.pc = "changing" /\ r.order \in Orders
              /\ orders[r.order].status # "absent"
              /\ \E d \in BOOLEAN : canTransition(r.from, r.to, d)
           \/ r.pc = "confirming" /\ r.payment \in Payments
  <2>1. ASSUME NEW o \in Orders, NEW to \in OrderStatus, ReadStatus(s, o, to)
        PROVE  \E r \in StaffRequest :
                 /\ staff' = [staff EXCEPT ![s] = r]
                 /\ r.pc = "changing" /\ r.order \in Orders
                 /\ orders[r.order].status # "absent"
                 /\ \E d \in BOOLEAN : canTransition(r.from, r.to, d)
    <3> DEFINE r == [IdleStaff EXCEPT !.pc = "changing", !.order = o,
                                      !.from = orders[o].status, !.to = to]
    <3>1. /\ orders[o].status # "absent"
          /\ canTransition(orders[o].status, to, orders[o].deliveryRequested)
          /\ staff' = [staff EXCEPT ![s] = r]
      BY <2>1 DEF ReadStatus
    <3>2. orders[o].status \in OrderStatus /\ orders[o].deliveryRequested \in BOOLEAN
      BY <3>1 DEF TypeOK, Order
    <3>3. /\ r \in StaffRequest
          /\ r.pc = "changing" /\ r.order = o /\ r.from = orders[o].status /\ r.to = to
      BY <3>2 DEF IdleStaff, StaffRequest
    <3> HIDE DEF r
    <3> QED
      BY <3>1, <3>2, <3>3
  <2>2. ASSUME NEW p \in Payments, ReadForConfirm(s, p)
        PROVE  \E r \in StaffRequest :
                 /\ staff' = [staff EXCEPT ![s] = r]
                 /\ r.pc = "confirming" /\ r.payment \in Payments
    <3> DEFINE r == [IdleStaff EXCEPT !.pc = "confirming", !.payment = p,
                                      !.amount = payments[p].amount]
    <3>1. staff' = [staff EXCEPT ![s] = r]
      BY <2>2 DEF ReadForConfirm
    <3>2. r \in StaffRequest /\ r.pc = "confirming" /\ r.payment = p
      BY DEF IdleStaff, TypeOK, PaymentRow, StaffRequest
    <3> HIDE DEF r
    <3> QED
      BY <3>1, <3>2
  <2> QED
    BY <2>1, <2>2
<1>2. UNCHANGED <<orders, payments, ledger, posted, provider, flagged,
                  moderator, buyer, hook>>
  BY DEF ReadStatus, ReadForConfirm
<1>3. TypeOK'
  BY <1>1, <1>2 DEF TypeOK, StaffRequest
<1>4. RequestsKnown'
  BY <1>1, <1>2 DEF RequestsKnown, TypeOK
<1> QED
  BY <1>2, <1>3, <1>4, RowsUnchanged

\* What a moderator's request reads.
LEMMA ModeratorReads ==
  ASSUME SettlementInv, NEW m \in Moderators, NEW o \in Orders, ReadDelivery(m, o)
  PROVE  TypeOK' /\ RequestsKnown' /\ PaymentsKnown' /\ BookStep
<1> USE DEF SettlementInv, ReadDelivery
<1>1. TypeOK'
  BY DEF TypeOK, Order, ModeratorRequest
<1>2. RequestsKnown'
  BY DEF RequestsKnown, TypeOK
<1> QED
  BY <1>1, <1>2, RowsUnchanged

\* What the start of a payment reads.
LEMMA BuyerReads ==
  ASSUME SettlementInv, NEW b \in Buyers, NEW o \in Orders, NEW method \in PaymentMethod,
         ReadForStart(b, o, method)
  PROVE  TypeOK' /\ RequestsKnown' /\ PaymentsKnown' /\ BookStep
<1> USE DEF SettlementInv
<1> DEFINE pending == IF Pending(o) = {} THEN NoPayment
                      ELSE CHOOSE p \in Pending(o) : TRUE
           r == [IdleBuyer EXCEPT
                   !.pc = "preparing", !.order = o, !.method = method,
                   !.grandTotal = orders[o].grandTotal,
                   !.pending = pending,
                   !.pendingMethod = IF pending = NoPayment THEN method
                                     ELSE payments[pending].method,
                   !.pendingRef = pending # NoPayment /\ payments[pending].ref]
<1>1. \/ pending = NoPayment
      \/ /\ pending \in Payments
         /\ payments[pending].order = o /\ payments[pending].status = "PENDING"
  BY DEF Pending, PaymentsOf
<1>2. buyer' = [buyer EXCEPT ![b] = r]
  BY DEF ReadForStart
<1>3. /\ UNCHANGED <<orders, payments, ledger, posted, provider, flagged,
                     staff, moderator, hook>>
      /\ orders[o].status # "absent"
  BY DEF ReadForStart
<1>4. r \in BuyerRequest /\ r.order = o /\ r.pending = pending
  <2> HIDE DEF pending
  <2> QED
    BY <1>1, <1>3, SettlementAssumption
       DEF IdleBuyer, BuyerRequest, TypeOK, Order, PaymentRow
<1> HIDE DEF r, pending
<1>6. TypeOK'
  BY <1>2, <1>3, <1>4 DEF TypeOK, BuyerRequest
<1>7. RequestsKnown'
  BY <1>1, <1>2, <1>3, <1>4, SettlementAssumption DEF RequestsKnown, TypeOK
<1> QED
  BY <1>3, <1>6, <1>7, RowsUnchanged

\* A status change that was overtaken answers 409 and writes nothing; a
\* cancellation closes the order's one open payment.
LEMMA CommitStatusStep ==
  ASSUME SettlementInv, NEW s \in Staff, CommitStatus(s)
  PROVE  TypeOK' /\ RequestsKnown' /\ PaymentsKnown' /\ BookStep
<1> USE DEF SettlementInv
<1> DEFINE o == staff[s].order
           to == staff[s].to
<1>1. o \in Orders /\ to \in OrderStatus /\ IdleStaff \in StaffRequest
  BY DEF CommitStatus, RequestsKnown, TypeOK, IdleStaff, StaffRequest
<1>2. /\ staff' = [staff EXCEPT ![s] = IdleStaff]
      /\ UNCHANGED <<posted, provider, flagged, moderator, buyer, hook>>
  BY DEF CommitStatus
<1>3. /\ orders' = orders \/ orders' = [orders EXCEPT ![o].status = to]
      /\ \/ payments' = payments
         \/ payments' = [p \in Payments |->
              IF p \in Pending(o)
              THEN [payments[p] EXCEPT !.status = "CANCELLED"] ELSE payments[p]]
      /\ ledger' = ledger \/ ledger' = Recorded(o, -NetDebt(o))
  BY DEF CommitStatus, TypeOK
<1> HIDE DEF o, to
<1>4. Pending(o) \subseteq Payments
      /\ \A p \in Payments : p \in Pending(o) <=>
           payments[p].order = o /\ payments[p].status = "PENDING"
  BY DEF Pending, PaymentsOf
<1>5. /\ ledger' \in [Orders -> Account]
      /\ \A q \in Orders : ledger'[q].adjustment <= 0
  <2>1. -NetDebt(o) \in Int
    BY <1>1 DEF NetDebt, TypeOK, Account
  <2> QED
    BY <1>3, <2>1, RecordedType DEF TypeOK, Account
<1>6. orders' \in [Orders -> Order]
  <2>1. [orders[o] EXCEPT !.status = to] \in Order
    BY <1>1 DEF TypeOK, Order
  <2> QED
    BY <1>1, <1>3, <2>1 DEF TypeOK
<1>7. payments' \in [Payments -> PaymentRow]
  <2>1. \A p \in Payments : [payments[p] EXCEPT !.status = "CANCELLED"] \in PaymentRow
    BY DEF TypeOK, PaymentRow
  <2> QED
    BY <1>3, <2>1 DEF TypeOK
<1>8. staff' \in [Staff -> StaffRequest]
  BY <1>1, <1>2 DEF TypeOK, StaffRequest
<1>9. TypeOK'
  BY <1>2, <1>5, <1>6, <1>7, <1>8 DEF TypeOK, Order, Account, StaffRequest
<1>10. OrdersKept
  BY <1>1, <1>3 DEF OrdersKept, TypeOK, Order
<1>11. \A p \in Payments :
         /\ payments'[p].order = payments[p].order
         /\ payments[p].status = "absent" <=> payments'[p].status = "absent"
  BY <1>3, <1>4 DEF TypeOK, PaymentRow
<1>12. RequestsKnown'
  BY <1>2, <1>10, <1>11 DEF RequestsKnown, OrdersKept, TypeOK, IdleStaff
<1>13. PaymentsKnown'
  BY <1>10, <1>11 DEF PaymentsKnown, OrdersKept
<1>14. BookStep
  <2>1. CASE payments' = payments \/ Pending(o) = {}
    <3>1. payments' = payments
      BY <1>3, <2>1 DEF TypeOK
    <3> QED
      BY <1>2, <3>1, BookStutters DEF PaymentsKept
  <2>2. CASE payments' # payments /\ Pending(o) # {}
    <3>1. PICK p \in Payments : p \in Pending(o)
      BY <1>4, <2>2
    <3>2. \A q \in Payments : q \in Pending(o) <=> q = p
      BY <1>4, <3>1 DEF OneOpen
    <3>3. payments[p].status = "PENDING"
      BY <1>4, <3>1
    <3>4. payments' = [payments EXCEPT ![p].status = "CANCELLED"]
      BY <1>3, <2>2, <3>2 DEF TypeOK
    <3>5. Book!Close(p, "CANCELLED")
      BY <1>2, <3>3, <3>4 DEF Book!Close, TypeOK, PaymentRow
    <3> QED
      BY <3>5 DEF BookStep, Book!Next
  <2> QED
    BY <2>1, <2>2
<1> QED
  BY <1>9, <1>12, <1>13, <1>14

\* A delivery change writes amounts, and closes no payment.
LEMMA CommitDeliveryStep ==
  ASSUME SettlementInv, NEW m \in Moderators, NEW delivery \in BOOLEAN, NEW price \in Nat,
         CommitDelivery(m, delivery, price)
  PROVE  TypeOK' /\ RequestsKnown' /\ PaymentsKnown' /\ BookStep
<1> USE DEF SettlementInv
<1> DEFINE o == moderator[m].order
           total == ItemsTotal[o] + price
           delta == total - moderator[m].grandTotal
<1>1. o \in Orders /\ total \in Nat /\ delta \in Int /\ IdleModerator \in ModeratorRequest
  <2>1. o \in Orders /\ moderator[m].grandTotal \in Nat
    BY DEF CommitDelivery, RequestsKnown, TypeOK, ModeratorRequest
  <2>2. ItemsTotal[o] \in Nat
    BY <2>1, SettlementAssumption
  <2> QED
    BY <2>1, <2>2 DEF IdleModerator, ModeratorRequest
<1>2. /\ orders' = [orders EXCEPT ![o] =
           [orders[o] EXCEPT !.deliveryRequested = delivery,
                             !.deliveryTotal = price, !.grandTotal = total]]
      /\ payments' = [p \in Payments |->
           IF delta # 0 /\ p \in Pending(o)
           THEN [payments[p] EXCEPT !.amount = total] ELSE payments[p]]
      /\ ledger' = Recorded(o, delta)
      /\ moderator' = [moderator EXCEPT ![m] = IdleModerator]
      /\ UNCHANGED <<posted, provider, flagged, staff, buyer, hook>>
  BY DEF CommitDelivery
<1> HIDE DEF o, total, delta
<1>3. /\ ledger' \in [Orders -> Account]
      /\ \A q \in Orders : ledger'[q].adjustment <= 0
  BY <1>1, <1>2, RecordedType
<1>4. orders' \in [Orders -> Order]
  BY <1>1, <1>2 DEF TypeOK, Order
<1>5. payments' \in [Payments -> PaymentRow]
  BY <1>1, <1>2 DEF TypeOK, PaymentRow
<1>6. moderator' \in [Moderators -> ModeratorRequest]
  BY <1>1, <1>2 DEF TypeOK, ModeratorRequest
<1>7. TypeOK'
  BY <1>2, <1>3, <1>4, <1>5, <1>6 DEF TypeOK, Order, Account, ModeratorRequest
<1>8. OrdersKept
  BY <1>1, <1>2 DEF OrdersKept, TypeOK
<1>9. PaymentsKept
  BY <1>2 DEF PaymentsKept, TypeOK, PaymentRow
<1>10. RequestsKnown'
  BY <1>2, <1>8, <1>9 DEF RequestsKnown, OrdersKept, PaymentsKept, TypeOK, IdleModerator
<1> QED
  BY <1>7, <1>8, <1>9, <1>10, BookStutters, PaymentsStayKnown

\* The pending payment is used again, under its method or another.
LEMMA PrepareOldStep ==
  ASSUME SettlementInv, NEW b \in Buyers, PrepareSame(b) \/ PrepareSwitch(b)
  PROVE  TypeOK' /\ RequestsKnown' /\ PaymentsKnown' /\ BookStep
<1> USE DEF SettlementInv
<1> DEFINE p == buyer[b].pending
<1>1. p \in Payments /\ buyer[b].method \in PaymentMethod
  BY DEF PrepareSame, PrepareSwitch, TypeOK, BuyerRequest
<1>2. PICK row \in PaymentRow :
        /\ Prepared(b, p, row) \/ buyer' = [buyer EXCEPT ![b] = IdleBuyer]
        /\ payments' = payments
           \/ /\ payments' = [payments EXCEPT ![p] = row]
              /\ row.order = payments[p].order /\ row.status = payments[p].status
  <2>1. CASE PrepareSame(b)
    BY <1>1, <2>1 DEF PrepareSame, TypeOK
  <2>2. CASE PrepareSwitch(b)
    <3> DEFINE row == [payments[p] EXCEPT !.method = buyer[b].method]
    <3>1. row \in PaymentRow /\ row.order = payments[p].order
          /\ row.status = payments[p].status
      <4>1. payments[p] \in PaymentRow
        BY <1>1 DEF TypeOK
      <4> QED
        BY <1>1, <4>1 DEF PaymentRow
    <3>2. /\ Prepared(b, p, row) \/ buyer' = [buyer EXCEPT ![b] = IdleBuyer]
          /\ payments' = payments \/ payments' = [payments EXCEPT ![p] = row]
      BY <2>2 DEF PrepareSwitch
    <3> HIDE DEF row
    <3> QED
      BY <3>1, <3>2
  <2> QED
    BY <2>1, <2>2
<1>3. UNCHANGED <<orders, ledger, posted, provider, flagged, staff, moderator, hook>>
  BY DEF PrepareSame, PrepareSwitch
<1>4. /\ buyer' \in [Buyers -> BuyerRequest]
      /\ \A c \in Buyers : buyer'[c] = buyer[c] \/ buyer'[c].pc # "preparing"
  <2>1. IdleBuyer \in BuyerRequest
    BY DEF IdleBuyer, BuyerRequest
  <2>2. buyer' \in [Buyers -> BuyerRequest]
    BY <1>1, <1>2, <2>1, PreparedType DEF TypeOK, BuyerRequest
  <2>3. PICK r : r.pc # "preparing" /\ buyer' = [buyer EXCEPT ![b] = r]
    BY <1>2 DEF Prepared, IdleBuyer
  <2> QED
    BY <2>2, <2>3 DEF TypeOK
<1> HIDE DEF p
<1>5. payments' \in [Payments -> PaymentRow]
  BY <1>1, <1>2 DEF TypeOK
<1>6. TypeOK'
  BY <1>3, <1>4, <1>5 DEF TypeOK, BuyerRequest
<1>7. PaymentsKept /\ OrdersKept
  BY <1>1, <1>2, <1>3 DEF PaymentsKept, OrdersKept, TypeOK
<1>8. RequestsKnown'
  BY <1>3, <1>4, <1>7 DEF RequestsKnown, PaymentsKept
<1> QED
  BY <1>6, <1>7, <1>8, BookStutters, PaymentsStayKnown

\* A new payment is inserted where there is no open one, or in place of the open
\* one that was read.
LEMMA PrepareNewStep ==
  ASSUME SettlementInv, NEW b \in Buyers, PrepareNew(b)
  PROVE  TypeOK' /\ RequestsKnown' /\ PaymentsKnown' /\ BookStep
<1> USE DEF SettlementInv
<1> DEFINE o == buyer[b].order
           p == buyer[b].pending
           q == NewPayment
           row == PendingRow(o, buyer[b].method, buyer[b].grandTotal)
<1>1. /\ o \in Orders /\ orders[o].status # "absent"
      /\ p \in Payments => payments[p].order = o
      /\ p = NoPayment \/ p \in Payments
      /\ buyer[b].method \in PaymentMethod /\ buyer[b].grandTotal \in Nat
  BY DEF PrepareNew, RequestsKnown, TypeOK, BuyerRequest
<1>2. row \in PaymentRow /\ row.order = o /\ row.status = "PENDING"
  BY <1>1, PendingRowType DEF PendingRow
<1>3. q \in Payments /\ payments[q].status = "absent"
  BY NewPaymentFresh DEF PrepareNew
<1>4. \/ /\ UNCHANGED payments
         /\ buyer' = [buyer EXCEPT ![b] = IdleBuyer]
      \/ /\ IF p = NoPayment THEN Pending(o) = {} ELSE payments[p].status = "PENDING"
         /\ payments' = [u \in Payments |->
              IF u = p THEN [payments[u] EXCEPT !.status = "CANCELLED"]
              ELSE IF u = q THEN row ELSE payments[u]]
         /\ Prepared(b, q, row)
  BY DEF PrepareNew
<1>5. UNCHANGED <<orders, ledger, posted, provider, flagged, staff, moderator, hook>>
  BY DEF PrepareNew
<1> HIDE DEF o, p, q, row
<1>6. /\ buyer' \in [Buyers -> BuyerRequest]
      /\ \A c \in Buyers : buyer'[c] = buyer[c] \/ buyer'[c].pc # "preparing"
  <2>1. IdleBuyer \in BuyerRequest
    BY DEF IdleBuyer, BuyerRequest
  <2>2. buyer' \in [Buyers -> BuyerRequest]
    BY <1>2, <1>3, <1>4, <2>1, PreparedType DEF TypeOK
  <2>3. PICK r : r.pc # "preparing" /\ buyer' = [buyer EXCEPT ![b] = r]
    BY <1>4 DEF Prepared, IdleBuyer
  <2> QED
    BY <2>2, <2>3 DEF TypeOK
<1>7. payments' \in [Payments -> PaymentRow]
  <2>1. \A u \in Payments : [payments[u] EXCEPT !.status = "CANCELLED"] \in PaymentRow
    BY DEF TypeOK, PaymentRow
  <2> QED
    BY <1>2, <1>4, <2>1 DEF TypeOK
<1>8. TypeOK'
  BY <1>5, <1>6, <1>7 DEF TypeOK
<1>9. CASE UNCHANGED payments
  <2>1. RequestsKnown'
    BY <1>5, <1>6, <1>9 DEF RequestsKnown
  <2> QED
    BY <1>5, <1>8, <1>9, <2>1, RowsUnchanged
<1>10. CASE /\ IF p = NoPayment THEN Pending(o) = {} ELSE payments[p].status = "PENDING"
            /\ payments' = [u \in Payments |->
                 IF u = p THEN [payments[u] EXCEPT !.status = "CANCELLED"]
                 ELSE IF u = q THEN row ELSE payments[u]]
  <2>1. /\ p # q
        /\ p \in Payments => /\ payments[p].status = "PENDING"
                             /\ payments'[p].status = "CANCELLED"
                             /\ payments'[p].order = o
        /\ payments'[q] = row
        /\ \A u \in Payments : u # p /\ u # q => payments'[u] = payments[u]
    <3>1. p \in Payments => payments[p].status = "PENDING"
      BY <1>1, <1>10, SettlementAssumption
    <3>2. p # q
      BY <1>1, <1>3, <3>1, SettlementAssumption
    <3> QED
      BY <1>1, <1>3, <1>10, <3>1, <3>2 DEF TypeOK, PaymentRow
  <2>2. \A u \in Payments : payments[u].status # "absent" =>
          payments'[u].status # "absent" /\ payments'[u].order = payments[u].order
    BY <1>1, <1>3, <2>1
  <2>3. RequestsKnown'
    BY <1>5, <1>6, <2>2 DEF RequestsKnown
  <2>4. PaymentsKnown'
    BY <1>1, <1>2, <1>3, <1>5, <2>1 DEF PaymentsKnown
  <2>5. CASE p = NoPayment
    <3>1. \A u \in Payments : payments[u].status = "PENDING" => payments[u].order # o
      BY <1>10, <2>5 DEF Pending, PaymentsOf
    <3>2. p \notin Payments
      BY <2>5, SettlementAssumption
    <3>3. payments' = [payments EXCEPT ![q] = row]
      BY <1>10, <3>2 DEF TypeOK
    <3>4. PICK c \in Payments, d \in Orders : c = q /\ d = o
      BY <1>1, <1>3
    <3>5. Book!Open(c, d)
      BY <1>2, <1>3, <1>5, <3>1, <3>3, <3>4 DEF Book!Open, Book!HasOpen, TypeOK
    <3>6. BookStep
      BY <3>5 DEF BookStep, Book!Next
    <3> QED
      BY <1>8, <2>3, <2>4, <3>6
  <2>6. CASE p \in Payments
    <3>1. [u \in Payments |-> payments'[u].status] =
            [[u \in Payments |-> payments[u].status]
               EXCEPT ![p] = "CANCELLED", ![q] = "PENDING"]
      BY <1>2, <1>3, <2>1, <2>6
    <3>2. [u \in Payments |-> payments'[u].order] =
            [[u \in Payments |-> payments[u].order] EXCEPT ![q] = payments[p].order]
      BY <1>1, <1>2, <1>3, <2>1, <2>6
    <3>3. PICK c \in Payments, d \in Payments : c = p /\ d = q
      BY <1>3, <2>6
    <3>4. Book!Replace(c, d)
      BY <1>3, <1>5, <2>1, <2>6, <3>1, <3>2, <3>3 DEF Book!Replace
    <3>5. BookStep
      BY <3>4 DEF BookStep, Book!Next
    <3> QED
      BY <1>8, <2>3, <2>4, <3>5
  <2> QED
    BY <1>1, <2>5, <2>6
<1> QED
  BY <1>4, <1>9, <1>10

\* The call to the provider, and its reference written to a PENDING payment.
LEMMA ProviderCallStep ==
  ASSUME SettlementInv, NEW b \in Buyers, CallProvider(b) \/ SaveRef(b)
  PROVE  TypeOK' /\ RequestsKnown' /\ PaymentsKnown' /\ BookStep
<1> USE DEF SettlementInv
<1> DEFINE p == buyer[b].pending
<1>1. /\ buyer' \in [Buyers -> BuyerRequest]
      /\ \A c \in Buyers : buyer'[c] = buyer[c] \/ buyer'[c].pc # "preparing"
  <2>1. CASE CallProvider(b)
    BY <2>1 DEF CallProvider, TypeOK, BuyerRequest
  <2>2. CASE SaveRef(b)
    <3>1. IdleBuyer \in BuyerRequest /\ IdleBuyer.pc = "idle"
      BY DEF IdleBuyer, BuyerRequest
    <3> QED
      BY <2>2, <3>1 DEF SaveRef, TypeOK
  <2> QED
    BY <2>1, <2>2
<1>2. provider' \in [Payments -> Intent]
  <2>1. CASE CallProvider(b)
    <3>1. buyer[b].amount \in Nat
      BY DEF TypeOK, BuyerRequest
    <3>2. provider' = [provider EXCEPT ![p].amount =
                         IF provider[p].amount = 0 THEN buyer[b].amount
                         ELSE provider[p].amount]
      BY <2>1 DEF CallProvider
    <3> HIDE DEF p
    <3> QED
      BY <3>1, <3>2 DEF TypeOK, Intent
  <2> QED
    BY <2>1 DEF SaveRef, TypeOK
<1>3. /\ UNCHANGED <<orders, ledger, posted, flagged, staff, moderator, hook>>
      /\ payments' = payments \/ payments' = [payments EXCEPT ![p].ref = TRUE]
  BY DEF CallProvider, SaveRef
<1> HIDE DEF p
<1>4. /\ payments' \in [Payments -> PaymentRow]
      /\ \A u \in Payments : payments'[u].status = payments[u].status
                             /\ payments'[u].order = payments[u].order
  <2>1. payments \in [Payments -> PaymentRow]
    BY DEF TypeOK
  <2>2. CASE p \in Payments
    <3>1. [payments[p] EXCEPT !.ref = TRUE] \in PaymentRow
      BY <2>1, <2>2 DEF PaymentRow
    <3>2. /\ [payments[p] EXCEPT !.ref = TRUE].status = payments[p].status
          /\ [payments[p] EXCEPT !.ref = TRUE].order = payments[p].order
      BY <2>1, <2>2 DEF PaymentRow
    <3> QED
      BY <1>3, <2>1, <2>2, <3>1, <3>2
  <2>3. CASE p \notin Payments
    BY <1>3, <2>1, <2>3
  <2> QED
    BY <2>2, <2>3
<1>5. TypeOK'
  BY <1>1, <1>2, <1>3, <1>4 DEF TypeOK
<1>6. PaymentsKept /\ OrdersKept
  BY <1>3, <1>4 DEF PaymentsKept, OrdersKept
<1>7. RequestsKnown'
  BY <1>1, <1>3, <1>6 DEF RequestsKnown, PaymentsKept
<1> QED
  BY <1>5, <1>6, <1>7, BookStutters, PaymentsStayKnown

\* What settling does to the rows, whoever asks for it: a payment that is PENDING is
\* closed with its entry, another is left alone.
LEMMA SettleRows ==
  ASSUME SettlementInv, NEW p \in Payments, NEW status \in {"PAID", "FAILED"},
         NEW n \in Nat, UNCHANGED orders,
         IF payments[p].status = "PENDING" THEN Settled(p, status, n)
         ELSE UNCHANGED <<payments, posted>>
  PROVE  /\ payments' \in [Payments -> PaymentRow] /\ posted' \in [Payments -> Seq(Nat)]
         /\ \A u \in Payments : payments[u].status # "absent" =>
              payments'[u].status # "absent" /\ payments'[u].order = payments[u].order
         /\ PaymentsKnown' /\ BookStep
<1> USE DEF SettlementInv
<1>1. CASE payments[p].status # "PENDING"
  BY <1>1, RowsUnchanged DEF TypeOK
<1>2. CASE payments[p].status = "PENDING"
  <2>1. /\ payments' \in [Payments -> PaymentRow] /\ posted' \in [Payments -> Seq(Nat)]
    BY <1>2, SettledType
  <2>2. payments \in [Payments -> PaymentRow] /\ posted \in [Payments -> Seq(Nat)]
    BY DEF TypeOK
  <2>3. payments' = [payments EXCEPT ![p].status = status]
    BY <1>2 DEF Settled
  <2>4. /\ payments'[p].status = status /\ payments'[p].order = payments[p].order
        /\ \A u \in Payments : u # p => payments'[u] = payments[u]
    BY <2>2, <2>3 DEF PaymentRow
  <2>5. PaymentsKnown'
    BY <1>2, <2>4 DEF PaymentsKnown
  <2>6. Book!Close(p, status)
    <3>1. [u \in Payments |-> payments'[u].status] =
            [[u \in Payments |-> payments[u].status] EXCEPT ![p] = status]
      BY <2>4
    <3>2. [u \in Payments |-> payments'[u].order] = [u \in Payments |-> payments[u].order]
      BY <2>4
    <3>3. CASE status = "PAID" /\ payments[p].order \in AccountOrders
      <4>1. posted' = [posted EXCEPT ![p] = Append(posted[p], n)]
        BY <1>2, <3>3 DEF Settled
      <4>2. Len(Append(posted[p], n)) = Len(posted[p]) + 1
        BY <2>2
      <4>3. [u \in Payments |-> Len(posted'[u])] =
              [[u \in Payments |-> Len(posted[u])] EXCEPT ![p] = Len(posted[p]) + 1]
        BY <2>2, <4>1, <4>2
      <4> QED
        BY <1>2, <3>1, <3>2, <3>3, <4>3 DEF Book!Close
    <3>4. CASE ~(status = "PAID" /\ payments[p].order \in AccountOrders)
      <4>1. posted' = posted
        BY <1>2, <3>4 DEF Settled
      <4> QED
        BY <1>2, <3>1, <3>2, <3>4, <4>1 DEF Book!Close
    <3> QED
      BY <3>3, <3>4
  <2> QED
    BY <2>1, <2>4, <2>5, <2>6, <1>2 DEF BookStep, Book!Next
<1> QED
  BY <1>1, <1>2

\* An employee confirms a payment.
LEMMA CommitConfirmStep ==
  ASSUME SettlementInv, NEW s \in Staff, CommitConfirm(s)
  PROVE  TypeOK' /\ RequestsKnown' /\ PaymentsKnown' /\ BookStep
<1> USE DEF SettlementInv
<1>1. PICK p \in Payments, n \in Nat : p = staff[s].payment /\ n = staff[s].amount
  BY DEF CommitConfirm, RequestsKnown, TypeOK, StaffRequest
<1>2. /\ UNCHANGED <<orders, ledger, provider, flagged, moderator, buyer, hook>>
      /\ IF payments[p].status = "PENDING" THEN Settled(p, "PAID", n)
         ELSE UNCHANGED <<payments, posted>>
      /\ staff' = [staff EXCEPT ![s] = IdleStaff]
  BY <1>1 DEF CommitConfirm
<1>3. /\ payments' \in [Payments -> PaymentRow] /\ posted' \in [Payments -> Seq(Nat)]
      /\ \A u \in Payments : payments[u].status # "absent" =>
           payments'[u].status # "absent" /\ payments'[u].order = payments[u].order
      /\ PaymentsKnown' /\ BookStep
  BY <1>2, SettleRows
<1>4. IdleStaff \in StaffRequest /\ IdleStaff.pc = "idle"
  BY DEF IdleStaff, StaffRequest
<1>5. TypeOK'
  BY <1>2, <1>3, <1>4 DEF TypeOK
<1>6. RequestsKnown'
  BY <1>2, <1>3, <1>4 DEF RequestsKnown, TypeOK
<1> QED
  BY <1>3, <1>5, <1>6

\* A webhook settles.
LEMMA CommitWebhookStep ==
  ASSUME SettlementInv, NEW h \in Hooks, CommitWebhook(h)
  PROVE  TypeOK' /\ RequestsKnown' /\ PaymentsKnown' /\ BookStep
<1> USE DEF SettlementInv
<1>1. PICK p \in Payments, e \in Event, n \in Nat :
        p = hook[h].payment /\ e = hook[h].event /\ n = hook[h].amount
  BY DEF CommitWebhook, RequestsKnown, TypeOK, HookRequest
<1>2. /\ UNCHANGED <<orders, ledger, flagged, staff, moderator, buyer>>
      /\ IF payments[p].status = "PENDING" THEN Settled(p, e, n)
         ELSE UNCHANGED <<payments, posted>>
      /\ provider' = [provider EXCEPT ![p].acked = provider[p].acked \cup {e}]
      /\ hook' = [hook EXCEPT ![h] = IdleHook]
  BY <1>1 DEF CommitWebhook, Acknowledge
<1>3. /\ payments' \in [Payments -> PaymentRow] /\ posted' \in [Payments -> Seq(Nat)]
      /\ \A u \in Payments : payments[u].status # "absent" =>
           payments'[u].status # "absent" /\ payments'[u].order = payments[u].order
      /\ PaymentsKnown' /\ BookStep
  BY <1>2, SettleRows
<1>4. IdleHook \in HookRequest /\ IdleHook.pc = "idle"
  BY DEF IdleHook, HookRequest
<1>5. provider' \in [Payments -> Intent]
  BY <1>2 DEF TypeOK, Intent
<1>6. TypeOK'
  BY <1>2, <1>3, <1>4, <1>5 DEF TypeOK
<1>7. RequestsKnown'
  BY <1>2, <1>3, <1>4 DEF RequestsKnown, TypeOK
<1> QED
  BY <1>3, <1>6, <1>7

\* What a webhook reads, and what the provider does.
LEMMA ProviderStep ==
  ASSUME SettlementInv, NEW p \in Payments,
         \/ \E h \in Hooks, e \in Event : ReadForWebhook(h, p, e)
         \/ ProviderPays(p) \/ ProviderFails(p)
  PROVE  TypeOK' /\ RequestsKnown' /\ PaymentsKnown' /\ BookStep
<1> USE DEF SettlementInv
<1>1. UNCHANGED <<orders, payments, ledger, posted, staff, moderator, buyer>>
  BY DEF ReadForWebhook, ProviderPays, ProviderFails, requests
<1>2. /\ provider' \in [Payments -> Intent] /\ flagged' \subseteq Payments
      /\ hook' = hook \/ \E h \in Hooks, r \in HookRequest :
                           hook' = [hook EXCEPT ![h] = r] /\ r.payment \in Payments
  <2>1. ASSUME NEW h \in Hooks, NEW e \in Event, ReadForWebhook(h, p, e)
        PROVE  /\ provider' \in [Payments -> Intent] /\ flagged' \subseteq Payments
               /\ hook' = hook \/ \E r \in HookRequest :
                                    hook' = [hook EXCEPT ![h] = r] /\ r.payment \in Payments
    <3>1. \/ Acknowledge(p, e) /\ UNCHANGED hook
             /\ (flagged' = flagged \/ flagged' = flagged \cup {p})
          \/ /\ hook' = [hook EXCEPT ![h] = [pc |-> "settling", payment |-> p,
                                             event |-> e, amount |-> payments[p].amount]]
             /\ UNCHANGED <<provider, flagged>>
      BY <2>1 DEF ReadForWebhook
    <3>2. CASE Acknowledge(p, e) /\ UNCHANGED hook
               /\ (flagged' = flagged \/ flagged' = flagged \cup {p})
      BY <3>2 DEF Acknowledge, TypeOK, Intent
    <3>3. CASE /\ hook' = [hook EXCEPT ![h] = [pc |-> "settling", payment |-> p,
                                               event |-> e, amount |-> payments[p].amount]]
               /\ UNCHANGED <<provider, flagged>>
      <4>1. [pc |-> "settling", payment |-> p, event |-> e, amount |-> payments[p].amount]
              \in HookRequest
        BY DEF TypeOK, PaymentRow, HookRequest
      <4> QED
        BY <3>3, <4>1 DEF TypeOK
    <3> QED
      BY <3>1, <3>2, <3>3
  <2>2. CASE ProviderPays(p) \/ ProviderFails(p)
    <3>1. UNCHANGED <<flagged, hook>>
      BY <2>2 DEF ProviderPays, ProviderFails, requests
    <3>2. \E e \in Event : provider' = [provider EXCEPT ![p].sent = provider[p].sent \cup {e}]
      BY <2>2 DEF ProviderPays, ProviderFails
    <3>3. provider' \in [Payments -> Intent]
      <4>1. \A e \in Event : provider[p].sent \cup {e} \in SUBSET Event
        BY DEF TypeOK, Intent
      <4> QED
        BY <3>2, <4>1 DEF TypeOK, Intent
    <3> QED
      BY <3>1, <3>3 DEF TypeOK
  <2> QED
    BY <2>1, <2>2
<1>3. TypeOK'
  BY <1>1, <1>2 DEF TypeOK
<1>4. RequestsKnown'
  BY <1>1, <1>2 DEF RequestsKnown, TypeOK
<1> QED
  BY <1>1, <1>3, <1>4, RowsUnchanged

\* A request that dies forgets what it read.
LEMMA CrashStep ==
  ASSUME SettlementInv, Crash
  PROVE  TypeOK' /\ RequestsKnown' /\ PaymentsKnown' /\ BookStep
<1> USE DEF SettlementInv
<1>1. /\ IdleStaff \in StaffRequest /\ IdleStaff.pc = "idle"
      /\ IdleModerator \in ModeratorRequest /\ IdleModerator.pc = "idle"
      /\ IdleBuyer \in BuyerRequest /\ IdleBuyer.pc = "idle"
      /\ IdleHook \in HookRequest /\ IdleHook.pc = "idle"
  BY DEF IdleStaff, StaffRequest, IdleModerator, ModeratorRequest,
         IdleBuyer, BuyerRequest, IdleHook, HookRequest
<1>2. /\ UNCHANGED <<orders, payments, ledger, posted, provider, flagged>>
      /\ staff' = staff \/ \E s \in Staff : staff' = [staff EXCEPT ![s] = IdleStaff]
      /\ \/ moderator' = moderator
         \/ \E m \in Moderators : moderator' = [moderator EXCEPT ![m] = IdleModerator]
      /\ buyer' = buyer \/ \E b \in Buyers : buyer' = [buyer EXCEPT ![b] = IdleBuyer]
      /\ hook' = hook \/ \E h \in Hooks : hook' = [hook EXCEPT ![h] = IdleHook]
  BY DEF Crash
<1>3. TypeOK'
  BY <1>1, <1>2 DEF TypeOK
<1>4. RequestsKnown'
  BY <1>1, <1>2 DEF RequestsKnown, TypeOK
<1> QED
  BY <1>2, <1>3, <1>4, RowsUnchanged

-----------------------------------------------------------------------------
(* The specification                                                       *)

\* Nothing is there at the start.
LEMMA SettlementInitInv == Init => SettlementInv /\ Book!Init
<1> SUFFICES ASSUME Init PROVE SettlementInv /\ Book!Init
  OBVIOUS
<1> USE SettlementAssumption DEF Init
<1>1. /\ IdleStaff \in StaffRequest /\ IdleModerator \in ModeratorRequest
      /\ IdleBuyer \in BuyerRequest /\ IdleHook \in HookRequest /\ Absent \in PaymentRow
  BY DEF IdleStaff, StaffRequest, IdleModerator, ModeratorRequest,
         IdleBuyer, BuyerRequest, IdleHook, HookRequest, Absent, PaymentRow
<1>2. TypeOK
  BY <1>1 DEF TypeOK, Order, Account, Intent
<1>3. RequestsKnown
  BY DEF RequestsKnown, IdleStaff, IdleModerator, IdleBuyer, IdleHook
<1>4. PaymentsKnown /\ OneOpen /\ SettledOnce
  BY DEF PaymentsKnown, OneOpen, SettledOnce, Absent
<1>5. Book!Init
  BY DEF Book!Init, Absent
<1> QED
  BY <1>2, <1>3, <1>4, <1>5 DEF SettlementInv

\* The ways of delivery are of the types the actions take.
LEMMA DeliveryTypes ==
  \A d \in Routes \cup {Pickup, Unpriced} : d.delivery \in BOOLEAN /\ d.price \in Nat
<1>1. \A d \in Routes : \E n \in DeliveryPrices : d = [delivery |-> TRUE, price |-> n]
  BY DEF Routes
<1>2. DeliveryPrices \subseteq Nat
  BY SettlementAssumption
<1>3. \A d \in Routes : d.delivery \in BOOLEAN /\ d.price \in Nat
  <2> SUFFICES ASSUME NEW d \in Routes PROVE d.delivery \in BOOLEAN /\ d.price \in Nat
    OBVIOUS
  <2>1. PICK n \in DeliveryPrices : d = [delivery |-> TRUE, price |-> n]
    BY <1>1
  <2> QED
    BY <1>2, <2>1
<1>4. /\ Pickup.delivery \in BOOLEAN /\ Pickup.price \in Nat
      /\ Unpriced.delivery \in BOOLEAN /\ Unpriced.price \in Nat
  BY DEF Pickup, Unpriced
<1> QED
  BY <1>3, <1>4

\* Every step keeps what the rows and requests know, and is a step of the book.
LEMMA SettlementRowsStep ==
  ASSUME SettlementInv, [Next]_vars
  PROVE  TypeOK' /\ RequestsKnown' /\ PaymentsKnown' /\ BookStep
<1> DEFINE Kept == TypeOK' /\ RequestsKnown' /\ PaymentsKnown' /\ BookStep
<1>1. ASSUME NEW o \in Orders, NEW d \in Routes \cup {Pickup, Unpriced},
             NEW method \in PaymentMethod, PlaceOrder(o, d.delivery, d.price, method)
      PROVE  Kept
  <2>1. d.delivery \in BOOLEAN /\ d.price \in Nat
    BY DeliveryTypes
  <2> QED
    BY <1>1, <2>1, PlaceOrderStep
<1>2. ASSUME NEW s \in Staff, StaffStep(s) PROVE Kept
  BY <1>2, StaffReads, CommitStatusStep, CommitConfirmStep DEF StaffStep
<1>3. ASSUME NEW m \in Moderators, ModeratorStep(m) PROVE Kept
  <2>1. ASSUME NEW d \in Routes \cup {Pickup}, CommitDelivery(m, d.delivery, d.price)
        PROVE  Kept
    <3>1. d.delivery \in BOOLEAN /\ d.price \in Nat
      BY DeliveryTypes
    <3> QED
      BY <2>1, <3>1, CommitDeliveryStep
  <2> QED
    BY <1>3, <2>1, ModeratorReads DEF ModeratorStep
<1>4. ASSUME NEW b \in Buyers, BuyerStep(b) PROVE Kept
  BY <1>4, BuyerReads, PrepareOldStep, PrepareNewStep, ProviderCallStep DEF BuyerStep
<1>5. ASSUME NEW h \in Hooks, HookStep(h) PROVE Kept
  BY <1>5, ProviderStep, CommitWebhookStep DEF HookStep
<1>6. ASSUME NEW p \in Payments, ProviderPays(p) \/ ProviderFails(p) PROVE Kept
  BY <1>6, ProviderStep
<1>7. CASE Crash
  BY <1>7, CrashStep
<1>8. CASE UNCHANGED vars
  <2>1. TypeOK' /\ RequestsKnown'
    BY <1>8 DEF vars, SettlementInv, TypeOK, RequestsKnown
  <2> QED
    BY <1>8, <2>1, RowsUnchanged DEF vars
<1> QED
  BY <1>1, <1>2, <1>3, <1>4, <1>5, <1>6, <1>7, <1>8 DEF Next

\* What the book promises is kept by its steps.
LEMMA BookPromises ==
  ASSUME SettlementInv, TypeOK', BookStep
  PROVE  OneOpen' /\ SettledOnce'
<1> USE DEF SettlementInv
<1> DEFINE st == [p \in Payments |-> payments[p].status]
           ow == [p \in Payments |-> payments[p].order]
           en == [p \in Payments |-> Len(posted[p])]
           One(s, w) == \A p, q \in Payments :
             s[p] = "PENDING" /\ s[q] = "PENDING" /\ w[p] = w[q] => p = q
           Once(s, w, e) == \A p \in Payments :
             e[p] = IF s[p] = "PAID" /\ w[p] \in AccountOrders THEN 1 ELSE 0
<1>1. One(st, ow) /\ Once(st, ow, en)
  BY DEF OneOpen, SettledOnce
<1>2. /\ st \in [Payments -> {"absent", "PENDING", "PAID", "FAILED", "CANCELLED"}]
      /\ ow \in [Payments -> Orders \cup {NoOrder}]
      /\ en \in [Payments -> Nat]
  BY DEF TypeOK, PaymentRow
<1>3. ASSUME One(st', ow'), Once(st', ow', en') PROVE OneOpen' /\ SettledOnce'
  BY <1>3 DEF OneOpen, SettledOnce
<1>4. CASE UNCHANGED Book!bookVars
  <2>1. st' = st /\ ow' = ow /\ en' = en
    BY <1>4 DEF Book!bookVars
  <2> HIDE DEF st, ow, en
  <2> QED
    BY <1>1, <1>3, <2>1
<1>5. ASSUME NEW p \in Payments, NEW o \in Orders, Book!Open(p, o)
      PROVE  One(st', ow') /\ Once(st', ow', en')
  <2>1. /\ st[p] = "absent" /\ ~\E q \in Payments : ow[q] = o /\ st[q] = "PENDING"
        /\ st' = [st EXCEPT ![p] = "PENDING"]
        /\ ow' = [ow EXCEPT ![p] = o] /\ en' = en
    BY <1>5 DEF Book!Open, Book!HasOpen
  <2> HIDE DEF st, ow, en
  <2> QED
    BY <1>1, <1>2, <2>1
<1>6. ASSUME NEW p \in Payments, NEW q \in Payments, Book!Replace(p, q)
      PROVE  One(st', ow') /\ Once(st', ow', en')
  <2>1. /\ st[p] = "PENDING" /\ st[q] = "absent"
        /\ st' = [st EXCEPT ![p] = "CANCELLED", ![q] = "PENDING"]
        /\ ow' = [ow EXCEPT ![q] = ow[p]] /\ en' = en
    BY <1>6 DEF Book!Replace
  <2> HIDE DEF st, ow, en
  <2> QED
    BY <1>1, <1>2, <2>1
<1>7. ASSUME NEW p \in Payments, NEW end \in {"PAID", "FAILED", "CANCELLED"},
             Book!Close(p, end)
      PROVE  One(st', ow') /\ Once(st', ow', en')
  <2>1. /\ st[p] = "PENDING" /\ st' = [st EXCEPT ![p] = end] /\ ow' = ow
        /\ en' = IF end = "PAID" /\ ow[p] \in AccountOrders
                 THEN [en EXCEPT ![p] = en[p] + 1] ELSE en
    BY <1>7 DEF Book!Close
  <2> HIDE DEF st, ow, en
  <2> QED
    BY <1>1, <1>2, <2>1
<1>8. CASE Book!Next
  BY <1>3, <1>5, <1>6, <1>7, <1>8 DEF Book!Next
<1> QED
  BY <1>4, <1>8 DEF BookStep

\* Every step keeps the invariant and is a step of the book, or changes no payment.
LEMMA SettlementStep == SettlementInv /\ [Next]_vars => SettlementInv' /\ BookStep
  BY SettlementRowsStep, BookPromises DEF SettlementInv

\* The inductive invariant: requests in flight agree with the rows they read.
THEOREM SettlementInvariant == Spec => []SettlementInv
<1>1. Init => SettlementInv
  BY SettlementInitInv
<1>2. SettlementInv /\ [Next]_vars => SettlementInv'
  BY SettlementStep
<1> QED
  BY <1>1, <1>2, PTL DEF Spec

\* Rows and requests keep their types, and an account's entries their signs, in
\* every race of placements, changes, payments and webhooks.
THEOREM SettlementTypes == Spec => []TypeOK
<1>1. SettlementInv => TypeOK
  BY DEF SettlementInv
<1> QED
  BY <1>1, SettlementInvariant, PTL

\* Each PAID payment of a customer is credited once, however many webhooks, repeats
\* and confirmations race (PaymentSettlementService.settle).
THEOREM CreditedOnce == Spec => []SettledOnce
<1>1. SettlementInv => SettledOnce
  BY DEF SettlementInv
<1> QED
  BY <1>1, SettlementInvariant, PTL

\* The handlers, with their reads and writes apart, implement the atomic book of
\* payments.
THEOREM PaymentsImplementBook == Spec => ImplementsPaymentBook
<1>1. Init => Book!Init
  BY SettlementInitInv
<1>2. SettlementInv /\ [Next]_vars => [Book!Next]_Book!bookVars
  BY SettlementStep DEF BookStep
<1> QED
  BY <1>1, <1>2, SettlementInvariant, PTL DEF Spec, ImplementsPaymentBook, Book!Spec

-----------------------------------------------------------------------------
(* The flow                                                                *)

FlowStep ==
  \A o \in Orders : orders[o].status # "absent" /\ orders'[o].status # orders[o].status =>
    \/ canTransition(orders[o].status, orders'[o].status, TRUE)
    \/ canTransition(orders[o].status, orders'[o].status, FALSE)

\* Which actions write orders, the account or the moderators' requests.
LEMMA OrderWriters ==
  ASSUME [Next]_vars
  PROVE  \/ \E o \in Orders, d \in Routes \cup {Pickup, Unpriced}, method \in PaymentMethod :
              PlaceOrder(o, d.delivery, d.price, method)
         \/ \E s \in Staff : CommitStatus(s)
         \/ \E m \in Moderators, o \in Orders : ReadDelivery(m, o)
         \/ \E m \in Moderators, d \in Routes \cup {Pickup} :
              CommitDelivery(m, d.delivery, d.price)
         \/ /\ UNCHANGED <<orders, ledger>>
            /\ \/ moderator' = moderator
               \/ \E m \in Moderators : moderator' = [moderator EXCEPT ![m] = IdleModerator]
<1> DEFINE Quiet == /\ UNCHANGED <<orders, ledger>>
                    /\ \/ moderator' = moderator
                       \/ \E m \in Moderators :
                            moderator' = [moderator EXCEPT ![m] = IdleModerator]
<1>1. ASSUME NEW s \in Staff, StaffStep(s) PROVE CommitStatus(s) \/ Quiet
  BY <1>1 DEF StaffStep, ReadStatus, ReadForConfirm, CommitConfirm
<1>2. ASSUME NEW b \in Buyers, BuyerStep(b) PROVE Quiet
  BY <1>2 DEF BuyerStep, ReadForStart, PrepareSame, PrepareSwitch, PrepareNew,
              CallProvider, SaveRef
<1>3. ASSUME NEW h \in Hooks, HookStep(h) PROVE Quiet
  BY <1>3 DEF HookStep, ReadForWebhook, CommitWebhook
<1>4. ASSUME NEW p \in Payments, ProviderPays(p) \/ ProviderFails(p) PROVE Quiet
  BY <1>4 DEF ProviderPays, ProviderFails, requests
<1>5. CASE Crash \/ UNCHANGED vars
  BY <1>5 DEF Crash, vars
<1> QED
  BY <1>1, <1>2, <1>3, <1>4, <1>5 DEF Next, ModeratorStep

\* What a status change does to the order and its account.
LEMMA StatusWritten ==
  ASSUME SettlementInv, NEW s \in Staff, CommitStatus(s)
  PROVE  \E o \in Orders :
           \/ UNCHANGED <<orders, ledger>>
           \/ /\ \E d \in BOOLEAN : canTransition(orders[o].status, staff[s].to, d)
              /\ orders[o].status \in OrderStatus \ {"CANCELLED"}
              /\ staff[s].to \in OrderStatus
              /\ orders' = [orders EXCEPT ![o].status = staff[s].to]
              /\ ledger' = IF staff[s].to = "CANCELLED" /\ NetDebt(o) > 0
                           THEN Recorded(o, -NetDebt(o)) ELSE ledger
<1> USE DEF SettlementInv
<1> DEFINE o == staff[s].order
<1>1. /\ o \in Orders /\ staff[s].from \in OrderStatus /\ staff[s].to \in OrderStatus
      /\ \E d \in BOOLEAN : canTransition(staff[s].from, staff[s].to, d)
  BY DEF CommitStatus, RequestsKnown, TypeOK, StaffRequest
<1>2. staff[s].from # "CANCELLED"
  BY <1>1 DEF canTransition, allowedNextStatuses, DELIVERY_FLOW, PICKUP_FLOW
<1>3. \/ UNCHANGED <<orders, ledger>>
      \/ /\ orders[o].status = staff[s].from
         /\ orders' = [orders EXCEPT ![o].status = staff[s].to]
         /\ ledger' = IF staff[s].to = "CANCELLED" /\ NetDebt(o) > 0
                      THEN Recorded(o, -NetDebt(o)) ELSE ledger
  BY DEF CommitStatus
<1> HIDE DEF o
<1> QED
  BY <1>1, <1>2, <1>3

\* Whoever drives an order, and however stale what he read was, it moves along one of
\* the two flows (OrderStatusService.change's UPDATE repeats the status it read).
LEMMA FlowStepKept == SettlementInv /\ [Next]_vars => FlowStep
<1> SUFFICES ASSUME SettlementInv, [Next]_vars PROVE FlowStep
  OBVIOUS
<1> USE DEF SettlementInv
<1>1. ASSUME NEW o \in Orders, NEW d \in Routes \cup {Pickup, Unpriced},
             NEW method \in PaymentMethod, PlaceOrder(o, d.delivery, d.price, method)
      PROVE  FlowStep
  BY <1>1 DEF PlaceOrder, FlowStep, TypeOK
<1>2. ASSUME NEW s \in Staff, CommitStatus(s) PROVE FlowStep
  <2>1. PICK o \in Orders :
          \/ UNCHANGED orders
          \/ /\ \E d \in BOOLEAN : canTransition(orders[o].status, staff[s].to, d)
             /\ orders' = [orders EXCEPT ![o].status = staff[s].to]
    BY <1>2, StatusWritten
  <2> QED
    BY <2>1 DEF FlowStep, TypeOK, Order
<1>3. ASSUME NEW m \in Moderators, NEW o \in Orders, ReadDelivery(m, o)
      PROVE  FlowStep
  BY <1>3 DEF ReadDelivery, FlowStep
<1>4. ASSUME NEW m \in Moderators, NEW d \in Routes \cup {Pickup},
             CommitDelivery(m, d.delivery, d.price)
      PROVE  FlowStep
  <2>1. \A o \in Orders : orders'[o].status = orders[o].status
    BY <1>4 DEF CommitDelivery, TypeOK, Order
  <2> QED
    BY <2>1 DEF FlowStep
<1> QED
  BY <1>1, <1>2, <1>3, <1>4, OrderWriters DEF FlowStep

-----------------------------------------------------------------------------
(* The account, while one moderator changes deliveries at a time            *)

OneModerator == \A m, n \in Moderators : m = n

\* An order not placed yet has no entries.
DebtUnplaced ==
  \A o \in AccountOrders : orders[o].status = "absent" => Owed(o) = 0

\* The total a moderator read is still the order's.
ModeratorCurrent ==
  \A m \in Moderators : moderator[m].pc = "pricing" =>
    moderator[m].grandTotal = orders[moderator[m].order].grandTotal

DebtInv == SettlementInv /\ DebtMatchesTotal /\ DebtUnplaced /\ ModeratorCurrent

CancelStep ==
  \A o \in AccountOrders :
    orders[o].status # "CANCELLED" /\ orders'[o].status = "CANCELLED" => Owed(o)' = 0

\* An entry adds its amount to what its order owes, and to nothing else.
LEMMA RecordedSum ==
  ASSUME TypeOK, NEW o \in Orders, NEW n \in Int, ledger' = Recorded(o, n)
  PROVE  /\ o \in AccountOrders => Owed(o)' = Owed(o) + n
         /\ \A q \in AccountOrders : q # o => Owed(q)' = Owed(q)
<1>1. /\ ledger[o].debt \in Int /\ ledger[o].adjustment \in Int
      /\ AccountOrders \subseteq Orders /\ ledger \in [Orders -> Account]
  BY SettlementAssumption DEF TypeOK, Account
<1>2. o \in AccountOrders =>
        \/ n > 0 /\ ledger' = [ledger EXCEPT ![o].debt = ledger[o].debt + n]
        \/ n < 0 /\ ledger' = [ledger EXCEPT ![o].adjustment = ledger[o].adjustment + n]
        \/ n = 0 /\ ledger' = ledger
  BY DEF Recorded
<1>3. o \notin AccountOrders => ledger' = ledger
  BY DEF Recorded
<1>4. \A q \in Orders : q # o => ledger'[q] = ledger[q]
  BY <1>1, <1>2, <1>3
<1>5. o \in AccountOrders =>
        \/ ledger'[o].debt = ledger[o].debt + n /\ ledger'[o].adjustment = ledger[o].adjustment
        \/ ledger'[o].debt = ledger[o].debt /\ ledger'[o].adjustment = ledger[o].adjustment + n
  BY <1>1, <1>2 DEF Account
<1> QED
  BY <1>1, <1>4, <1>5 DEF Owed

\* Each step keeps the account level with the orders' totals.
LEMMA DebtStep ==
  ASSUME OneModerator, DebtInv, [Next]_vars
  PROVE  DebtMatchesTotal' /\ DebtUnplaced' /\ ModeratorCurrent' /\ CancelStep
<1> DEFINE Level == DebtMatchesTotal' /\ DebtUnplaced' /\ ModeratorCurrent' /\ CancelStep
<1> USE DEF DebtInv, SettlementInv
<1>0. AccountOrders \subseteq Orders
  BY SettlementAssumption
<1>1. ASSUME NEW o \in Orders, NEW d \in Routes \cup {Pickup, Unpriced},
             NEW method \in PaymentMethod, PlaceOrder(o, d.delivery, d.price, method)
      PROVE  Level
  <2> DEFINE total == ItemsTotal[o] + d.price
  <2>1. total \in Int
    BY SettlementAssumption, DeliveryTypes
  <2>2. /\ orders[o].status = "absent" /\ ledger' = Recorded(o, total)
        /\ orders' = [orders EXCEPT ![o] =
             [status |-> "NEW", deliveryRequested |-> d.delivery,
              deliveryTotal |-> d.price, grandTotal |-> total]]
        /\ UNCHANGED moderator
    BY <1>1 DEF PlaceOrder, requests
  <2> HIDE DEF total
  <2>3. /\ orders'[o].status = "NEW" /\ orders'[o].grandTotal = total
        /\ \A q \in Orders : q # o => orders'[q] = orders[q]
    BY <2>2 DEF TypeOK
  <2>4. /\ o \in AccountOrders => Owed(o)' = total
        /\ \A q \in AccountOrders : q # o => Owed(q)' = Owed(q)
    BY <2>1, <2>2, RecordedSum DEF DebtUnplaced
  <2>5. DebtMatchesTotal' /\ DebtUnplaced' /\ CancelStep
    BY <1>0, <2>3, <2>4 DEF DebtMatchesTotal, DebtUnplaced, CancelStep
  <2>6. ModeratorCurrent'
    BY <2>2, <2>3 DEF ModeratorCurrent, RequestsKnown
  <2> QED
    BY <2>5, <2>6
<1>2. ASSUME NEW s \in Staff, CommitStatus(s) PROVE Level
  <2> DEFINE to == staff[s].to
  <2>1. PICK o \in Orders :
          \/ UNCHANGED <<orders, ledger>>
          \/ /\ orders[o].status \in OrderStatus \ {"CANCELLED"}
             /\ to \in OrderStatus
             /\ orders' = [orders EXCEPT ![o].status = to]
             /\ ledger' = IF to = "CANCELLED" /\ NetDebt(o) > 0
                          THEN Recorded(o, -NetDebt(o)) ELSE ledger
    BY <1>2, StatusWritten
  <2>2. UNCHANGED moderator
    BY <1>2 DEF CommitStatus
  <2> HIDE DEF to
  <2>3. CASE UNCHANGED <<orders, ledger>>
    BY <2>2, <2>3 DEF DebtMatchesTotal, DebtUnplaced, ModeratorCurrent, CancelStep, Owed
  <2>4. CASE /\ orders[o].status \in OrderStatus \ {"CANCELLED"}
             /\ to \in OrderStatus
             /\ orders' = [orders EXCEPT ![o].status = to]
             /\ ledger' = IF to = "CANCELLED" /\ NetDebt(o) > 0
                          THEN Recorded(o, -NetDebt(o)) ELSE ledger
    <3>1. /\ orders'[o].status = to /\ orders'[o].grandTotal = orders[o].grandTotal
          /\ \A q \in Orders : q # o => orders'[q] = orders[q]
      BY <2>4 DEF TypeOK, Order
    <3>2. Owed(o) \in Int /\ NetDebt(o) = Owed(o) /\ orders[o].grandTotal \in Nat
      BY DEF Owed, NetDebt, TypeOK, Account, Order
    <3>3. \A q \in AccountOrders : q # o => Owed(q)' = Owed(q)
      BY <2>4, <3>2, RecordedSum DEF Owed
    <3>4. o \in AccountOrders => Owed(o)' = IF to = "CANCELLED" THEN 0 ELSE Owed(o)
      <4> SUFFICES ASSUME o \in AccountOrders
                   PROVE  Owed(o)' = IF to = "CANCELLED" THEN 0 ELSE Owed(o)
        OBVIOUS
      <4>1. Owed(o) = orders[o].grandTotal
        BY <2>4 DEF DebtMatchesTotal
      <4>2. CASE to = "CANCELLED" /\ NetDebt(o) > 0
        BY <2>4, <3>2, <4>2, RecordedSum
      <4>3. CASE ~(to = "CANCELLED" /\ NetDebt(o) > 0)
        <5>1. ledger' = ledger
          BY <2>4, <4>3
        <5>2. Owed(o)' = Owed(o)
          BY <5>1 DEF Owed
        <5> QED
          BY <3>2, <4>1, <4>3, <5>2
      <4> QED
        BY <4>2, <4>3
    <3>5. DebtMatchesTotal' /\ DebtUnplaced' /\ CancelStep
      BY <1>0, <2>4, <3>1, <3>3, <3>4 DEF DebtMatchesTotal, DebtUnplaced, CancelStep
    <3>6. ModeratorCurrent'
      BY <2>2, <3>1 DEF ModeratorCurrent, RequestsKnown
    <3> QED
      BY <3>5, <3>6
  <2> QED
    BY <2>1, <2>3, <2>4
<1>3. ASSUME NEW m \in Moderators, NEW o \in Orders, ReadDelivery(m, o) PROVE Level
  <2>1. /\ UNCHANGED <<orders, ledger>>
        /\ moderator' = [moderator EXCEPT ![m] =
             [pc |-> "pricing", order |-> o, grandTotal |-> orders[o].grandTotal]]
    BY <1>3 DEF ReadDelivery
  <2>2. DebtMatchesTotal' /\ DebtUnplaced' /\ CancelStep
    BY <2>1 DEF DebtMatchesTotal, DebtUnplaced, CancelStep, Owed
  <2>3. ModeratorCurrent'
    BY <2>1 DEF ModeratorCurrent, TypeOK
  <2> QED
    BY <2>2, <2>3
<1>4. ASSUME NEW m \in Moderators, NEW d \in Routes \cup {Pickup},
             CommitDelivery(m, d.delivery, d.price)
      PROVE  Level
  <2>1. PICK o \in Orders : o = moderator[m].order
    BY <1>4 DEF CommitDelivery, RequestsKnown
  <2>2. /\ orders[o].status # "absent"
        /\ moderator[m].grandTotal = orders[o].grandTotal
        /\ orders[o].grandTotal \in Nat
    BY <1>4, <2>1 DEF CommitDelivery, RequestsKnown, ModeratorCurrent, TypeOK, Order
  <2>3. PICK total \in Int : total = ItemsTotal[o] + d.price
    BY SettlementAssumption, DeliveryTypes
  <2>4. PICK delta \in Int : delta = total - orders[o].grandTotal
    BY <2>2
  <2>5. /\ orders' = [orders EXCEPT ![o] =
             [orders[o] EXCEPT !.deliveryRequested = d.delivery,
                               !.deliveryTotal = d.price, !.grandTotal = total]]
        /\ ledger' = Recorded(o, delta)
        /\ moderator' = [moderator EXCEPT ![m] = IdleModerator]
    BY <1>4, <2>1, <2>2, <2>3, <2>4 DEF CommitDelivery
  <2>6. /\ orders'[o].status = orders[o].status /\ orders'[o].grandTotal = total
        /\ \A q \in Orders : q # o => orders'[q] = orders[q]
    BY <2>5 DEF TypeOK, Order
  <2>7. /\ o \in AccountOrders => Owed(o)' = Owed(o) + delta
        /\ \A q \in AccountOrders : q # o => Owed(q)' = Owed(q)
    BY <2>5, RecordedSum
  <2>8. DebtMatchesTotal' /\ DebtUnplaced' /\ CancelStep
    BY <1>0, <2>2, <2>4, <2>6, <2>7 DEF DebtMatchesTotal, DebtUnplaced, CancelStep
  <2>9. ModeratorCurrent'
    <3>1. IdleModerator.pc = "idle"
      BY DEF IdleModerator
    <3> QED
      BY <2>5, <3>1 DEF OneModerator, ModeratorCurrent, TypeOK
  <2> QED
    BY <2>8, <2>9
<1>5. CASE /\ UNCHANGED <<orders, ledger>>
           /\ \/ moderator' = moderator
              \/ \E m \in Moderators : moderator' = [moderator EXCEPT ![m] = IdleModerator]
  <2>1. DebtMatchesTotal' /\ DebtUnplaced' /\ CancelStep
    BY <1>5 DEF DebtMatchesTotal, DebtUnplaced, CancelStep, Owed
  <2>2. ModeratorCurrent'
    <3>1. IdleModerator.pc = "idle"
      BY DEF IdleModerator
    <3>2. \A m \in Moderators : moderator'[m] = moderator[m] \/ moderator'[m].pc = "idle"
      BY <1>5, <3>1 DEF TypeOK
    <3> QED
      BY <1>5, <3>2 DEF ModeratorCurrent
  <2> QED
    BY <2>1, <2>2
<1> QED
  BY <1>1, <1>2, <1>3, <1>4, <1>5, OrderWriters

\* At the start nothing is owed.
LEMMA DebtInit == Init => DebtInv
<1> SUFFICES ASSUME Init PROVE DebtInv
  OBVIOUS
<1>1. DebtMatchesTotal /\ DebtUnplaced /\ ModeratorCurrent
  BY SettlementAssumption
     DEF Init, DebtMatchesTotal, DebtUnplaced, ModeratorCurrent, Owed, IdleModerator
<1> QED
  BY <1>1, SettlementInitInv DEF DebtInv

\* With one delivery change in flight at a time the account owes, for an order that
\* stands, exactly its total: through changes, cancellations and crashes.
THEOREM DebtFollowsTotal ==
  ASSUME OneModerator PROVE Spec => []DebtMatchesTotal
<1>1. Init => DebtInv
  BY DebtInit
<1>2. DebtInv /\ [Next]_vars => DebtInv'
  BY OneModerator, DebtStep, SettlementStep DEF DebtInv
<1>3. DebtInv => DebtMatchesTotal
  BY DEF DebtInv
<1> QED
  BY <1>1, <1>2, <1>3, PTL DEF Spec

\* Under the same assumption a cancellation leaves nothing owed, whatever delivery
\* changes came before it.
THEOREM CancellationReverses ==
  ASSUME OneModerator PROVE Spec => CancelReversesDebt
<1>1. Init => DebtInv
  BY DebtInit
<1>2. DebtInv /\ [Next]_vars => DebtInv' /\ [CancelStep]_vars
  BY OneModerator, DebtStep, SettlementStep DEF DebtInv
<1> QED
  BY <1>1, <1>2, PTL DEF Spec, CancelReversesDebt, CancelStep

-----------------------------------------------------------------------------
(* What the findings need                                                  *)

(***************************************************************************)
(* Four promises of the code's own words do not hold (README, section 7).  *)
(* Each holds of every behaviour that leaves out one kind of step, so the  *)
(* race TLC shows is the only way to break it.                             *)
(***************************************************************************)

\* An order searches transport, or a request that is to send it there has read it.
Searching(o) ==
  \/ orders[o].status = "SEARCHING_TRANSPORT"
  \/ \E s \in Staff : /\ staff[s].pc = "changing" /\ staff[s].order = o
                      /\ staff[s].to = "SEARCHING_TRANSPORT"

\* No delivery change makes such an order one the buyer picks up.
DeliveriesStay ==
  \A o \in Orders : Searching(o) /\ orders[o].deliveryRequested =>
    orders'[o].deliveryRequested

SearchInv ==
  SettlementInv /\ \A o \in Orders : Searching(o) => orders[o].deliveryRequested

\* The employees' requests: as they were, done, or reading.
LEMMA StaffWriters ==
  ASSUME SettlementInv, [Next]_vars, NEW s \in Staff
  PROVE  \/ staff'[s] = staff[s] \/ staff'[s] = IdleStaff
         \/ \E o \in Orders, to \in OrderStatus : ReadStatus(s, o, to)
         \/ \E p \in Payments : ReadForConfirm(s, p)
<1> DEFINE Quiet == staff'[s] = staff[s] \/ staff'[s] = IdleStaff
<1>1. staff \in [Staff -> StaffRequest]
  BY DEF SettlementInv, TypeOK
<1>2. ASSUME NEW r \in Staff, StaffStep(r)
      PROVE  \/ Quiet
             \/ \E o \in Orders, to \in OrderStatus : ReadStatus(s, o, to)
             \/ \E p \in Payments : ReadForConfirm(s, p)
  <2>1. CASE r = s
    BY <1>1, <1>2, <2>1 DEF StaffStep, CommitStatus, CommitConfirm
  <2>2. CASE r # s
    <3>1. \E x : staff' = [staff EXCEPT ![r] = x]
      BY <1>2 DEF StaffStep, ReadStatus, ReadForConfirm, CommitStatus, CommitConfirm
    <3> QED
      BY <1>1, <2>2, <3>1
  <2> QED
    BY <2>1, <2>2
<1>3. CASE \E t \in Staff : staff' = [staff EXCEPT ![t] = IdleStaff]
  BY <1>1, <1>3
<1>4. CASE UNCHANGED staff
  BY <1>4
<1>5. \/ \E r \in Staff : StaffStep(r)
      \/ UNCHANGED staff
      \/ \E t \in Staff : staff' = [staff EXCEPT ![t] = IdleStaff]
  BY DEF Next, vars, PlaceOrder, requests, ModeratorStep, ReadDelivery, CommitDelivery,
     BuyerStep, ReadForStart, PrepareSame, PrepareSwitch, PrepareNew, CallProvider, SaveRef,
     HookStep, ReadForWebhook, CommitWebhook, ProviderPays, ProviderFails, Crash
<1> QED
  BY <1>2, <1>3, <1>4, <1>5

\* A request that is to change a status has just read it, with the order's flow.
LEMMA ChangeRead ==
  ASSUME SettlementInv, [Next]_vars, NEW s \in Staff,
         staff'[s] # staff[s], staff'[s].pc = "changing"
  PROVE  \E o \in Orders, to \in OrderStatus :
           /\ UNCHANGED orders
           /\ orders[o].status # "absent"
           /\ canTransition(orders[o].status, to, orders[o].deliveryRequested)
           /\ staff'[s].order = o /\ staff'[s].from = orders[o].status /\ staff'[s].to = to
<1>1. PICK u \in Orders, to \in OrderStatus : ReadStatus(s, u, to)
  <2>1. IdleStaff.pc = "idle"
    BY DEF IdleStaff
  <2>2. ~\E p \in Payments : ReadForConfirm(s, p)
    <3> SUFFICES ASSUME NEW p \in Payments, ReadForConfirm(s, p)
                 PROVE  staff'[s].pc = "confirming"
      OBVIOUS
    <3> DEFINE r == [IdleStaff EXCEPT !.pc = "confirming", !.payment = p,
                                      !.amount = payments[p].amount]
    <3>1. staff' = [staff EXCEPT ![s] = r] /\ r.pc = "confirming"
      BY DEF ReadForConfirm, IdleStaff
    <3> HIDE DEF r
    <3> QED
      BY <3>1 DEF SettlementInv, TypeOK
  <2> QED
    BY <2>1, <2>2, StaffWriters
<1> DEFINE r == [IdleStaff EXCEPT !.pc = "changing", !.order = u,
                                  !.from = orders[u].status, !.to = to]
<1>2. r.order = u /\ r.from = orders[u].status /\ r.to = to
  BY DEF IdleStaff
<1>3. staff'[s] = r
  BY <1>1 DEF ReadStatus, SettlementInv, TypeOK
<1> HIDE DEF r
<1> QED
  BY <1>1, <1>2, <1>3 DEF ReadStatus

\* A status comes of the request that was to write it.
LEMMA StatusWriters ==
  ASSUME SettlementInv, [Next]_vars, NEW o \in Orders,
         orders'[o].status = "SEARCHING_TRANSPORT"
  PROVE  Searching(o)
<1> SUFFICES ASSUME orders'[o].status # orders[o].status PROVE Searching(o)
  BY DEF Searching
<1> USE DEF SettlementInv
<1>1. ASSUME NEW u \in Orders, NEW d \in Routes \cup {Pickup, Unpriced},
             NEW method \in PaymentMethod, PlaceOrder(u, d.delivery, d.price, method)
      PROVE  FALSE
  BY <1>1 DEF PlaceOrder, TypeOK
<1>2. ASSUME NEW s \in Staff, CommitStatus(s) PROVE Searching(o)
  <2>1. orders' = orders \/ orders' = [orders EXCEPT ![staff[s].order].status = staff[s].to]
    BY <1>2 DEF CommitStatus
  <2>2. staff[s].order \in Orders
    BY <1>2 DEF CommitStatus, RequestsKnown
  <2>3. staff[s].order = o /\ staff[s].to = "SEARCHING_TRANSPORT"
    BY <2>1, <2>2 DEF TypeOK, Order
  <2> QED
    BY <1>2, <2>3 DEF Searching, CommitStatus
<1>3. ASSUME NEW m \in Moderators, NEW u \in Orders, ReadDelivery(m, u) PROVE FALSE
  BY <1>3 DEF ReadDelivery
<1>4. ASSUME NEW m \in Moderators, NEW d \in Routes \cup {Pickup},
             CommitDelivery(m, d.delivery, d.price)
      PROVE  FALSE
  BY <1>4 DEF CommitDelivery, TypeOK, Order
<1> QED
  BY <1>1, <1>2, <1>3, <1>4, OrderWriters

\* A status that is written was read while its order was one to deliver.
LEMMA SearchStep == SearchInv /\ [Next]_vars /\ [DeliveriesStay]_vars => SearchInv'
<1> SUFFICES ASSUME SearchInv, [Next]_vars, [DeliveriesStay]_vars,
                    NEW o \in Orders, Searching(o)'
             PROVE  orders'[o].deliveryRequested
  BY SettlementStep DEF SearchInv
<1> USE DEF SearchInv
<1>1. CASE Searching(o)
  BY <1>1 DEF DeliveriesStay, vars
<1>2. CASE ~Searching(o)
  <2>1. orders'[o].status # "SEARCHING_TRANSPORT"
    BY <1>2, StatusWriters
  <2>2. PICK s \in Staff : /\ staff'[s].pc = "changing" /\ staff'[s].order = o
                           /\ staff'[s].to = "SEARCHING_TRANSPORT"
    BY <2>1 DEF Searching
  <2>3. staff'[s] # staff[s]
    BY <1>2, <2>2 DEF Searching
  <2>4. /\ UNCHANGED orders
        /\ canTransition(orders[o].status, "SEARCHING_TRANSPORT", orders[o].deliveryRequested)
    BY <2>2, <2>3, ChangeRead
  <2>5. orders[o].status \in OrderStatus \cup {"absent"} /\ orders[o].deliveryRequested \in BOOLEAN
    BY DEF SettlementInv, TypeOK, Order
  <2>6. orders[o].status # "absent"
    BY <2>2, <2>3, ChangeRead
  <2> QED
    BY <2>4, <2>5, <2>6 DEF OrderStatus, canTransition, allowedNextStatuses, PICKUP_FLOW
<1> QED
  BY <1>1, <1>2

(***************************************************************************)
(* An order can be cancelled until it departs (order-status.ts), as long   *)
(* as no delivery change turns an order that searches transport, or is     *)
(* about to, into one to be picked up.                                     *)
(***************************************************************************)
THEOREM CancellableWhileDelivered ==
  Spec /\ [][DeliveriesStay]_vars => []CancellableUntilDeparture
<1>1. Init => SearchInv
  BY SettlementInitInv DEF Init, SearchInv, Searching, IdleStaff
<1>2. SearchInv /\ [Next]_vars /\ [DeliveriesStay]_vars => SearchInv'
  BY SearchStep
<1>3. SearchInv => CancellableUntilDeparture
  BY DEF SearchInv, SettlementInv, TypeOK, Order, Searching, CancellableUntilDeparture,
         canTransition, allowedNextStatuses, DELIVERY_FLOW, PICKUP_FLOW
<1> QED
  BY <1>1, <1>2, <1>3, PTL DEF Spec

-----------------------------------------------------------------------------
(* The flow an order has                                                   *)

\* Nobody changes whether o is to be delivered.
DeliveryKept(o) ==
  orders[o].status # "absent" => orders'[o].deliveryRequested = orders[o].deliveryRequested

\* The status of o changes by a step of the flow it has.
OwnFlowStep(o) ==
  orders[o].status # "absent" /\ orders'[o].status # orders[o].status =>
    canTransition(orders[o].status, orders'[o].status, orders[o].deliveryRequested)

\* What requests are to do with o is a step of the flow it has.
OwnFlowRead(o) ==
  \A s \in Staff : staff[s].pc = "changing" /\ staff[s].order = o =>
    canTransition(staff[s].from, staff[s].to, orders[o].deliveryRequested)

\* Requests that read the delivery before their transaction write by the same flow.
LEMMA OwnFlowKept ==
  ASSUME NEW o \in Orders, SettlementInv, OwnFlowRead(o), [Next]_vars, [DeliveryKept(o)]_vars
  PROVE  OwnFlowRead(o)' /\ OwnFlowStep(o)
<1> USE DEF SettlementInv
<1>1. OwnFlowRead(o)'
  <2> SUFFICES ASSUME NEW s \in Staff, staff'[s].pc = "changing", staff'[s].order = o
               PROVE  canTransition(staff'[s].from, staff'[s].to, orders'[o].deliveryRequested)
    BY DEF OwnFlowRead
  <2>1. CASE staff'[s] = staff[s]
    <3>1. orders[o].status # "absent"
      BY <2>1 DEF RequestsKnown
    <3>2. orders'[o].deliveryRequested = orders[o].deliveryRequested
      BY <3>1 DEF DeliveryKept, vars
    <3> QED
      BY <2>1, <3>2 DEF OwnFlowRead
  <2>2. CASE staff'[s] # staff[s]
    BY <2>2, ChangeRead
  <2> QED
    BY <2>1, <2>2
<1>2. OwnFlowStep(o)
  <2>1. ASSUME NEW u \in Orders, NEW d \in Routes \cup {Pickup, Unpriced},
               NEW method \in PaymentMethod, PlaceOrder(u, d.delivery, d.price, method)
        PROVE  OwnFlowStep(o)
    BY <2>1 DEF PlaceOrder, OwnFlowStep, TypeOK
  <2>2. ASSUME NEW s \in Staff, CommitStatus(s) PROVE OwnFlowStep(o)
    <3> SUFFICES ASSUME orders'[o].status # orders[o].status
                 PROVE  canTransition(orders[o].status, orders'[o].status,
                                      orders[o].deliveryRequested)
      BY DEF OwnFlowStep
    <3>1. /\ staff[s].pc = "changing" /\ staff[s].order \in Orders
          /\ \/ orders' = orders
             \/ /\ orders[staff[s].order].status = staff[s].from
                /\ orders' = [orders EXCEPT ![staff[s].order].status = staff[s].to]
      BY <2>2 DEF CommitStatus, RequestsKnown
    <3>2. staff[s].order = o /\ orders[o].status = staff[s].from
          /\ orders'[o].status = staff[s].to
      BY <3>1 DEF TypeOK, Order
    <3> QED
      BY <3>1, <3>2 DEF OwnFlowRead
  <2>3. ASSUME NEW m \in Moderators, NEW u \in Orders, ReadDelivery(m, u)
        PROVE  OwnFlowStep(o)
    BY <2>3 DEF ReadDelivery, OwnFlowStep
  <2>4. ASSUME NEW m \in Moderators, NEW d \in Routes \cup {Pickup},
               CommitDelivery(m, d.delivery, d.price)
        PROVE  OwnFlowStep(o)
    BY <2>4 DEF CommitDelivery, OwnFlowStep, TypeOK, Order
  <2> QED
    BY <2>1, <2>2, <2>3, <2>4, OrderWriters DEF OwnFlowStep
<1> QED
  BY <1>1, <1>2

(***************************************************************************)
(* Whoever races to drive an order, each change of its status is a step of *)
(* one of the two flows (OrderStatusService.change).  It is a step of the  *)
(* order's own flow as long as nobody changes whether this order is to be  *)
(* delivered: change reads that before its transaction and its UPDATE      *)
(* repeats the status only.                                                *)
(***************************************************************************)
THEOREM OrdersFollowFlow ==
  /\ Spec => FlowRespected
  /\ \A o \in Orders : Spec /\ [][DeliveryKept(o)]_vars => [][OwnFlowStep(o)]_vars
<1>1. Spec => FlowRespected
  <2>1. SettlementInv /\ [Next]_vars => [FlowStep]_vars
    BY FlowStepKept
  <2> QED
    BY <2>1, SettlementInvariant, PTL DEF Spec, FlowRespected, FlowStep
<1>2. ASSUME NEW o \in Orders
      PROVE  Spec /\ [][DeliveryKept(o)]_vars => [][OwnFlowStep(o)]_vars
  <2>1. Init => OwnFlowRead(o)
    BY DEF Init, OwnFlowRead, IdleStaff
  <2>2. SettlementInv /\ OwnFlowRead(o) /\ [Next]_vars /\ [DeliveryKept(o)]_vars
          => OwnFlowRead(o)' /\ [OwnFlowStep(o)]_vars
    BY OwnFlowKept
  <2> QED
    BY <2>1, <2>2, SettlementInvariant, PTL DEF Spec
<1> QED
  BY <1>1, <1>2

-----------------------------------------------------------------------------
(* What was paid is accounted for                                          *)

\* A payment that a webhook is settling as paid is not closed in another way meanwhile.
Uncrossed ==
  \A h \in Hooks :
    LET p == hook[h].payment IN
    hook[h].pc = "settling" /\ hook[h].event = "PAID" /\ payments[p].status = "PENDING" =>
      payments'[p].status \in {"PENDING", "PAID"}

AccountedInv ==
  /\ SettlementInv
  /\ MoneyAccounted
  /\ \A h \in Hooks : hook[h].pc = "settling" /\ hook[h].event = "PAID" =>
       payments[hook[h].payment].status \in {"PENDING", "PAID"}

\* What is paid stays paid.
LEMMA PaidStays ==
  ASSUME SettlementInv, [Next]_vars, NEW p \in Payments, payments[p].status = "PAID"
  PROVE  payments'[p].status = "PAID"
<1> DEFINE st == [u \in Payments |-> payments[u].status]
<1>1. st[p] = "PAID"
  OBVIOUS
<1>2. SUFFICES st'[p] = "PAID"
  OBVIOUS
<1>3. BookStep
  BY SettlementStep
<1>4. CASE UNCHANGED Book!bookVars
  BY <1>1, <1>4 DEF Book!bookVars
<1>5. ASSUME NEW u \in Payments, NEW o \in Orders, Book!Open(u, o) PROVE st'[p] = "PAID"
  BY <1>1, <1>5 DEF Book!Open
<1>6. ASSUME NEW u \in Payments, NEW q \in Payments, Book!Replace(u, q)
      PROVE  st'[p] = "PAID"
  BY <1>1, <1>6 DEF Book!Replace
<1>7. ASSUME NEW u \in Payments, NEW end \in {"PAID", "FAILED", "CANCELLED"},
             Book!Close(u, end)
      PROVE  st'[p] = "PAID"
  BY <1>1, <1>7 DEF Book!Close
<1> QED
  BY <1>3, <1>4, <1>5, <1>6, <1>7 DEF BookStep, Book!Next

\* The webhooks' requests: as they were, done, or one that reads a payment.
LEMMA HookWriters ==
  ASSUME SettlementInv, [Next]_vars
  PROVE  \/ \E h \in Hooks, p \in Payments, e \in Event : ReadForWebhook(h, p, e)
         \/ \E h \in Hooks : CommitWebhook(h)
         \/ /\ \A p \in Payments : provider'[p].acked = provider[p].acked
            /\ flagged' = flagged
            /\ \/ hook' = hook
               \/ \E h \in Hooks : hook' = [hook EXCEPT ![h] = IdleHook]
<1> DEFINE Quiet == /\ \A p \in Payments : provider'[p].acked = provider[p].acked
                    /\ flagged' = flagged
                    /\ \/ hook' = hook
                       \/ \E h \in Hooks : hook' = [hook EXCEPT ![h] = IdleHook]
<1>1. ASSUME NEW p \in Payments, ProviderPays(p) \/ ProviderFails(p) PROVE Quiet
  <2>1. UNCHANGED <<flagged, hook>>
    BY <1>1 DEF ProviderPays, ProviderFails, requests
  <2>2. PICK sent : provider' = [provider EXCEPT ![p].sent = sent]
    BY <1>1 DEF ProviderPays, ProviderFails
  <2>3. \A q \in Payments : provider'[q].acked = provider[q].acked
    BY <2>2 DEF SettlementInv, TypeOK, Intent
  <2> QED
    BY <2>1, <2>3
<1>2. ASSUME NEW b \in Buyers, CallProvider(b) PROVE Quiet
  <2>1. UNCHANGED <<flagged, hook>>
    BY <1>2 DEF CallProvider
  <2>2. PICK u, n : provider' = [provider EXCEPT ![u].amount = n]
    BY <1>2 DEF CallProvider
  <2>3. \A p \in Payments : provider'[p].acked = provider[p].acked
    BY <2>2 DEF SettlementInv, TypeOK, Intent
  <2> QED
    BY <2>1, <2>3
<1>3. CASE UNCHANGED <<provider, flagged, hook>>
  BY <1>3
<1>4. CASE Crash
  BY <1>4 DEF Crash
<1>5. ASSUME NEW b \in Buyers, BuyerStep(b) PROVE Quiet
  <2>1. CallProvider(b) \/ UNCHANGED <<provider, flagged, hook>>
    BY <1>5 DEF BuyerStep, ReadForStart, PrepareSame, PrepareSwitch, PrepareNew, SaveRef
  <2> QED
    BY <1>2, <1>3, <2>1
<1>6. \/ \E h \in Hooks : HookStep(h)
      \/ \E b \in Buyers : BuyerStep(b)
      \/ \E p \in Payments : ProviderPays(p) \/ ProviderFails(p)
      \/ Crash
      \/ UNCHANGED <<provider, flagged, hook>>
  BY DEF Next, vars, PlaceOrder, requests, StaffStep, ReadStatus, ReadForConfirm,
         CommitStatus, CommitConfirm, ModeratorStep, ReadDelivery, CommitDelivery
<1> QED
  BY <1>1, <1>3, <1>4, <1>5, <1>6 DEF HookStep

\* Every step leaves answered money accounted for.
LEMMA AccountedStep == AccountedInv /\ [Next]_vars /\ [Uncrossed]_vars => AccountedInv'
<1> SUFFICES ASSUME AccountedInv, [Next]_vars, [Uncrossed]_vars
             PROVE  /\ MoneyAccounted'
                    /\ \A h \in Hooks :
                         hook'[h].pc = "settling" /\ hook'[h].event = "PAID" =>
                           payments'[hook'[h].payment].status \in {"PENDING", "PAID"}
  BY SettlementStep DEF AccountedInv
<1> USE DEF AccountedInv
<1> DEFINE Fit(h) == hook'[h].pc = "settling" /\ hook'[h].event = "PAID" =>
                       payments'[hook'[h].payment].status \in {"PENDING", "PAID"}
<1>1. /\ payments \in [Payments -> PaymentRow] /\ hook \in [Hooks -> HookRequest]
      /\ provider \in [Payments -> Intent] /\ IdleHook.pc = "idle"
  BY DEF SettlementInv, TypeOK, IdleHook
<1>2. \A p \in Payments : payments[p].status = "PAID" => payments'[p].status = "PAID"
  BY PaidStays
<1>3. ASSUME NEW h \in Hooks, hook'[h] = hook[h] PROVE Fit(h)
  <2> SUFFICES ASSUME hook[h].pc = "settling", hook[h].event = "PAID"
               PROVE  payments'[hook[h].payment].status \in {"PENDING", "PAID"}
    BY <1>3
  <2>1. hook[h].payment \in Payments
    BY DEF SettlementInv, RequestsKnown
  <2>2. CASE payments[hook[h].payment].status = "PENDING"
    BY <2>2 DEF Uncrossed, vars
  <2> QED
    BY <1>2, <2>1, <2>2
<1>4. ASSUME NEW h \in Hooks, hook'[h] = IdleHook PROVE Fit(h)
  BY <1>1, <1>4
<1>5. ASSUME NEW h \in Hooks, NEW p \in Payments, NEW e \in Event, ReadForWebhook(h, p, e)
      PROVE  MoneyAccounted' /\ \A g \in Hooks : Fit(g)
  <2>1. UNCHANGED payments
    BY <1>5 DEF ReadForWebhook
  <2>2. CASE UNCHANGED hook /\ Acknowledge(p, e)
    <3>1. /\ flagged \subseteq flagged'
          /\ e = "PAID" => payments[p].status = "PAID" \/ p \in flagged'
      BY <1>1, <1>5, <2>2 DEF ReadForWebhook
    <3>2. \A q \in Payments :
            provider'[q].acked = IF q = p THEN provider[q].acked \cup {e}
                                 ELSE provider[q].acked
      BY <1>1, <2>2 DEF Acknowledge, Intent
    <3>3. MoneyAccounted'
      BY <2>1, <3>1, <3>2 DEF MoneyAccounted
    <3> QED
      BY <1>3, <2>2, <3>3
  <2>3. CASE UNCHANGED <<provider, flagged>> /\ payments[p].status = "PENDING"
             /\ hook' = [hook EXCEPT ![h] = [pc |-> "settling", payment |-> p,
                                             event |-> e, amount |-> payments[p].amount]]
    <3>1. MoneyAccounted'
      BY <2>1, <2>3 DEF MoneyAccounted
    <3>2. Fit(h)
      BY <1>1, <2>1, <2>3
    <3>3. \A g \in Hooks : g # h => hook'[g] = hook[g]
      BY <1>1, <2>3
    <3> QED
      BY <1>3, <3>1, <3>2, <3>3
  <2> QED
    BY <1>5, <2>2, <2>3 DEF ReadForWebhook
<1>6. ASSUME NEW h \in Hooks, CommitWebhook(h)
      PROVE  MoneyAccounted' /\ \A g \in Hooks : Fit(g)
  <2>1. PICK p \in Payments, e \in Event : p = hook[h].payment /\ e = hook[h].event
    BY <1>1, <1>6 DEF CommitWebhook, SettlementInv, RequestsKnown, HookRequest
  <2>2. e = "PAID" => payments'[p].status = "PAID"
    <3> SUFFICES ASSUME e = "PAID" PROVE payments'[p].status = "PAID"
      OBVIOUS
    <3>1. CASE payments[p].status = "PENDING"
      BY <1>1, <1>6, <2>1, <3>1 DEF CommitWebhook, Settled, PaymentRow
    <3>2. CASE payments[p].status = "PAID"
      BY <1>2, <3>2
    <3> QED
      BY <1>6, <2>1, <3>1, <3>2 DEF CommitWebhook
  <2>3. \A q \in Payments :
          provider'[q].acked = IF q = p THEN provider[q].acked \cup {e}
                               ELSE provider[q].acked
    BY <1>1, <1>6, <2>1 DEF CommitWebhook, Acknowledge, Intent
  <2>4. flagged' = flagged
    BY <1>6 DEF CommitWebhook
  <2>5. MoneyAccounted'
    BY <1>2, <2>2, <2>3, <2>4 DEF MoneyAccounted
  <2>6. \A g \in Hooks : hook'[g] = hook[g] \/ hook'[g] = IdleHook
    BY <1>1, <1>6 DEF CommitWebhook
  <2> QED
    BY <1>3, <1>4, <2>5, <2>6
<1>7. CASE /\ \A p \in Payments : provider'[p].acked = provider[p].acked
           /\ flagged' = flagged
           /\ \/ hook' = hook
              \/ \E h \in Hooks : hook' = [hook EXCEPT ![h] = IdleHook]
  <2>1. MoneyAccounted'
    BY <1>2, <1>7 DEF MoneyAccounted
  <2>2. \A g \in Hooks : hook'[g] = hook[g] \/ hook'[g] = IdleHook
    BY <1>1, <1>7
  <2> QED
    BY <1>3, <1>4, <2>1, <2>2
<1> QED
  BY <1>5, <1>6, <1>7, HookWriters

(***************************************************************************)
(* An answered PAID event has left a PAID payment or a warning             *)
(* (payment-webhook.service.ts), as long as nothing closes the payment in  *)
(* another way between the webhook's read and its settling.                *)
(***************************************************************************)
THEOREM MoneyAccountedUncrossed ==
  Spec /\ [][Uncrossed]_vars => []MoneyAccounted
<1>1. Init => AccountedInv
  <2> SUFFICES ASSUME Init PROVE AccountedInv
    OBVIOUS
  <2>1. MoneyAccounted
    BY DEF Init, MoneyAccounted
  <2>2. \A h \in Hooks : hook[h].pc = "idle"
    BY DEF Init, IdleHook
  <2> QED
    BY <2>1, <2>2, SettlementInitInv DEF AccountedInv
<1>2. AccountedInv /\ [Next]_vars /\ [Uncrossed]_vars => AccountedInv'
  BY AccountedStep
<1>3. AccountedInv => MoneyAccounted
  BY DEF AccountedInv
<1> QED
  BY <1>1, <1>2, <1>3, PTL DEF Spec

-----------------------------------------------------------------------------
(* An order is paid once                                                   *)

\* Of two starts of one order's payment, one at a time has found no open payment.
Opening(b) == buyer[b].pc = "preparing" /\ buyer[b].pending = NoPayment

OneStart ==
  \A b, c \in Buyers :
    Opening(b) /\ Opening(c) /\ buyer[b].order = buyer[c].order => b = c

Live(p) == payments[p].status \in {"PENDING", "PAID"}

\* An order has one payment that is open or paid, and none while a start that found
\* none is under way.
PaidInv ==
  /\ SettlementInv
  /\ \A p, q \in Payments :
       Live(p) /\ Live(q) /\ payments[p].order = payments[q].order => p = q
  /\ \A b \in Buyers : Opening(b) =>
       \A p \in Payments : Live(p) => payments[p].order # buyer[b].order

\* Who takes a row of payments that is not used yet.
LEMMA PaymentOpeners ==
  ASSUME SettlementInv, [Next]_vars, NEW p \in Payments,
         payments[p].status = "absent", payments'[p].status # "absent"
  PROVE  \/ \E o \in Orders, d \in Routes \cup {Pickup, Unpriced}, method \in PaymentMethod :
              PlaceOrder(o, d.delivery, d.price, method)
         \/ \E b \in Buyers : PrepareNew(b)
<1> USE DEF SettlementInv
<1>1. payments \in [Payments -> PaymentRow]
  BY DEF TypeOK
<1>2. ASSUME NEW s \in Staff, StaffStep(s) PROVE FALSE
  <2>1. ~CommitStatus(s)
    BY <1>1 DEF CommitStatus, PaymentRow, Pending, PaymentsOf
  <2>2. ~CommitConfirm(s)
    BY <1>1 DEF CommitConfirm, Settled, PaymentRow
  <2> QED
    BY <1>2, <2>1, <2>2 DEF StaffStep, ReadStatus, ReadForConfirm
<1>3. ASSUME NEW m \in Moderators, ModeratorStep(m) PROVE FALSE
  BY <1>1, <1>3 DEF ModeratorStep, ReadDelivery, CommitDelivery, PaymentRow, Pending,
                    PaymentsOf
<1>4. ASSUME NEW b \in Buyers, BuyerStep(b) PROVE PrepareNew(b)
  <2>1. ~PrepareSwitch(b)
    <3> SUFFICES ASSUME PrepareSwitch(b) PROVE FALSE
      OBVIOUS
    <3>1. PICK method : payments' = payments
             \/ payments' = [payments EXCEPT ![buyer[b].pending] =
                               [payments[buyer[b].pending] EXCEPT !.method = method]]
      BY DEF PrepareSwitch
    <3> QED
      BY <1>1, <3>1 DEF PaymentRow
  <2>2. ~SaveRef(b)
    BY <1>1 DEF SaveRef, PaymentRow
  <2> QED
    BY <1>4, <2>1, <2>2 DEF BuyerStep, ReadForStart, PrepareSame, CallProvider
<1>5. ASSUME NEW h \in Hooks, HookStep(h) PROVE FALSE
  BY <1>1, <1>5 DEF HookStep, ReadForWebhook, CommitWebhook, Settled, PaymentRow
<1>6. ~(Crash \/ UNCHANGED vars \/ \E q \in Payments : ProviderPays(q) \/ ProviderFails(q))
  BY DEF Crash, vars, ProviderPays, ProviderFails
<1> QED
  BY <1>2, <1>3, <1>4, <1>5, <1>6 DEF Next

\* The buyers' requests: as they were, done, reading, or going on.
LEMMA BuyerWriters ==
  ASSUME SettlementInv, [Next]_vars, NEW b \in Buyers
  PROVE  \/ buyer'[b] = buyer[b] \/ buyer'[b] = IdleBuyer
         \/ \E o \in Orders, method \in PaymentMethod : ReadForStart(b, o, method)
         \/ PrepareSame(b) \/ PrepareSwitch(b) \/ PrepareNew(b) \/ CallProvider(b)
<1> DEFINE Quiet == buyer'[b] = buyer[b] \/ buyer'[b] = IdleBuyer
<1>1. buyer \in [Buyers -> BuyerRequest]
  BY DEF SettlementInv, TypeOK
<1>2. ASSUME NEW c \in Buyers, BuyerStep(c)
      PROVE  Quiet \/ (BuyerStep(b) /\ ~SaveRef(b))
  <2>1. CASE c = b
    <3>1. BuyerStep(b)
      BY <1>2, <2>1
    <3>2. SaveRef(b) => buyer'[b] = IdleBuyer
      BY <1>1 DEF SaveRef
    <3> QED
      BY <3>1, <3>2
  <2>2. CASE c # b
    <3>1. PICK r : buyer' = [buyer EXCEPT ![c] = r]
      BY <1>2 DEF BuyerStep, ReadForStart, PrepareSame, PrepareSwitch, PrepareNew, Prepared,
                  CallProvider, SaveRef
    <3>2. buyer'[b] = buyer[b]
      BY <1>1, <2>2, <3>1
    <3> QED
      BY <3>2
  <2> QED
    BY <2>1, <2>2
<1>3. CASE \E c \in Buyers : buyer' = [buyer EXCEPT ![c] = IdleBuyer]
  BY <1>1, <1>3
<1>4. \/ UNCHANGED buyer
      \/ \E c \in Buyers : buyer' = [buyer EXCEPT ![c] = IdleBuyer]
      \/ \E c \in Buyers : BuyerStep(c)
  BY DEF Next, vars, PlaceOrder, requests, StaffStep, ReadStatus, ReadForConfirm,
         CommitStatus, CommitConfirm, ModeratorStep, ReadDelivery, CommitDelivery,
         HookStep, ReadForWebhook, CommitWebhook, ProviderPays, ProviderFails, Crash
<1> QED
  BY <1>2, <1>3, <1>4 DEF BuyerStep

\* What a start of a payment has read.
LEMMA StartReads ==
  ASSUME SettlementInv, NEW b \in Buyers, NEW o \in Orders, NEW method \in PaymentMethod,
         ReadForStart(b, o, method)
  PROVE  /\ buyer'[b].pc = "preparing" /\ buyer'[b].order = o
         /\ buyer'[b].grandTotal = orders[o].grandTotal
         /\ buyer'[b].pending = NoPayment => Pending(o) = {}
<1> DEFINE pending == IF Pending(o) = {} THEN NoPayment
                      ELSE CHOOSE p \in Pending(o) : TRUE
           r == [IdleBuyer EXCEPT
                   !.pc = "preparing", !.order = o, !.method = method,
                   !.grandTotal = orders[o].grandTotal,
                   !.pending = pending,
                   !.pendingMethod = IF pending = NoPayment THEN method
                                     ELSE payments[pending].method,
                   !.pendingRef = pending # NoPayment /\ payments[pending].ref]
<1>1. Pending(o) # {} => pending \in Payments
  BY DEF Pending, PaymentsOf
<1>2. /\ r.pc = "preparing" /\ r.order = o /\ r.grandTotal = orders[o].grandTotal
      /\ r.pending = pending
  BY DEF IdleBuyer
<1>3. buyer' = [buyer EXCEPT ![b] = r]
  BY DEF ReadForStart
<1> HIDE DEF r, pending
<1> QED
  BY <1>1, <1>2, <1>3, SettlementAssumption DEF SettlementInv, TypeOK

\* A prepared payment is called for at its amount, or the start is done.
LEMMA PreparedRequest ==
  ASSUME SettlementInv, NEW b \in Buyers, NEW p, NEW row, Prepared(b, p, row)
  PROVE  \/ buyer'[b] = IdleBuyer
         \/ /\ buyer'[b].pc = "calling" /\ buyer'[b].pending = p
            /\ buyer'[b].amount = row.amount
<1> DEFINE called == [IdleBuyer EXCEPT !.pc = "calling", !.pending = p,
                                       !.amount = row.amount]
<1>1. called.pc = "calling" /\ called.pending = p /\ called.amount = row.amount
  BY DEF IdleBuyer
<1>2. \/ buyer' = [buyer EXCEPT ![b] = called]
      \/ buyer' = [buyer EXCEPT ![b] = IdleBuyer]
  BY DEF Prepared
<1> HIDE DEF called
<1> QED
  BY <1>1, <1>2 DEF SettlementInv, TypeOK

\* A request that goes on is no longer one that prepares.
LEMMA Prepares ==
  ASSUME SettlementInv, NEW b \in Buyers,
         \/ buyer'[b] = IdleBuyer
         \/ PrepareSame(b) \/ PrepareSwitch(b) \/ PrepareNew(b) \/ CallProvider(b)
  PROVE  buyer'[b].pc # "preparing"
<1>1. IdleBuyer.pc = "idle" /\ buyer \in [Buyers -> BuyerRequest]
  BY DEF IdleBuyer, SettlementInv, TypeOK
<1>2. CASE buyer'[b] = IdleBuyer
  BY <1>1, <1>2
<1>3. CASE PrepareSame(b)
  BY <1>1, <1>3, PreparedRequest DEF PrepareSame
<1>4. CASE PrepareSwitch(b)
  <2>1. buyer' = [buyer EXCEPT ![b] = IdleBuyer] \/ \E p, row : Prepared(b, p, row)
    BY <1>4 DEF PrepareSwitch
  <2> QED
    BY <1>1, <2>1, PreparedRequest
<1>5. CASE PrepareNew(b)
  <2>1. buyer' = [buyer EXCEPT ![b] = IdleBuyer] \/ \E p, row : Prepared(b, p, row)
    BY <1>5 DEF PrepareNew
  <2> QED
    BY <1>1, <2>1, PreparedRequest
<1>6. CASE CallProvider(b)
  BY <1>1, <1>6 DEF CallProvider, BuyerRequest
<1> QED
  BY <1>2, <1>3, <1>4, <1>5, <1>6

\* A payment is opened only for an order that has none, or in place of its open one;
\* and the start that opens it is no longer one that found none.
LEMMA OpenedClear ==
  ASSUME PaidInv, OneStart, [Next]_vars, NEW p \in Payments, NEW o \in Orders,
         Book!Open(p, o)
  PROVE  /\ \A q \in Payments : Live(q) => payments[q].order # o
         /\ \A b \in Buyers : Opening(b) /\ buyer[b].order = o => buyer'[b].pc # "preparing"
<1> USE DEF PaidInv
<1>0. payments[p].status = "absent" /\ payments'[p].status # "absent"
      /\ payments'[p].order = o
  <2> DEFINE st == [u \in Payments |-> payments[u].status]
             ow == [u \in Payments |-> payments[u].order]
  <2>1. /\ st[p] = "absent" /\ st' = [st EXCEPT ![p] = "PENDING"]
        /\ ow' = [ow EXCEPT ![p] = o]
    BY DEF Book!Open
  <2>2. st'[p] = "PENDING" /\ ow'[p] = o
    BY <2>1
  <2> QED
    BY <2>1, <2>2
<1>1. ASSUME NEW u \in Orders, NEW d \in Routes \cup {Pickup, Unpriced},
             NEW method \in PaymentMethod, PlaceOrder(u, d.delivery, d.price, method)
      PROVE  orders[o].status = "absent"
  <2>1. payments' = [payments EXCEPT ![NewPayment] =
                       PendingRow(u, method, ItemsTotal[u] + d.price)]
    BY <1>1 DEF PlaceOrder
  <2>2. p = NewPayment
    BY <1>0, <2>1 DEF SettlementInv, TypeOK
  <2>3. payments'[p].order = u
    BY <2>1, <2>2 DEF SettlementInv, TypeOK, PendingRow
  <2> QED
    BY <1>0, <1>1, <2>3 DEF PlaceOrder
<1>2. CASE orders[o].status = "absent"
  BY <1>2 DEF SettlementInv, PaymentsKnown, RequestsKnown, Live, Opening
<1>3. ASSUME NEW b \in Buyers, PrepareNew(b)
      PROVE  Opening(b) /\ buyer[b].order = o /\ buyer'[b].pc # "preparing"
  <2> DEFINE row == PendingRow(buyer[b].order, buyer[b].method, buyer[b].grandTotal)
             old == buyer[b].pending
  <2>1. /\ buyer[b].pc = "preparing"
        /\ IF old = NoPayment THEN Pending(buyer[b].order) = {}
           ELSE payments[old].status = "PENDING"
        /\ payments' = [q \in Payments |->
             IF q = old THEN [payments[q] EXCEPT !.status = "CANCELLED"]
             ELSE IF q = NewPayment THEN row ELSE payments[q]]
        /\ Prepared(b, NewPayment, row)
    BY <1>0, <1>3 DEF PrepareNew
  <2>2. old = NoPayment \/ old \in Payments
    BY DEF SettlementInv, TypeOK, BuyerRequest
  <2>3. row.order = buyer[b].order
    BY DEF PendingRow
  <2>4. buyer'[b].pc # "preparing"
    BY <1>3, Prepares
  <2> HIDE DEF row, old
  <2>5. p # old
    BY <1>0, <2>1, <2>2, SettlementAssumption
  <2>6. p = NewPayment /\ payments'[p] = row
    BY <1>0, <2>1, <2>5
  <2>7. buyer[b].order = o
    BY <1>0, <2>3, <2>6
  <2>8. old = NoPayment
    <3> SUFFICES ASSUME old # NoPayment PROVE FALSE
      OBVIOUS
    <3>1. old \in Payments /\ payments[old].status = "PENDING" /\ payments[old].order = o
      BY <2>1, <2>2, <2>7 DEF old, SettlementInv, RequestsKnown
    <3>2. Book!HasOpen(o)
      BY <3>1 DEF Book!HasOpen
    <3> QED
      BY <3>2 DEF Book!Open
  <2> QED
    BY <2>1, <2>4, <2>7, <2>8 DEF Opening, old
<1>4. ASSUME NEW b \in Buyers, Opening(b), buyer[b].order = o, buyer'[b].pc # "preparing"
      PROVE  /\ \A q \in Payments : Live(q) => payments[q].order # o
             /\ \A c \in Buyers : Opening(c) /\ buyer[c].order = o => buyer'[c].pc # "preparing"
  BY <1>4 DEF OneStart
<1> QED
  BY <1>0, <1>1, <1>2, <1>3, <1>4, PaymentOpeners

\* Every step leaves an order one payment that is open or paid.
LEMMA PaidStep == PaidInv /\ OneStart /\ [Next]_vars => PaidInv'
<1> SUFFICES ASSUME PaidInv, OneStart, [Next]_vars PROVE PaidInv'
  OBVIOUS
<1> USE DEF PaidInv
<1> DEFINE st == [p \in Payments |-> payments[p].status]
           ow == [p \in Payments |-> payments[p].order]
           Up(s, p) == s[p] \in {"PENDING", "PAID"}
           One(s, w) == \A p, q \in Payments : Up(s, p) /\ Up(s, q) /\ w[p] = w[q] => p = q
           Clear(s, w, o) == \A p \in Payments : Up(s, p) => w[p] # o
<1>1. SettlementInv' /\ BookStep
  BY SettlementStep
<1>2. One(st, ow)
  BY DEF Live
<1>3. \A b \in Buyers : Opening(b) => Clear(st, ow, buyer[b].order)
  BY DEF Live
<1>4. /\ st \in [Payments -> {"absent", "PENDING", "PAID", "FAILED", "CANCELLED"}]
      /\ ow \in [Payments -> Orders \cup {NoOrder}]
  BY DEF SettlementInv, TypeOK, PaymentRow
<1> DEFINE Goal == /\ One(st', ow')
                   /\ \A b \in Buyers : Opening(b) /\ buyer'[b].pc = "preparing" =>
                        Clear(st', ow', buyer[b].order)
<1>5. Goal
  <2>1. CASE UNCHANGED Book!bookVars
    <3>1. st' = st /\ ow' = ow
      BY <2>1 DEF Book!bookVars
    <3> HIDE DEF st, ow
    <3> QED
      BY <1>2, <1>3, <3>1
  <2>2. ASSUME NEW p \in Payments, NEW o \in Orders, Book!Open(p, o) PROVE Goal
    <3>1. st' = [st EXCEPT ![p] = "PENDING"] /\ ow' = [ow EXCEPT ![p] = o]
      BY <2>2 DEF Book!Open
    <3>2. /\ \A q \in Payments : Up(st, q) => ow[q] # o
          /\ \A b \in Buyers : Opening(b) /\ buyer[b].order = o => buyer'[b].pc # "preparing"
      BY <2>2, OpenedClear DEF Live
    <3> HIDE DEF st, ow
    <3> QED
      BY <1>2, <1>3, <1>4, <3>1, <3>2
  <2>3. ASSUME NEW p \in Payments, NEW q \in Payments, Book!Replace(p, q) PROVE Goal
    <3>1. /\ st[p] = "PENDING" /\ st[q] = "absent"
          /\ st' = [st EXCEPT ![p] = "CANCELLED", ![q] = "PENDING"]
          /\ ow' = [ow EXCEPT ![q] = ow[p]]
      BY <2>3 DEF Book!Replace
    <3> HIDE DEF st, ow
    <3> QED
      BY <1>2, <1>3, <1>4, <3>1
  <2>4. ASSUME NEW p \in Payments, NEW end \in {"PAID", "FAILED", "CANCELLED"},
               Book!Close(p, end)
        PROVE  Goal
    <3>1. st[p] = "PENDING" /\ st' = [st EXCEPT ![p] = end] /\ ow' = ow
      BY <2>4 DEF Book!Close
    <3> HIDE DEF st, ow
    <3> QED
      BY <1>2, <1>3, <1>4, <3>1
  <2> QED
    BY <1>1, <2>1, <2>2, <2>3, <2>4 DEF BookStep, Book!Next
<1>6. ASSUME NEW b \in Buyers, Opening(b)'
      PROVE  Clear(st', ow', buyer'[b].order)
  <2>1. CASE buyer'[b] = buyer[b]
    BY <1>5, <1>6, <2>1 DEF Opening
  <2>2. ASSUME NEW o \in Orders, NEW method \in PaymentMethod, ReadForStart(b, o, method)
        PROVE  Clear(st', ow', buyer'[b].order)
    <3>1. Pending(o) = {} /\ buyer'[b].order = o
      BY <1>6, <2>2, StartReads DEF Opening
    <3>2. UNCHANGED payments /\ ~IsPaid(o)
      BY <2>2 DEF ReadForStart
    <3> QED
      BY <3>1, <3>2 DEF Pending, PaymentsOf, IsPaid
  <2> QED
    BY <1>6, <2>1, <2>2, BuyerWriters, Prepares DEF Opening
<1> QED
  BY <1>1, <1>5, <1>6 DEF Live

(***************************************************************************)
(* An order is not paid twice (docs/error-codes.md), as long as no two     *)
(* starts have both found it without an open payment.                      *)
(***************************************************************************)
THEOREM PaidOnceByOneStart == Spec /\ []OneStart => []PaidOnce
<1>1. Init => PaidInv
  <2> SUFFICES ASSUME Init PROVE PaidInv
    OBVIOUS
  <2>1. \A p \in Payments : ~Live(p)
    BY DEF Init, Live, Absent
  <2>2. \A b \in Buyers : ~Opening(b)
    BY DEF Init, Opening, IdleBuyer
  <2> QED
    BY <2>1, <2>2, SettlementInitInv DEF PaidInv
<1>2. PaidInv /\ OneStart /\ [Next]_vars => PaidInv'
  BY PaidStep
<1>3. PaidInv => PaidOnce
  <2> SUFFICES ASSUME PaidInv, NEW o \in Orders
               PROVE  Cardinality({p \in PaymentsOf(o) : payments[p].status = "PAID"}) <= 1
    BY DEF PaidOnce
  <2> DEFINE paid == {p \in PaymentsOf(o) : payments[p].status = "PAID"}
  <2>1. \A p, q \in paid : p = q
    BY DEF PaidInv, Live, PaymentsOf
  <2> HIDE DEF paid
  <2>2. Cardinality(paid) <= 1
    <3>1. CASE paid = {}
      BY <3>1, FS_EmptySet
    <3>2. CASE \E p : paid = {p}
      <4>1. PICK p : paid = {p}
        BY <3>2
      <4>2. Cardinality({p}) = 1
        BY FS_Singleton
      <4> QED
        BY <4>1, <4>2
    <3>3. paid = {} \/ \E p : paid = {p}
      BY <2>1
    <3> QED
      BY <3>1, <3>2, <3>3
  <2> QED
    BY <2>2 DEF paid
<1> QED
  BY <1>1, <1>2, <1>3, PTL DEF Spec

-----------------------------------------------------------------------------
(* What was paid is credited                                               *)

\* The amount of a payment stays what it was when the payment was opened.
AmountsStay ==
  \A p \in Payments : payments[p].status # "absent" =>
    payments'[p].amount = payments[p].amount

\* What the provider was given is the payment's amount, and neither a reference nor an
\* event comes before it was given one.
AmountsKnown ==
  /\ \A o \in Orders : orders[o].status # "absent" => orders[o].grandTotal > 0
  /\ \A p \in Payments :
       /\ payments[p].status # "absent" => payments[p].amount > 0
       /\ provider[p].amount # 0 =>
            payments[p].status # "absent" /\ provider[p].amount = payments[p].amount
       /\ payments[p].ref \/ provider[p].sent # {} => provider[p].amount # 0

\* The amounts requests in flight have read.
AmountsRead ==
  /\ \A s \in Staff : staff[s].pc = "confirming" =>
       /\ payments[staff[s].payment].status # "absent"
       /\ staff[s].amount = payments[staff[s].payment].amount
  /\ \A h \in Hooks : hook[h].pc = "settling" =>
       /\ payments[hook[h].payment].status # "absent"
       /\ hook[h].amount = payments[hook[h].payment].amount
  /\ \A b \in Buyers :
       /\ buyer[b].pc = "preparing" => buyer[b].grandTotal > 0
       /\ buyer[b].pc = "calling" =>
            /\ buyer[b].pending \in Payments
            /\ payments[buyer[b].pending].status # "absent"
            /\ buyer[b].amount = payments[buyer[b].pending].amount
       /\ buyer[b].pc = "saving" =>
            buyer[b].pending \in Payments /\ provider[buyer[b].pending].amount # 0

CreditsExact ==
  \A p \in Payments :
    payments[p].status = "PAID" /\ payments[p].order \in AccountOrders =>
      posted[p] = <<payments[p].amount>>

CreditInv == SettlementInv /\ AmountsKnown /\ AmountsRead /\ CreditsExact

\* A payment that is there stays the payment of the same order at the same amount.
LEMMA PaymentsStay ==
  ASSUME SettlementInv, [Next]_vars, [AmountsStay]_vars, NEW p \in Payments,
         payments[p].status # "absent"
  PROVE  /\ payments'[p].status # "absent"
         /\ payments'[p].order = payments[p].order
         /\ payments'[p].amount = payments[p].amount
<1> DEFINE st == [u \in Payments |-> payments[u].status]
           ow == [u \in Payments |-> payments[u].order]
<1>1. payments'[p].amount = payments[p].amount
  BY DEF AmountsStay, vars
<1>2. BookStep
  BY SettlementStep
<1>3. /\ st[p] # "absent"
      /\ st \in [Payments -> {"absent", "PENDING", "PAID", "FAILED", "CANCELLED"}]
      /\ ow \in [Payments -> Orders \cup {NoOrder}]
  BY DEF SettlementInv, TypeOK, PaymentRow
<1> DEFINE Goal == st'[p] # "absent" /\ ow'[p] = ow[p]
<1>4. ASSUME UNCHANGED Book!bookVars PROVE Goal
  <2>1. st' = st /\ ow' = ow
    BY <1>4 DEF Book!bookVars
  <2> HIDE DEF st, ow
  <2> QED
    BY <1>3, <2>1
<1>5. ASSUME NEW u \in Payments, NEW o \in Orders, Book!Open(u, o) PROVE Goal
  <2>1. /\ st[u] = "absent" /\ st' = [st EXCEPT ![u] = "PENDING"]
        /\ ow' = [ow EXCEPT ![u] = o]
    BY <1>5 DEF Book!Open
  <2> HIDE DEF st, ow
  <2> QED
    BY <1>3, <2>1
<1>6. ASSUME NEW u \in Payments, NEW q \in Payments, Book!Replace(u, q) PROVE Goal
  <2>1. /\ st[q] = "absent" /\ st' = [st EXCEPT ![u] = "CANCELLED", ![q] = "PENDING"]
        /\ ow' = [ow EXCEPT ![q] = ow[u]]
    BY <1>6 DEF Book!Replace
  <2> HIDE DEF st, ow
  <2> QED
    BY <1>3, <2>1
<1>7. ASSUME NEW u \in Payments, NEW end \in {"PAID", "FAILED", "CANCELLED"},
             Book!Close(u, end)
      PROVE  Goal
  <2>1. st' = [st EXCEPT ![u] = end] /\ ow' = ow
    BY <1>7 DEF Book!Close
  <2> HIDE DEF st, ow
  <2> QED
    BY <1>3, <2>1
<1>8. Goal
  BY <1>2, <1>4, <1>5, <1>6, <1>7 DEF BookStep, Book!Next
<1> QED
  BY <1>1, <1>8

\* Who writes a payment PAID, and the account's entry with it.
LEMMA PaidWriters ==
  ASSUME SettlementInv, [Next]_vars
  PROVE  \/ \E s \in Staff : CommitConfirm(s)
         \/ \E h \in Hooks : CommitWebhook(h)
         \/ /\ UNCHANGED posted
            /\ \A p \in Payments : payments'[p].status = "PAID" => payments[p].status = "PAID"
<1> DEFINE Quiet == /\ UNCHANGED posted
                    /\ \A p \in Payments :
                         payments'[p].status = "PAID" => payments[p].status = "PAID"
<1>1. payments \in [Payments -> PaymentRow]
  BY DEF SettlementInv, TypeOK
<1>2. ASSUME NEW o \in Orders, NEW d \in Routes \cup {Pickup, Unpriced},
             NEW method \in PaymentMethod, PlaceOrder(o, d.delivery, d.price, method)
      PROVE  Quiet
  BY <1>1, <1>2 DEF PlaceOrder, PendingRow
<1>3. ASSUME NEW s \in Staff, StaffStep(s) PROVE Quiet \/ CommitConfirm(s)
  <2>1. CommitStatus(s) => Quiet
    BY <1>1 DEF CommitStatus, PaymentRow
  <2> QED
    BY <1>3, <2>1 DEF StaffStep, ReadStatus, ReadForConfirm
<1>4. ASSUME NEW m \in Moderators, ModeratorStep(m) PROVE Quiet
  BY <1>1, <1>4 DEF ModeratorStep, ReadDelivery, CommitDelivery, PaymentRow
<1>5. ASSUME NEW b \in Buyers, BuyerStep(b) PROVE Quiet
  <2>1. PrepareSwitch(b) => Quiet
    <3> SUFFICES ASSUME PrepareSwitch(b) PROVE Quiet
      OBVIOUS
    <3>1. PICK method : payments' = payments
             \/ payments' = [payments EXCEPT ![buyer[b].pending] =
                               [payments[buyer[b].pending] EXCEPT !.method = method]]
      BY DEF PrepareSwitch
    <3>2. UNCHANGED posted
      BY DEF PrepareSwitch
    <3> QED
      BY <1>1, <3>1, <3>2 DEF PaymentRow
  <2>2. SaveRef(b) => Quiet
    BY <1>1 DEF SaveRef, PaymentRow
  <2>3. PrepareNew(b) => Quiet
    BY <1>1 DEF PrepareNew, PendingRow, PaymentRow
  <2> QED
    BY <1>5, <2>1, <2>2, <2>3 DEF BuyerStep, ReadForStart, PrepareSame, CallProvider
<1>6. ASSUME NEW h \in Hooks, HookStep(h) PROVE Quiet \/ CommitWebhook(h)
  BY <1>6 DEF HookStep, ReadForWebhook
<1>7. ASSUME Crash \/ UNCHANGED vars \/ \E q \in Payments : ProviderPays(q) \/ ProviderFails(q)
      PROVE  Quiet
  BY <1>7 DEF Crash, vars, ProviderPays, ProviderFails
<1> QED
  BY <1>2, <1>3, <1>4, <1>5, <1>6, <1>7 DEF Next

\* Settling credits what was read, which is the payment's amount.
LEMMA SettlingExact ==
  ASSUME CreditInv, NEW q \in Payments, NEW status \in {"PAID", "FAILED"}, NEW n \in Nat,
         n = payments[q].amount,
         IF payments[q].status = "PENDING" THEN Settled(q, status, n)
         ELSE UNCHANGED <<payments, posted>>
  PROVE  CreditsExact'
<1> USE DEF CreditInv
<1>1. CASE payments[q].status # "PENDING"
  BY <1>1 DEF CreditsExact
<1>2. CASE payments[q].status = "PENDING"
  <2>1. /\ payments'[q].status = status /\ payments'[q].order = payments[q].order
        /\ payments'[q].amount = n
        /\ \A u \in Payments : u # q => payments'[u] = payments[u]
    BY <1>2 DEF Settled, SettlementInv, TypeOK, PaymentRow
  <2>2. posted \in [Payments -> Seq(Nat)]
    BY DEF SettlementInv, TypeOK
  <2>3. \A u \in Payments : u # q => posted'[u] = posted[u]
    BY <1>2, <2>2 DEF Settled
  <2>4. CASE status = "PAID" /\ payments[q].order \in AccountOrders
    <3>1. posted'[q] = Append(posted[q], n)
      BY <1>2, <2>2, <2>4 DEF Settled
    <3>2. Len(posted[q]) = 0
      BY <1>2 DEF SettlementInv, SettledOnce
    <3>3. posted[q] = <<>>
      BY <2>2, <3>2
    <3>4. posted'[q] = <<n>>
      BY <3>1, <3>3
    <3> QED
      BY <2>1, <2>3, <3>4 DEF CreditsExact
  <2>5. CASE ~(status = "PAID" /\ payments[q].order \in AccountOrders)
    BY <2>1, <2>3, <2>5 DEF CreditsExact
  <2> QED
    BY <2>4, <2>5
<1> QED
  BY <1>1, <1>2

\* Every step leaves the credits what the payments say.
LEMMA CreditsStep ==
  ASSUME CreditInv, [Next]_vars, [AmountsStay]_vars
  PROVE  CreditsExact'
<1> USE DEF CreditInv
<1>1. ASSUME NEW s \in Staff, CommitConfirm(s) PROVE CreditsExact'
  <2>1. PICK p \in Payments, n \in Nat : p = staff[s].payment /\ n = staff[s].amount
    BY <1>1 DEF CommitConfirm, SettlementInv, RequestsKnown, TypeOK, StaffRequest
  <2>2. n = payments[p].amount
    BY <1>1, <2>1 DEF CommitConfirm, AmountsRead
  <2>3. IF payments[p].status = "PENDING" THEN Settled(p, "PAID", n)
        ELSE UNCHANGED <<payments, posted>>
    BY <1>1, <2>1 DEF CommitConfirm
  <2> QED
    BY <2>2, <2>3, SettlingExact
<1>2. ASSUME NEW h \in Hooks, CommitWebhook(h) PROVE CreditsExact'
  <2>1. PICK p \in Payments, e \in {"PAID", "FAILED"}, n \in Nat :
          p = hook[h].payment /\ e = hook[h].event /\ n = hook[h].amount
    BY <1>2 DEF CommitWebhook, SettlementInv, RequestsKnown, TypeOK, HookRequest, Event
  <2>2. n = payments[p].amount
    BY <1>2, <2>1 DEF CommitWebhook, AmountsRead
  <2>3. IF payments[p].status = "PENDING" THEN Settled(p, e, n)
        ELSE UNCHANGED <<payments, posted>>
    BY <1>2, <2>1 DEF CommitWebhook
  <2> QED
    BY <2>2, <2>3, SettlingExact
<1>3. ASSUME UNCHANGED posted,
             \A p \in Payments : payments'[p].status = "PAID" => payments[p].status = "PAID"
      PROVE  CreditsExact'
  BY <1>3, PaymentsStay DEF CreditsExact
<1> QED
  BY <1>1, <1>2, <1>3, PaidWriters

\* A payment that appears has its order's total for an amount, and no reference.
LEMMA NewAmount ==
  ASSUME CreditInv, [Next]_vars, NEW p \in Payments,
         payments[p].status = "absent", payments'[p].status # "absent"
  PROVE  payments'[p].amount > 0 /\ payments'[p].ref = FALSE
<1> USE DEF CreditInv
<1>1. payments \in [Payments -> PaymentRow]
  BY DEF SettlementInv, TypeOK
<1>2. ASSUME NEW o \in Orders, NEW d \in Routes \cup {Pickup, Unpriced},
             NEW method \in PaymentMethod, PlaceOrder(o, d.delivery, d.price, method)
      PROVE  payments'[p].amount > 0 /\ payments'[p].ref = FALSE
  <2>1. ItemsTotal[o] + d.price > 0
    BY SettlementAssumption, DeliveryTypes
  <2>2. payments' = [payments EXCEPT ![NewPayment] =
                       PendingRow(o, method, ItemsTotal[o] + d.price)]
    BY <1>2 DEF PlaceOrder
  <2>3. payments'[p] = PendingRow(o, method, ItemsTotal[o] + d.price)
    BY <1>1, <2>2
  <2> QED
    BY <2>1, <2>3 DEF PendingRow
<1>3. ASSUME NEW b \in Buyers, PrepareNew(b)
      PROVE  payments'[p].amount > 0 /\ payments'[p].ref = FALSE
  <2> DEFINE old == buyer[b].pending
             row == PendingRow(buyer[b].order, buyer[b].method, buyer[b].grandTotal)
  <2>1. /\ IF old = NoPayment THEN Pending(buyer[b].order) = {}
           ELSE payments[old].status = "PENDING"
        /\ payments' = [q \in Payments |->
             IF q = old THEN [payments[q] EXCEPT !.status = "CANCELLED"]
             ELSE IF q = NewPayment THEN row ELSE payments[q]]
    BY <1>3 DEF PrepareNew
  <2>2. row.amount = buyer[b].grandTotal /\ row.ref = FALSE
    BY DEF PendingRow
  <2>3. buyer[b].grandTotal > 0
    BY <1>3 DEF PrepareNew, AmountsRead
  <2> HIDE DEF row, old
  <2>4. p # old
    BY <2>1, SettlementAssumption
  <2>5. payments'[p] = row
    BY <2>1, <2>4
  <2> QED
    BY <2>2, <2>3, <2>5
<1> QED
  BY <1>2, <1>3, PaymentOpeners

\* A reference is written by the start that has called the provider.
LEMMA RefWriters ==
  ASSUME CreditInv, [Next]_vars, NEW p \in Payments, payments'[p].ref
  PROVE  \/ payments[p].ref
         \/ \E b \in Buyers : SaveRef(b) /\ buyer[b].pending = p
<1> USE DEF CreditInv
<1> DEFINE Goal == payments[p].ref \/ \E b \in Buyers : SaveRef(b) /\ buyer[b].pending = p
<1>1. payments \in [Payments -> PaymentRow]
  BY DEF SettlementInv, TypeOK
<1>2. ASSUME NEW o \in Orders, NEW d \in Routes \cup {Pickup, Unpriced},
             NEW method \in PaymentMethod, PlaceOrder(o, d.delivery, d.price, method)
      PROVE  Goal
  BY <1>1, <1>2 DEF PlaceOrder, PendingRow
<1>3. ASSUME NEW s \in Staff, StaffStep(s) PROVE Goal
  <2>1. CommitStatus(s) => Goal
    BY <1>1 DEF CommitStatus, PaymentRow
  <2>2. CommitConfirm(s) => Goal
    BY <1>1 DEF CommitConfirm, Settled, PaymentRow
  <2> QED
    BY <1>3, <2>1, <2>2 DEF StaffStep, ReadStatus, ReadForConfirm
<1>4. ASSUME NEW m \in Moderators, ModeratorStep(m) PROVE Goal
  <2>1. ASSUME NEW d \in Routes \cup {Pickup}, CommitDelivery(m, d.delivery, d.price)
        PROVE  Goal
    <3>1. \E total : \/ payments'[p] = payments[p]
                     \/ payments'[p] = [payments[p] EXCEPT !.amount = total]
      BY <2>1 DEF CommitDelivery
    <3> QED
      BY <1>1, <3>1 DEF PaymentRow
  <2> QED
    BY <1>4, <2>1 DEF ModeratorStep, ReadDelivery
<1>5. ASSUME NEW b \in Buyers, BuyerStep(b) PROVE Goal
  <2>1. PrepareSwitch(b) => Goal
    <3> SUFFICES ASSUME PrepareSwitch(b) PROVE Goal
      OBVIOUS
    <3>1. PICK method : payments' = payments
             \/ payments' = [payments EXCEPT ![buyer[b].pending] =
                               [payments[buyer[b].pending] EXCEPT !.method = method]]
      BY DEF PrepareSwitch
    <3> QED
      BY <1>1, <3>1 DEF PaymentRow
  <2>2. SaveRef(b) => Goal
    BY <1>1 DEF SaveRef, PaymentRow
  <2>3. PrepareNew(b) => Goal
    BY <1>1 DEF PrepareNew, PendingRow, PaymentRow
  <2> QED
    BY <1>5, <2>1, <2>2, <2>3 DEF BuyerStep, ReadForStart, PrepareSame, CallProvider
<1>6. ASSUME NEW h \in Hooks, HookStep(h) PROVE Goal
  BY <1>1, <1>6 DEF HookStep, ReadForWebhook, CommitWebhook, Settled, PaymentRow
<1>7. ASSUME Crash \/ UNCHANGED vars \/ \E q \in Payments : ProviderPays(q) \/ ProviderFails(q)
      PROVE  Goal
  BY <1>7 DEF Crash, vars, ProviderPays, ProviderFails
<1> QED
  BY <1>2, <1>3, <1>4, <1>5, <1>6, <1>7 DEF Next

\* Who changes what the provider was given, and what it sends.
LEMMA IntentWriters ==
  ASSUME SettlementInv, [Next]_vars
  PROVE  \/ \E b \in Buyers : CallProvider(b)
         \/ \E p \in Payments : ProviderPays(p) \/ ProviderFails(p)
         \/ \A p \in Payments : /\ provider'[p].amount = provider[p].amount
                                /\ provider'[p].sent = provider[p].sent
<1> DEFINE Quiet == \A p \in Payments : /\ provider'[p].amount = provider[p].amount
                                        /\ provider'[p].sent = provider[p].sent
<1>1. provider \in [Payments -> Intent]
  BY DEF SettlementInv, TypeOK
<1>2. ASSUME NEW q \in Payments, NEW e, Acknowledge(q, e) PROVE Quiet
  BY <1>1, <1>2 DEF Acknowledge, Intent
<1>3. ASSUME NEW h \in Hooks, HookStep(h) PROVE Quiet
  <2>1. CommitWebhook(h) => hook[h].payment \in Payments
    BY DEF CommitWebhook, SettlementInv, RequestsKnown
  <2> QED
    BY <1>2, <1>3, <2>1 DEF HookStep, ReadForWebhook, CommitWebhook
<1>4. ASSUME UNCHANGED provider PROVE Quiet
  BY <1>4
<1>5. ASSUME NEW b \in Buyers, BuyerStep(b) PROVE CallProvider(b) \/ UNCHANGED provider
  BY <1>5 DEF BuyerStep, ReadForStart, PrepareSame, PrepareSwitch, PrepareNew, SaveRef
<1>6. \/ \E h \in Hooks : HookStep(h)
      \/ \E b \in Buyers : BuyerStep(b)
      \/ \E p \in Payments : ProviderPays(p) \/ ProviderFails(p)
      \/ UNCHANGED provider
  BY DEF Next, vars, PlaceOrder, requests, StaffStep, ReadStatus, ReadForConfirm,
         CommitStatus, CommitConfirm, ModeratorStep, ReadDelivery, CommitDelivery, Crash
<1> QED
  BY <1>3, <1>4, <1>5, <1>6

\* What the provider was given stays, and starts as the payment's amount.
LEMMA IntentsStay ==
  ASSUME CreditInv, [Next]_vars, NEW p \in Payments
  PROVE  /\ provider[p].amount # 0 => provider'[p].amount = provider[p].amount
         /\ provider'[p].amount # 0 /\ provider[p].amount = 0 =>
              payments[p].status # "absent" /\ provider'[p].amount = payments[p].amount
         /\ provider'[p].sent # {} => provider[p].amount # 0
<1> USE DEF CreditInv
<1>1. provider \in [Payments -> Intent]
  BY DEF SettlementInv, TypeOK
<1>2. ASSUME NEW b \in Buyers, CallProvider(b)
      PROVE  /\ provider[p].amount # 0 => provider'[p].amount = provider[p].amount
             /\ provider'[p].amount # 0 /\ provider[p].amount = 0 =>
                  payments[p].status # "absent" /\ provider'[p].amount = payments[p].amount
             /\ provider'[p].sent = provider[p].sent
  <2>1. PICK q \in Payments, n \in Nat :
          /\ q = buyer[b].pending /\ n = buyer[b].amount
          /\ payments[q].status # "absent" /\ n = payments[q].amount
    BY <1>2 DEF CallProvider, AmountsRead, SettlementInv, TypeOK, BuyerRequest
  <2>2. PICK m : /\ provider' = [provider EXCEPT ![q].amount = m]
                 /\ m = IF provider[q].amount = 0 THEN n ELSE provider[q].amount
    BY <1>2, <2>1 DEF CallProvider
  <2>3. /\ provider'[q].amount = m /\ provider'[q].sent = provider[q].sent
        /\ \A u \in Payments : u # q => provider'[u] = provider[u]
    BY <1>1, <2>2 DEF Intent
  <2> QED
    BY <2>1, <2>2, <2>3
<1>3. ASSUME NEW q \in Payments, ProviderPays(q) \/ ProviderFails(q)
      PROVE  /\ provider'[p].amount = provider[p].amount
             /\ provider'[p].sent # {} => provider[p].amount # 0
  <2>1. provider[q].amount # 0
    BY <1>3 DEF ProviderPays, ProviderFails, AmountsKnown
  <2>2. PICK sent : provider' = [provider EXCEPT ![q].sent = sent]
    BY <1>3 DEF ProviderPays, ProviderFails
  <2>3. /\ provider'[q].amount = provider[q].amount
        /\ \A u \in Payments : u # q => provider'[u] = provider[u]
    BY <1>1, <2>2 DEF Intent
  <2> QED
    BY <2>1, <2>3 DEF AmountsKnown
<1> QED
  BY <1>2, <1>3, IntentWriters DEF AmountsKnown

\* Every step leaves what the provider was given the payment's amount.
LEMMA AmountsKnownStep ==
  ASSUME CreditInv, [Next]_vars, [AmountsStay]_vars
  PROVE  AmountsKnown'
<1> USE DEF CreditInv
<1>1. ASSUME NEW o \in Orders, orders'[o].status # "absent" PROVE orders'[o].grandTotal > 0
  <2> USE DEF SettlementInv
  <2>1. orders \in [Orders -> Order]
    BY DEF TypeOK
  <2>2. CASE orders'[o].grandTotal = orders[o].grandTotal /\ orders[o].status # "absent"
    BY <2>2 DEF AmountsKnown
  <2>3. ASSUME NEW u \in Orders, NEW d \in Routes \cup {Pickup, Unpriced},
               NEW method \in PaymentMethod, PlaceOrder(u, d.delivery, d.price, method)
        PROVE  orders'[o].grandTotal > 0
    <3>1. ItemsTotal[u] + d.price > 0
      BY SettlementAssumption, DeliveryTypes
    <3>2. u = o => orders'[o].grandTotal = ItemsTotal[u] + d.price
      BY <2>1, <2>3 DEF PlaceOrder
    <3>3. u # o => orders'[o] = orders[o]
      BY <2>1, <2>3 DEF PlaceOrder
    <3> QED
      BY <1>1, <3>1, <3>2, <3>3 DEF AmountsKnown
  <2>4. ASSUME NEW s \in Staff, CommitStatus(s) PROVE orders'[o].grandTotal > 0
    <3>1. PICK u \in Orders : UNCHANGED orders \/ orders' = [orders EXCEPT ![u].status = staff[s].to]
      BY <2>4, StatusWritten
    <3>2. orders'[o].grandTotal = orders[o].grandTotal
      BY <2>1, <3>1 DEF Order
    <3>3. orders[o].status # "absent"
      <4>1. orders[staff[s].order].status # "absent"
        BY <2>4 DEF CommitStatus, RequestsKnown
      <4>2. staff[s].order # o => orders'[o] = orders[o]
        BY <2>1, <2>4 DEF CommitStatus
      <4> QED
        BY <1>1, <4>1, <4>2
    <3> QED
      BY <3>2, <3>3 DEF AmountsKnown
  <2>5. ASSUME NEW m \in Moderators, NEW d \in Routes \cup {Pickup},
               CommitDelivery(m, d.delivery, d.price)
        PROVE  orders'[o].grandTotal > 0
    <3>1. PICK u \in Orders : u = moderator[m].order
      BY <2>5 DEF CommitDelivery, RequestsKnown
    <3>2. PICK total \in Int : total = ItemsTotal[u] + d.price
      BY SettlementAssumption, DeliveryTypes
    <3>3. total > 0
      BY <3>2, SettlementAssumption, DeliveryTypes
    <3>4. orders' = [orders EXCEPT ![u] =
             [orders[u] EXCEPT !.deliveryRequested = d.delivery,
                               !.deliveryTotal = d.price, !.grandTotal = total]]
      BY <2>5, <3>1, <3>2 DEF CommitDelivery
    <3>5. u = o => orders'[o].grandTotal = total
      BY <2>1, <3>4 DEF Order
    <3>6. u # o => orders'[o] = orders[o]
      BY <2>1, <3>4
    <3> QED
      BY <1>1, <3>3, <3>5, <3>6 DEF AmountsKnown
  <2>6. CASE UNCHANGED orders
    BY <1>1, <2>6 DEF AmountsKnown
  <2> QED
    BY <2>3, <2>4, <2>5, <2>6, OrderWriters DEF ReadDelivery
<1>2. ASSUME NEW p \in Payments, payments'[p].status # "absent" PROVE payments'[p].amount > 0
  <2>1. CASE payments[p].status = "absent"
    BY <1>2, <2>1, NewAmount
  <2>2. CASE payments[p].status # "absent"
    BY <2>2, PaymentsStay DEF AmountsKnown
  <2> QED
    BY <2>1, <2>2
<1>3. ASSUME NEW p \in Payments, provider'[p].amount # 0
      PROVE  payments'[p].status # "absent" /\ provider'[p].amount = payments'[p].amount
  <2>1. payments[p].status # "absent" /\ provider'[p].amount = payments[p].amount
    BY <1>3, IntentsStay DEF AmountsKnown
  <2> QED
    BY <2>1, PaymentsStay
<1>4. ASSUME NEW p \in Payments, payments'[p].ref \/ provider'[p].sent # {}
      PROVE  provider'[p].amount # 0
  <2>1. provider[p].amount # 0
    <3>1. ASSUME NEW b \in Buyers, SaveRef(b), buyer[b].pending = p
          PROVE  provider[p].amount # 0
      BY <3>1 DEF SaveRef, AmountsRead
    <3> QED
      BY <1>4, <3>1, RefWriters, IntentsStay DEF AmountsKnown
  <2> QED
    BY <2>1, IntentsStay
<1> QED
  BY <1>1, <1>2, <1>3, <1>4 DEF AmountsKnown

\* What a request has read of an amount, or hands to the provider, is the payment's.
LEMMA AmountsReadStep ==
  ASSUME CreditInv, [Next]_vars, [AmountsStay]_vars
  PROVE  AmountsRead'
<1> USE DEF CreditInv
<1>1. ASSUME NEW s \in Staff, staff'[s].pc = "confirming"
      PROVE  /\ payments'[staff'[s].payment].status # "absent"
             /\ staff'[s].amount = payments'[staff'[s].payment].amount
  <2>1. CASE staff'[s] = staff[s]
    <3>1. staff[s].payment \in Payments
      BY <1>1, <2>1 DEF SettlementInv, RequestsKnown
    <3> QED
      BY <1>1, <2>1, <3>1, PaymentsStay DEF AmountsRead
  <2>2. staff'[s] # IdleStaff
    BY <1>1 DEF IdleStaff
  <2>3. ASSUME NEW o \in Orders, NEW to \in OrderStatus, ReadStatus(s, o, to) PROVE FALSE
    <3> DEFINE r == [IdleStaff EXCEPT !.pc = "changing", !.order = o,
                                      !.from = orders[o].status, !.to = to]
    <3>1. staff' = [staff EXCEPT ![s] = r] /\ r.pc = "changing"
      BY <2>3 DEF ReadStatus, IdleStaff
    <3> HIDE DEF r
    <3> QED
      BY <1>1, <3>1 DEF SettlementInv, TypeOK
  <2>4. ASSUME NEW p \in Payments, ReadForConfirm(s, p)
        PROVE  /\ staff'[s].payment = p /\ staff'[s].amount = payments[p].amount
               /\ payments[p].status # "absent" /\ UNCHANGED payments
    <3> DEFINE r == [IdleStaff EXCEPT !.pc = "confirming", !.payment = p,
                                      !.amount = payments[p].amount]
    <3>1. /\ staff' = [staff EXCEPT ![s] = r]
          /\ r.payment = p /\ r.amount = payments[p].amount
      BY <2>4 DEF ReadForConfirm, IdleStaff
    <3> HIDE DEF r
    <3> QED
      BY <2>4, <3>1 DEF ReadForConfirm, SettlementInv, TypeOK
  <2> QED
    BY <2>1, <2>2, <2>3, <2>4, StaffWriters
<1>2. ASSUME NEW h \in Hooks, hook'[h].pc = "settling"
      PROVE  /\ payments'[hook'[h].payment].status # "absent"
             /\ hook'[h].amount = payments'[hook'[h].payment].amount
  <2>0. hook \in [Hooks -> HookRequest] /\ IdleHook.pc = "idle"
    BY DEF SettlementInv, TypeOK, IdleHook
  <2>1. CASE hook'[h] = hook[h]
    <3>1. hook[h].payment \in Payments
      BY <1>2, <2>1 DEF SettlementInv, RequestsKnown
    <3> QED
      BY <1>2, <2>1, <3>1, PaymentsStay DEF AmountsRead
  <2>2. ASSUME NEW g \in Hooks, NEW p \in Payments, NEW e \in {"PAID", "FAILED"},
               ReadForWebhook(g, p, e), hook'[h] # hook[h]
        PROVE  /\ hook'[h].payment = p /\ hook'[h].amount = payments[p].amount
               /\ payments[p].status # "absent" /\ UNCHANGED payments
    BY <2>0, <2>2 DEF ReadForWebhook
  <2>3. ASSUME NEW g \in Hooks, hook' = [hook EXCEPT ![g] = IdleHook]
        PROVE  hook'[h] = hook[h]
    BY <1>2, <2>0, <2>3
  <2> QED
    BY <2>1, <2>2, <2>3, HookWriters DEF CommitWebhook, Event
<1>3. ASSUME NEW b \in Buyers, buyer'[b].pc = "preparing" PROVE buyer'[b].grandTotal > 0
  <2>1. ASSUME NEW o \in Orders, NEW method \in PaymentMethod, ReadForStart(b, o, method)
        PROVE  buyer'[b].grandTotal > 0
    <3>1. buyer'[b].grandTotal = orders[o].grandTotal
      BY <2>1, StartReads
    <3>2. orders[o].status # "absent"
      BY <2>1 DEF ReadForStart
    <3> QED
      BY <3>1, <3>2 DEF AmountsKnown
  <2>2. CASE buyer'[b] = buyer[b]
    BY <1>3, <2>2 DEF AmountsRead
  <2> QED
    BY <1>3, <2>1, <2>2, BuyerWriters, Prepares
<1>4. ASSUME NEW b \in Buyers, buyer'[b].pc = "calling"
      PROVE  /\ buyer'[b].pending \in Payments
             /\ payments'[buyer'[b].pending].status # "absent"
             /\ buyer'[b].amount = payments'[buyer'[b].pending].amount
  <2> DEFINE Goal == /\ buyer'[b].pending \in Payments
                     /\ payments'[buyer'[b].pending].status # "absent"
                     /\ buyer'[b].amount = payments'[buyer'[b].pending].amount
  <2>0. buyer \in [Buyers -> BuyerRequest] /\ IdleBuyer.pc = "idle"
        /\ payments \in [Payments -> PaymentRow]
    BY DEF SettlementInv, TypeOK, IdleBuyer
  <2>1. ASSUME NEW p \in Payments, payments'[p].status # "absent",
               NEW row, row.amount = payments'[p].amount, Prepared(b, p, row)
        PROVE  Goal
    BY <1>4, <2>0, <2>1, PreparedRequest
  <2>2. CASE buyer'[b] = buyer[b]
    BY <1>4, <2>2, PaymentsStay DEF AmountsRead
  <2>3. ASSUME NEW o \in Orders, NEW method \in PaymentMethod, ReadForStart(b, o, method)
        PROVE  FALSE
    BY <1>4, <2>3, StartReads
  <2>4. CASE PrepareSame(b)
    <3>1. /\ buyer[b].pending \in Payments /\ payments[buyer[b].pending].status # "absent"
          /\ UNCHANGED payments /\ Prepared(b, buyer[b].pending, payments[buyer[b].pending])
      BY <2>0, <2>4 DEF PrepareSame, SettlementInv, RequestsKnown, BuyerRequest
    <3> QED
      BY <2>1, <3>1
  <2>5. CASE PrepareSwitch(b)
    <3> DEFINE p == buyer[b].pending
               row == [payments[p] EXCEPT !.method = buyer[b].method]
    <3>1. buyer'[b] # IdleBuyer
      BY <1>4, <2>0
    <3>2. p \in Payments /\ payments[p].status # "absent"
      BY <2>0, <2>5 DEF PrepareSwitch, SettlementInv, RequestsKnown, BuyerRequest
    <3>3. Prepared(b, p, row) /\ payments' = [payments EXCEPT ![p] = row]
      BY <2>0, <2>5, <3>1 DEF PrepareSwitch
    <3>4. row.amount = payments[p].amount /\ row.status = payments[p].status
      BY <2>0, <3>2 DEF PaymentRow
    <3> HIDE DEF p, row
    <3>5. payments'[p] = row
      BY <2>0, <3>2, <3>3
    <3> QED
      BY <2>1, <3>2, <3>3, <3>4, <3>5
  <2>6. CASE PrepareNew(b)
    <3> DEFINE old == buyer[b].pending
               row == PendingRow(buyer[b].order, buyer[b].method, buyer[b].grandTotal)
    <3>1. buyer'[b] # IdleBuyer
      BY <1>4, <2>0
    <3>2. /\ IF old = NoPayment THEN Pending(buyer[b].order) = {}
             ELSE payments[old].status = "PENDING"
          /\ payments' = [q \in Payments |->
               IF q = old THEN [payments[q] EXCEPT !.status = "CANCELLED"]
               ELSE IF q = NewPayment THEN row ELSE payments[q]]
          /\ Prepared(b, NewPayment, row)
      BY <2>0, <2>6, <3>1 DEF PrepareNew
    <3>3. NewPayment \in Payments /\ payments[NewPayment].status = "absent"
      BY <2>6, NewPaymentFresh DEF PrepareNew
    <3>4. row.status = "PENDING"
      BY DEF PendingRow
    <3> HIDE DEF row, old
    <3>5. payments'[NewPayment] = row
      BY <3>2, <3>3, SettlementAssumption
    <3> QED
      BY <2>1, <3>2, <3>3, <3>4, <3>5
  <2>7. ~CallProvider(b)
    BY <1>4, <2>0 DEF CallProvider, BuyerRequest
  <2> QED
    BY <1>4, <2>0, <2>2, <2>3, <2>4, <2>5, <2>6, <2>7, BuyerWriters
<1>5. ASSUME NEW b \in Buyers, buyer'[b].pc = "saving"
      PROVE  buyer'[b].pending \in Payments /\ provider'[buyer'[b].pending].amount # 0
  <2>0. buyer \in [Buyers -> BuyerRequest] /\ IdleBuyer.pc = "idle"
        /\ provider \in [Payments -> Intent]
    BY DEF SettlementInv, TypeOK, IdleBuyer
  <2>1. CASE buyer'[b] = buyer[b]
    BY <1>5, <2>1, IntentsStay DEF AmountsRead
  <2>2. ASSUME NEW o \in Orders, NEW method \in PaymentMethod, ReadForStart(b, o, method)
        PROVE  FALSE
    BY <1>5, <2>2, StartReads
  <2>3. ASSUME NEW p, NEW row, Prepared(b, p, row) PROVE FALSE
    BY <1>5, <2>0, <2>3, PreparedRequest
  <2>4. ~(PrepareSame(b) \/ PrepareSwitch(b) \/ PrepareNew(b))
    BY <1>5, <2>0, <2>3 DEF PrepareSame, PrepareSwitch, PrepareNew
  <2>5. CASE CallProvider(b)
    <3>1. PICK q \in Payments, n \in Nat :
            /\ q = buyer[b].pending /\ n = buyer[b].amount
            /\ payments[q].status # "absent" /\ n = payments[q].amount
      BY <2>5 DEF CallProvider, AmountsRead, SettlementInv, TypeOK, BuyerRequest
    <3>2. n # 0
      BY <3>1 DEF AmountsKnown
    <3>3. provider'[q].amount = IF provider[q].amount = 0 THEN n ELSE provider[q].amount
      BY <2>0, <2>5, <3>1 DEF CallProvider, Intent
    <3>4. buyer'[b].pending = q
      BY <2>0, <2>5, <3>1 DEF CallProvider, BuyerRequest
    <3> QED
      BY <3>2, <3>3, <3>4
  <2> QED
    BY <1>5, <2>0, <2>1, <2>2, <2>4, <2>5, BuyerWriters
<1> QED
  BY <1>1, <1>2, <1>3, <1>4, <1>5 DEF AmountsRead

(***************************************************************************)
(* The account is credited what was paid (payment-provider.interface.ts),  *)
(* as long as no delivery change writes another amount into a payment that *)
(* has been opened.                                                        *)
(***************************************************************************)
THEOREM CreditedAtKeptAmounts ==
  Spec /\ [][AmountsStay]_vars => []CreditedWhatWasPaid
<1>1. Init => CreditInv
  <2> SUFFICES ASSUME Init PROVE CreditInv
    OBVIOUS
  <2>1. AmountsKnown /\ CreditsExact
    BY DEF Init, AmountsKnown, CreditsExact, Absent
  <2>2. AmountsRead
    BY DEF Init, AmountsRead, IdleStaff, IdleBuyer, IdleHook
  <2> QED
    BY <2>1, <2>2, SettlementInitInv DEF CreditInv
<1>2. CreditInv /\ [Next]_vars /\ [AmountsStay]_vars => CreditInv'
  BY SettlementStep, AmountsKnownStep, AmountsReadStep, CreditsStep DEF CreditInv
<1>3. CreditInv => CreditedWhatWasPaid
  BY DEF CreditInv, AmountsKnown, CreditsExact, CreditedWhatWasPaid
<1> QED
  BY <1>1, <1>2, <1>3, PTL DEF Spec

=============================================================================
