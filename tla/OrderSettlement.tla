-------------------------- MODULE OrderSettlement --------------------------
(***************************************************************************)
(* An order's money: its status, its delivery price, its payments at the    *)
(* card provider or in cash, and the customer's account.                    *)
(*                                                                          *)
(* Every handler reads rows first and writes later.  What it read stays in  *)
(* its request record while other requests run; what the handler checks     *)
(* again inside its transaction is exactly what the guards of its second    *)
(* step check.  A transaction is one step: all of them take the order or    *)
(* payment row before anything else (StockReservation has the row locks).   *)
(***************************************************************************)
EXTENDS Integers, Sequences, FiniteSets, OrderFlow

CONSTANTS
  Orders,          \* orders
  AccountOrders,   \* those placed by a customer with an account, not a guest
  Payments,        \* payment rows that may be created
  Staff,           \* concurrent status changes and manual confirmations
  Moderators,      \* concurrent delivery changes
  Buyers,          \* concurrent payment starts
  Hooks,           \* concurrent webhook calls
  ItemsTotal,      \* order.itemsTotal
  DeliveryPrices,  \* prices the tariffs give
  MaxDebt,         \* bound: no delivery change once this much DEBT is written
  NoOrder, NoPayment

ASSUME SettlementAssumption ==
  /\ AccountOrders \subseteq Orders
  /\ ItemsTotal \in [Orders -> Nat \ {0}]
  /\ DeliveryPrices \subseteq Nat
  /\ MaxDebt \in Nat
  /\ NoOrder \notin Orders
  /\ NoPayment \notin Payments

VARIABLES
  orders,     \* rows of orders
  payments,   \* rows of payments
  ledger,     \* per order: its DEBT and ADJUSTMENT entries, summed by type
  posted,     \* per payment: amounts of its PAYMENT entries
  provider,   \* the card provider's side of each payment
  flagged,    \* payments a warning asked a person to check
  staff, moderator, buyer, hook  \* requests in flight

requests == <<staff, moderator, buyer, hook>>
vars == <<orders, payments, ledger, posted, provider, flagged,
          staff, moderator, buyer, hook>>

PaymentMethod == {"CARD", "CASH"}
Event == {"PAID", "FAILED"}

IdleStaff == [pc |-> "idle", order |-> NoOrder, from |-> "NEW", to |-> "NEW",
              payment |-> NoPayment, amount |-> 0]
IdleModerator == [pc |-> "idle", order |-> NoOrder, grandTotal |-> 0]
IdleBuyer == [pc |-> "idle", order |-> NoOrder, method |-> "CASH", grandTotal |-> 0,
              pending |-> NoPayment, pendingMethod |-> "CASH", pendingRef |-> FALSE,
              amount |-> 0]
IdleHook == [pc |-> "idle", payment |-> NoPayment, event |-> "PAID", amount |-> 0]

Absent == [order |-> NoOrder, method |-> "CASH", status |-> "absent",
           amount |-> 0, ref |-> FALSE]

Init ==
  /\ orders = [o \in Orders |-> [status |-> "absent", deliveryRequested |-> FALSE,
                                 deliveryTotal |-> 0, grandTotal |-> 0]]
  /\ payments = [p \in Payments |-> Absent]
  /\ ledger = [o \in Orders |-> [debt |-> 0, adjustment |-> 0]]
  /\ posted = [p \in Payments |-> <<>>]
  /\ provider = [p \in Payments |-> [amount |-> 0, sent |-> {}, acked |-> {}]]
  /\ flagged = {}
  /\ staff = [s \in Staff |-> IdleStaff]
  /\ moderator = [m \in Moderators |-> IdleModerator]
  /\ buyer = [b \in Buyers |-> IdleBuyer]
  /\ hook = [h \in Hooks |-> IdleHook]

-----------------------------------------------------------------------------
(* Rows                                                                    *)

PaymentsOf(o) == {p \in Payments : payments[p].order = o}
Pending(o) == {p \in PaymentsOf(o) : payments[p].status = "PENDING"}
IsPaid(o) == \E p \in PaymentsOf(o) : payments[p].status = "PAID"

FreshPayments == {p \in Payments : payments[p].status = "absent"}
NewPayment == CHOOSE p \in FreshPayments : TRUE

PendingRow(o, method, amount) ==
  [order |-> o, method |-> method, status |-> "PENDING",
   amount |-> amount, ref |-> FALSE]

\* Mutant of Recorded: the comparison that chooses the type is turned round.
RecordedSwapped(o, amount) ==
  IF o \notin AccountOrders \/ amount = 0 THEN ledger
  ELSE IF amount < 0 THEN [ledger EXCEPT ![o].debt = @ + amount]
  ELSE [ledger EXCEPT ![o].adjustment = @ + amount]

\* An order-linked account entry: positive is DEBT, negative ADJUSTMENT.
Recorded(o, amount) ==
  IF o \notin AccountOrders \/ amount = 0 THEN ledger
  ELSE IF amount > 0 THEN [ledger EXCEPT ![o].debt = @ + amount]
  ELSE [ledger EXCEPT ![o].adjustment = @ + amount]

\* Mutant of NetDebt: only DEBT is written back, as before adjustments existed.
DebtOnly(o) == ledger[o].debt

NetDebt(o) == ledger[o].debt + ledger[o].adjustment

\* PaymentSettlementService.settle on a PENDING payment: its final status and,
\* for PAID, the account's PAYMENT entry of the amount the caller had read.
Settled(p, status, amount) ==
  /\ payments' = [payments EXCEPT ![p].status = status]
  /\ posted' = IF status = "PAID" /\ payments[p].order \in AccountOrders
               THEN [posted EXCEPT ![p] = Append(@, amount)]
               ELSE posted

-----------------------------------------------------------------------------
(* Placing the order, and its status                                       *)

\* The transaction of place, stock aside.  price is 0 unless the order comes
\* with its route.
PlaceOrder(o, delivery, price, method) ==
  /\ orders[o].status = "absent"
  /\ FreshPayments # {}
  /\ orders' = [orders EXCEPT ![o] =
       [status |-> "NEW", deliveryRequested |-> delivery,
        deliveryTotal |-> price, grandTotal |-> ItemsTotal[o] + price]]
  /\ payments' = [payments EXCEPT ![NewPayment] =
       PendingRow(o, method, ItemsTotal[o] + price)]
  /\ ledger' = Recorded(o, ItemsTotal[o] + price)
  /\ UNCHANGED <<posted, provider, flagged, requests>>

ReadStatus(s, o, to) ==
  /\ staff[s].pc = "idle"
  /\ orders[o].status # "absent"
  /\ canTransition(orders[o].status, to, orders[o].deliveryRequested)
  /\ staff' = [staff EXCEPT ![s] = [IdleStaff EXCEPT !.pc = "changing", !.order = o,
                                      !.from = orders[o].status, !.to = to]]
  /\ UNCHANGED <<orders, payments, ledger, posted, provider, flagged,
                 moderator, buyer, hook>>

\* Mutant of CommitStatus: the UPDATE does not repeat the status that was read.
CommitStatusBlind(s) ==
  /\ staff[s].pc = "changing"
  /\ orders' = [orders EXCEPT ![staff[s].order].status = staff[s].to]
  /\ staff' = [staff EXCEPT ![s] = IdleStaff]
  /\ UNCHANGED <<payments, ledger, posted, provider, flagged, moderator, buyer, hook>>

\* The optimistic UPDATE, and what a cancellation does in the same transaction:
\* pending payments are cancelled and the order's net debt is written back.
CommitStatus(s) ==
  LET o == staff[s].order
      cancel == staff[s].to = "CANCELLED" IN
  /\ staff[s].pc = "changing"
  /\ IF orders[o].status = staff[s].from
     THEN /\ orders' = [orders EXCEPT ![o].status = staff[s].to]
          /\ payments' = [p \in Payments |->
               IF cancel /\ p \in Pending(o)
               THEN [payments[p] EXCEPT !.status = "CANCELLED"] ELSE payments[p]]
          /\ ledger' = IF cancel /\ NetDebt(o) > 0
                       THEN Recorded(o, -NetDebt(o)) ELSE ledger
     ELSE UNCHANGED <<orders, payments, ledger>>  \* 409
  /\ staff' = [staff EXCEPT ![s] = IdleStaff]
  /\ UNCHANGED <<posted, provider, flagged, moderator, buyer, hook>>

-----------------------------------------------------------------------------
(* The moderator's delivery change                                         *)

DELIVERY_EDITABLE_STATUSES == {"NEW", "SEARCHING_TRANSPORT"}

ReadDelivery(m, o) ==
  /\ moderator[m].pc = "idle"
  /\ orders[o].status \in DELIVERY_EDITABLE_STATUSES
  /\ ~IsPaid(o)
  /\ ledger[o].debt < MaxDebt
  /\ moderator' = [moderator EXCEPT ![m] =
       [pc |-> "pricing", order |-> o, grandTotal |-> orders[o].grandTotal]]
  /\ UNCHANGED <<orders, payments, ledger, posted, provider, flagged,
                 staff, buyer, hook>>

\* Mutant of CommitDelivery: a cheaper route is not written to the account.
CommitDeliveryNoRefund(m, delivery, price) ==
  LET o == moderator[m].order
      newGrandTotal == ItemsTotal[o] + price
      delta == newGrandTotal - moderator[m].grandTotal IN
  /\ moderator[m].pc = "pricing"
  /\ orders' = [orders EXCEPT ![o] =
       [@ EXCEPT !.deliveryRequested = delivery,
                 !.deliveryTotal = price, !.grandTotal = newGrandTotal]]
  /\ ledger' = IF delta > 0 THEN Recorded(o, delta) ELSE ledger
  /\ moderator' = [moderator EXCEPT ![m] = IdleModerator]
  /\ UNCHANGED <<payments, posted, provider, flagged, staff, buyer, hook>>

\* The tariff is known: write the route (or pickup, at price 0) and, when the
\* total differs from the one read, the pending amount and the difference.
CommitDelivery(m, delivery, price) ==
  LET o == moderator[m].order
      newGrandTotal == ItemsTotal[o] + price
      delta == newGrandTotal - moderator[m].grandTotal IN
  /\ moderator[m].pc = "pricing"
  /\ orders' = [orders EXCEPT ![o] =
       [@ EXCEPT !.deliveryRequested = delivery,
                 !.deliveryTotal = price, !.grandTotal = newGrandTotal]]
  /\ payments' = [p \in Payments |->
       IF delta # 0 /\ p \in Pending(o)
       THEN [payments[p] EXCEPT !.amount = newGrandTotal] ELSE payments[p]]
  /\ ledger' = Recorded(o, delta)
  /\ moderator' = [moderator EXCEPT ![m] = IdleModerator]
  /\ UNCHANGED <<posted, provider, flagged, staff, buyer, hook>>

-----------------------------------------------------------------------------
(* The buyer starts a payment                                              *)

ReadForStart(b, o, method) ==
  /\ buyer[b].pc = "idle"
  /\ o \in AccountOrders
  /\ orders[o].status \notin {"absent", "CANCELLED"}
  /\ ~IsPaid(o)
  /\ LET pending == IF Pending(o) = {} THEN NoPayment
                    ELSE CHOOSE p \in Pending(o) : TRUE IN
     buyer' = [buyer EXCEPT ![b] =
       [IdleBuyer EXCEPT
          !.pc = "preparing", !.order = o, !.method = method,
          !.grandTotal = orders[o].grandTotal,
          !.pending = pending,
          !.pendingMethod = IF pending = NoPayment THEN method
                             ELSE payments[pending].method,
          !.pendingRef = pending # NoPayment /\ payments[pending].ref]]
  /\ UNCHANGED <<orders, payments, ledger, posted, provider, flagged,
                 staff, moderator, hook>>

\* The prepared payment p, in the state row, goes to the provider only if it is
\* a card payment not opened there yet.
Prepared(b, p, row) ==
  buyer' = [buyer EXCEPT ![b] =
    IF row.method = "CARD" /\ ~row.ref
    THEN [IdleBuyer EXCEPT !.pc = "calling", !.pending = p, !.amount = row.amount]
    ELSE IdleBuyer]

\* The pending payment already has the wanted method: it is read again.
PrepareSame(b) ==
  LET p == buyer[b].pending IN
  /\ buyer[b].pc = "preparing"
  /\ p # NoPayment
  /\ buyer[b].pendingMethod = buyer[b].method
  /\ Prepared(b, p, payments[p])
  /\ UNCHANGED <<orders, payments, ledger, posted, provider, flagged,
                 staff, moderator, hook>>

\* Another method, not opened at the provider when read: switch it, if the
\* payment is still PENDING.
PrepareSwitch(b) ==
  LET p == buyer[b].pending
      row == [payments[p] EXCEPT !.method = buyer[b].method] IN
  /\ buyer[b].pc = "preparing"
  /\ p # NoPayment
  /\ buyer[b].pendingMethod # buyer[b].method
  /\ ~buyer[b].pendingRef
  /\ IF payments[p].status = "PENDING"
     THEN /\ payments' = [payments EXCEPT ![p] = row]
          /\ Prepared(b, p, row)
     ELSE /\ buyer' = [buyer EXCEPT ![b] = IdleBuyer]  \* 409
          /\ UNCHANGED payments
  /\ UNCHANGED <<orders, ledger, posted, provider, flagged, staff, moderator, hook>>

\* Mutant of PrepareNew: the old payment is cancelled whatever its status.
PrepareNewBlind(b) ==
  LET p == buyer[b].pending
      row == PendingRow(buyer[b].order, buyer[b].method, buyer[b].grandTotal) IN
  /\ buyer[b].pc = "preparing"
  /\ p = NoPayment \/ (buyer[b].pendingMethod # buyer[b].method /\ buyer[b].pendingRef)
  /\ FreshPayments # {}
  /\ payments' = [q \in Payments |->
       IF q = p THEN [payments[q] EXCEPT !.status = "CANCELLED"]
       ELSE IF q = NewPayment THEN row ELSE payments[q]]
  /\ Prepared(b, NewPayment, row)
  /\ UNCHANGED <<orders, ledger, posted, provider, flagged, staff, moderator, hook>>

\* No pending payment, or one opened at the provider under another method,
\* which is cancelled: insert a new one.  The partial unique index refuses a
\* second PENDING payment of an order.
PrepareNew(b) ==
  LET o == buyer[b].order
      p == buyer[b].pending
      row == PendingRow(o, buyer[b].method, buyer[b].grandTotal)
      canInsert == IF p = NoPayment THEN Pending(o) = {}
                   ELSE payments[p].status = "PENDING" IN
  /\ buyer[b].pc = "preparing"
  /\ p = NoPayment \/ (buyer[b].pendingMethod # buyer[b].method /\ buyer[b].pendingRef)
  /\ FreshPayments # {}
  /\ IF canInsert
     THEN /\ payments' = [q \in Payments |->
               IF q = p THEN [payments[q] EXCEPT !.status = "CANCELLED"]
               ELSE IF q = NewPayment THEN row ELSE payments[q]]
          /\ Prepared(b, NewPayment, row)
     ELSE /\ buyer' = [buyer EXCEPT ![b] = IdleBuyer]  \* 409
          /\ UNCHANGED payments
  /\ UNCHANGED <<orders, ledger, posted, provider, flagged, staff, moderator, hook>>

\* createPayment with the payment's idempotency key: the provider opens one
\* intent per key and keeps the amount it was first given.
CallProvider(b) ==
  LET p == buyer[b].pending IN
  /\ buyer[b].pc = "calling"
  /\ provider' = [provider EXCEPT ![p].amount = IF @ = 0 THEN buyer[b].amount ELSE @]
  /\ buyer' = [buyer EXCEPT ![b].pc = "saving"]
  /\ UNCHANGED <<orders, payments, ledger, posted, flagged, staff, moderator, hook>>

SaveRef(b) ==
  LET p == buyer[b].pending IN
  /\ buyer[b].pc = "saving"
  /\ payments' = IF payments[p].status = "PENDING"
                 THEN [payments EXCEPT ![p].ref = TRUE] ELSE payments
  /\ buyer' = [buyer EXCEPT ![b] = IdleBuyer]
  /\ UNCHANGED <<orders, ledger, posted, provider, flagged, staff, moderator, hook>>

-----------------------------------------------------------------------------
(* Settling: a manual confirmation, a webhook                              *)

ReadForConfirm(s, p) ==
  /\ staff[s].pc = "idle"
  /\ payments[p].status = "PENDING"
  /\ payments[p].method # "CARD"
  /\ staff' = [staff EXCEPT ![s] = [IdleStaff EXCEPT !.pc = "confirming",
                                      !.payment = p, !.amount = payments[p].amount]]
  /\ UNCHANGED <<orders, payments, ledger, posted, provider, flagged,
                 moderator, buyer, hook>>

CommitConfirm(s) ==
  LET p == staff[s].payment IN
  /\ staff[s].pc = "confirming"
  /\ IF payments[p].status = "PENDING" THEN Settled(p, "PAID", staff[s].amount)
     ELSE UNCHANGED <<payments, posted>>  \* 409
  /\ staff' = [staff EXCEPT ![s] = IdleStaff]
  /\ UNCHANGED <<orders, ledger, provider, flagged, moderator, buyer, hook>>

\* The provider's side: the buyer pays from the QR code, which start returns
\* once the reference is saved; the provider gives up on an intent.
ProviderPays(p) ==
  /\ payments[p].ref
  /\ provider' = [provider EXCEPT ![p].sent = @ \cup {"PAID"}]
  /\ UNCHANGED <<orders, payments, ledger, posted, flagged, requests>>

ProviderFails(p) ==
  /\ provider[p].amount > 0
  /\ "PAID" \notin provider[p].sent
  /\ provider' = [provider EXCEPT ![p].sent = @ \cup {"FAILED"}]
  /\ UNCHANGED <<orders, payments, ledger, posted, flagged, requests>>

\* The answer 200: the provider need not repeat this event.
Acknowledge(p, e) == provider' = [provider EXCEPT ![p].acked = @ \cup {e}]

\* The transaction of apply reads the payment by its reference.  UNKNOWN,
\* DUPLICATE and IGNORED end here; UNKNOWN, and IGNORED for money paid, warn.
ReadForWebhook(h, p, e) ==
  LET unknown == ~payments[p].ref
      duplicate == payments[p].status = e
      ignored == payments[p].status # "PENDING" IN
  /\ hook[h].pc = "idle"
  /\ e \in provider[p].sent
  /\ IF unknown \/ duplicate \/ ignored
     THEN /\ Acknowledge(p, e)
          /\ flagged' = IF unknown \/ (~duplicate /\ e = "PAID")
                        THEN flagged \cup {p} ELSE flagged
          /\ UNCHANGED hook
     ELSE /\ hook' = [hook EXCEPT ![h] = [pc |-> "settling", payment |-> p,
                                          event |-> e, amount |-> payments[p].amount]]
          /\ UNCHANGED <<provider, flagged>>
  /\ UNCHANGED <<orders, payments, ledger, posted, staff, moderator, buyer>>

\* Mutant of CommitWebhook: settle writes without asking for PENDING again.
CommitWebhookBlind(h) ==
  LET p == hook[h].payment IN
  /\ hook[h].pc = "settling"
  /\ Settled(p, hook[h].event, hook[h].amount)
  /\ Acknowledge(p, hook[h].event)
  /\ hook' = [hook EXCEPT ![h] = IdleHook]
  /\ UNCHANGED <<orders, ledger, flagged, staff, moderator, buyer>>

\* Mutant of CommitWebhook: the answer goes out before settle, which is dropped.
CommitWebhookUnapplied(h) ==
  /\ hook[h].pc = "settling"
  /\ Acknowledge(hook[h].payment, hook[h].event)
  /\ hook' = [hook EXCEPT ![h] = IdleHook]
  /\ UNCHANGED <<orders, payments, ledger, posted, flagged, staff, moderator, buyer>>

\* settle, later in that transaction.  When its UPDATE matches no row the
\* outcome is DUPLICATE, whatever the payment has become meanwhile.
CommitWebhook(h) ==
  LET p == hook[h].payment IN
  /\ hook[h].pc = "settling"
  /\ IF payments[p].status = "PENDING" THEN Settled(p, hook[h].event, hook[h].amount)
     ELSE UNCHANGED <<payments, posted>>
  /\ Acknowledge(p, hook[h].event)
  /\ hook' = [hook EXCEPT ![h] = IdleHook]
  /\ UNCHANGED <<orders, ledger, flagged, staff, moderator, buyer>>

-----------------------------------------------------------------------------
\* A request dies between its reading and its writing: crash, timeout.
Crash ==
  /\ \/ \E s \in Staff : staff[s].pc # "idle"
          /\ staff' = [staff EXCEPT ![s] = IdleStaff] /\ UNCHANGED <<moderator, buyer, hook>>
     \/ \E m \in Moderators : moderator[m].pc # "idle"
          /\ moderator' = [moderator EXCEPT ![m] = IdleModerator]
          /\ UNCHANGED <<staff, buyer, hook>>
     \/ \E b \in Buyers : buyer[b].pc # "idle"
          /\ buyer' = [buyer EXCEPT ![b] = IdleBuyer] /\ UNCHANGED <<staff, moderator, hook>>
     \/ \E h \in Hooks : hook[h].pc # "idle"
          /\ hook' = [hook EXCEPT ![h] = IdleHook] /\ UNCHANGED <<staff, moderator, buyer>>
  /\ UNCHANGED <<orders, payments, ledger, posted, provider, flagged>>

\* Ways an order may be delivered, with what it costs: picked up, to be
\* delivered at a price not yet set, delivered over a route.
Pickup == [delivery |-> FALSE, price |-> 0]
Unpriced == [delivery |-> TRUE, price |-> 0]
Routes == {[delivery |-> TRUE, price |-> d] : d \in DeliveryPrices}

StaffStep(s) ==
  \/ \E o \in Orders, to \in OrderStatus : ReadStatus(s, o, to)
  \/ \E p \in Payments : ReadForConfirm(s, p)
  \/ CommitStatus(s) \/ CommitConfirm(s)

ModeratorStep(m) ==
  \/ \E o \in Orders : ReadDelivery(m, o)
  \/ \E d \in Routes \cup {Pickup} : CommitDelivery(m, d.delivery, d.price)

BuyerStep(b) ==
  \/ \E o \in Orders, method \in PaymentMethod : ReadForStart(b, o, method)
  \/ PrepareSame(b) \/ PrepareSwitch(b) \/ PrepareNew(b)
  \/ CallProvider(b) \/ SaveRef(b)

HookStep(h) ==
  \/ \E p \in Payments, e \in Event : ReadForWebhook(h, p, e)
  \/ CommitWebhook(h)

Next ==
  \/ \E o \in Orders, d \in Routes \cup {Pickup, Unpriced}, method \in PaymentMethod :
       PlaceOrder(o, d.delivery, d.price, method)
  \/ \E s \in Staff : StaffStep(s)
  \/ \E m \in Moderators : ModeratorStep(m)
  \/ \E b \in Buyers : BuyerStep(b)
  \/ \E h \in Hooks : HookStep(h)
  \/ \E p \in Payments : ProviderPays(p) \/ ProviderFails(p)
  \/ Crash

Spec == Init /\ [][Next]_vars

-----------------------------------------------------------------------------
(* Properties                                                              *)

PaymentRow == [order : Orders \cup {NoOrder}, method : PaymentMethod,
               status : {"absent", "PENDING", "PAID", "FAILED", "CANCELLED"},
               amount : Nat, ref : BOOLEAN]

Order == [status : OrderStatus \cup {"absent"}, deliveryRequested : BOOLEAN,
          deliveryTotal : Nat, grandTotal : Nat]
Account == [debt : Nat, adjustment : Int]
Intent == [amount : Nat, sent : SUBSET Event, acked : SUBSET Event]
StaffRequest == [pc : {"idle", "changing", "confirming"}, order : Orders \cup {NoOrder},
                 from : OrderStatus, to : OrderStatus,
                 payment : Payments \cup {NoPayment}, amount : Nat]
ModeratorRequest == [pc : {"idle", "pricing"}, order : Orders \cup {NoOrder},
                     grandTotal : Nat]
BuyerRequest == [pc : {"idle", "preparing", "calling", "saving"},
                 order : Orders \cup {NoOrder}, method : PaymentMethod,
                 grandTotal : Nat, pending : Payments \cup {NoPayment},
                 pendingMethod : PaymentMethod, pendingRef : BOOLEAN, amount : Nat]
HookRequest == [pc : {"idle", "settling"}, payment : Payments \cup {NoPayment},
                event : Event, amount : Nat]

\* Types of the rows and of the requests in flight; the sign of the account's
\* entries is part of them (assertSign).
TypeOK ==
  /\ orders \in [Orders -> Order]
  /\ payments \in [Payments -> PaymentRow]
  /\ ledger \in [Orders -> Account]
  /\ \A o \in Orders : ledger[o].adjustment <= 0
  /\ posted \in [Payments -> Seq(Nat)]
  /\ provider \in [Payments -> Intent]
  /\ flagged \subseteq Payments
  /\ staff \in [Staff -> StaffRequest]
  /\ moderator \in [Moderators -> ModeratorRequest]
  /\ buyer \in [Buyers -> BuyerRequest]
  /\ hook \in [Hooks -> HookRequest]

\* The account gets a PAYMENT entry for each PAID payment of a customer, one
\* and no more, however many webhooks, repeats and confirmations race.
SettledOnce ==
  \A p \in Payments :
    Len(posted[p]) = IF payments[p].status = "PAID" /\ payments[p].order \in AccountOrders
                     THEN 1 ELSE 0

\* Payments, in every interleaving of starts, switches, cancellations,
\* confirmations and webhooks, implement the atomic PaymentBook.
Book == INSTANCE PaymentBook WITH
  status <- [p \in Payments |-> payments[p].status],
  owner <- [p \in Payments |-> payments[p].order],
  entries <- [p \in Payments |-> Len(posted[p])]

ImplementsPaymentBook == Book!Spec

\* Two employees never drive an order along a step neither flow has: a final
\* status stays, and nothing is skipped.
FlowRespected ==
  [][\A o \in Orders :
       orders[o].status # "absent" /\ orders'[o].status # orders[o].status =>
         \/ canTransition(orders[o].status, orders'[o].status, TRUE)
         \/ canTransition(orders[o].status, orders'[o].status, FALSE)]_vars

\* What the account owes for an order.
Owed(o) == ledger[o].debt + ledger[o].adjustment

\* The account owes, for an order that stands, exactly the order's total.
DebtMatchesTotal ==
  \A o \in AccountOrders : orders[o].status \notin {"absent", "CANCELLED"} =>
    Owed(o) = orders[o].grandTotal

\* A cancellation writes back all of the order's debt, delivery changes included.
CancelReversesDebt ==
  [][\A o \in AccountOrders :
       orders[o].status # "CANCELLED" /\ orders'[o].status = "CANCELLED" =>
         Owed(o)' = 0]_vars

\* Once the provider has the money it says so until answered, and the payment
\* does not stay PENDING.
PaidLeavesPending ==
  \A p \in Payments :
    "PAID" \in provider[p].sent ~> payments[p].status # "PENDING"

\* The provider repeats an event until it is answered, and not every call dies.
FairSpec ==
  /\ Spec
  /\ \A h \in Hooks : SF_vars(CommitWebhook(h))
  /\ \A p \in Payments, e \in Event :
       SF_vars(e \notin provider[p].acked /\ \E h \in Hooks : ReadForWebhook(h, p, e))

-----------------------------------------------------------------------------
(* What the code and its documents say, and these handlers do not keep     *)

\* "Cancelling: until the load departs (NEW, SEARCHING_TRANSPORT, LOADING)"
\* (order-status.ts).
CancellableUntilDeparture ==
  \A o \in Orders : orders[o].status \in {"NEW", "SEARCHING_TRANSPORT", "LOADING"} =>
    canTransition(orders[o].status, "CANCELLED", orders[o].deliveryRequested)

\* "409: the order is cancelled, already paid, or a parallel request"
\* (docs/error-codes.md): an order is not paid twice.
PaidOnce ==
  \A o \in Orders : Cardinality({p \in PaymentsOf(o) : payments[p].status = "PAID"}) <= 1

\* "The amount comes from the caller, the order's grandTotal"
\* (payment-provider.interface.ts): the account is credited what was paid.
CreditedWhatWasPaid ==
  \A p \in Payments :
    payments[p].status = "PAID" /\ payments[p].method = "CARD"
      /\ "PAID" \in provider[p].sent /\ payments[p].order \in AccountOrders =>
        posted[p] = <<provider[p].amount>>

\* "The money may have come though the system did not accept it: a person must
\* look" (payment-webhook.service.ts): an answered PAID event left a PAID
\* payment or a warning.
MoneyAccounted ==
  \A p \in Payments :
    "PAID" \in provider[p].acked => payments[p].status = "PAID" \/ p \in flagged

=============================================================================
