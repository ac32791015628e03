---------------------------- MODULE PaymentBook ----------------------------
(***************************************************************************)
(* What payments promise, with every request atomic: an order has at most   *)
(* one open payment, a payment is closed once and for all, and the          *)
(* customer's account is credited in the very step that closes it as PAID.  *)
(* OrderSettlement implements this module.                                  *)
(***************************************************************************)
EXTENDS Naturals

CONSTANTS Orders, AccountOrders, Payments, NoOrder

VARIABLES
  status,   \* status[p]: "absent", "PENDING", or how it was closed
  owner,    \* owner[p]: the order p pays
  entries   \* entries[p]: PAYMENT entries of the account for p

bookVars == <<status, owner, entries>>

Init ==
  /\ status = [p \in Payments |-> "absent"]
  /\ owner = [p \in Payments |-> NoOrder]
  /\ entries = [p \in Payments |-> 0]

HasOpen(o) == \E p \in Payments : owner[p] = o /\ status[p] = "PENDING"

Open(p, o) ==
  /\ status[p] = "absent"
  /\ ~HasOpen(o)
  /\ status' = [status EXCEPT ![p] = "PENDING"]
  /\ owner' = [owner EXCEPT ![p] = o]
  /\ UNCHANGED entries

\* The open payment is given up for a new one of the same order.
Replace(p, q) ==
  /\ status[p] = "PENDING"
  /\ status[q] = "absent"
  /\ status' = [status EXCEPT ![p] = "CANCELLED", ![q] = "PENDING"]
  /\ owner' = [owner EXCEPT ![q] = owner[p]]
  /\ UNCHANGED entries

Close(p, end) ==
  /\ status[p] = "PENDING"
  /\ status' = [status EXCEPT ![p] = end]
  /\ entries' = IF end = "PAID" /\ owner[p] \in AccountOrders
                THEN [entries EXCEPT ![p] = entries[p] + 1] ELSE entries
  /\ UNCHANGED owner

Next ==
  \/ \E p \in Payments, o \in Orders : Open(p, o)
  \/ \E p, q \in Payments : Replace(p, q)
  \/ \E p \in Payments, end \in {"PAID", "FAILED", "CANCELLED"} : Close(p, end)

Spec == Init /\ [][Next]_bookVars

=============================================================================
