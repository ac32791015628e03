----------------------------- MODULE OrderFlow -----------------------------
(***************************************************************************)
(* The order status machine of orders/order-status.ts: which status may    *)
(* follow which, for an order the company delivers and for one the buyer   *)
(* picks up himself.  Pure definitions, used by every module about orders. *)
(***************************************************************************)

OrderStatus == {"NEW", "SEARCHING_TRANSPORT", "LOADING",
                "DELIVERING", "DELIVERED", "CANCELLED"}

DELIVERY_FLOW ==
  [NEW                 |-> {"SEARCHING_TRANSPORT", "CANCELLED"},
   SEARCHING_TRANSPORT |-> {"LOADING", "CANCELLED"},
   LOADING             |-> {"DELIVERING", "CANCELLED"},
   DELIVERING          |-> {"DELIVERED"},
   DELIVERED           |-> {},
   CANCELLED           |-> {}]

PICKUP_FLOW ==
  [NEW                 |-> {"LOADING", "CANCELLED"},
   SEARCHING_TRANSPORT |-> {},
   LOADING             |-> {"DELIVERED", "CANCELLED"},
   DELIVERING          |-> {},
   DELIVERED           |-> {},
   CANCELLED           |-> {}]

allowedNextStatuses(current, hasDelivery) ==
  IF hasDelivery THEN DELIVERY_FLOW[current] ELSE PICKUP_FLOW[current]

canTransition(from, to, hasDelivery) ==
  to \in allowedNextStatuses(from, hasDelivery)

=============================================================================
