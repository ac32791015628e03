------------------------------ MODULE MCStock ------------------------------
(* StockReservation on two products and three orders: o1 and o2 compete for  *)
(* the same last pallets, o3 predates stock reservation.                     *)
EXTENDS StockReservation, TLC

CONSTANTS p1, p2, o1, o2, o3

MCProducts == {p1, p2}
MCOrders == {o1, o2, o3}
MCLegacy == {o3}
MCBasket == [o \in MCOrders |-> [p \in MCProducts |->
  IF o = o2 /\ p = p2 THEN 2 ELSE 1]]
MCHasDelivery == [o \in MCOrders |-> FALSE]
MCInitialStock == [p \in MCProducts |-> 2]
MCStockLevels == {2}
Symmetry == Permutations(Procs)
=============================================================================
