---------------------------- MODULE MCSettlement ----------------------------
(* OrderSettlement with every order's items worth 2.                         *)
EXTENDS OrderSettlement

MCItemsTotal == [o \in Orders |-> 2]
=============================================================================
