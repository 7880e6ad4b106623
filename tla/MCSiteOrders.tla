---------------------------- MODULE MCSiteOrders ----------------------------
(* Instances of SiteOrders for TLC: orders for a piece each.               *)
EXTENDS SiteOrders

CONSTANTS o1, o2

OneOrder == {o1}
TwoOrders == {o1, o2}
Ones == [o \in Order |-> 1]
=============================================================================
