---------------------------- MODULE MCOfflineSync ----------------------------
(* Instances of OfflineSync for TLC. *)
EXTENDS OfflineSync, TLC

CONSTANTS o1, h1, h2, d1, d2

OneIn == [o \in {o1} |-> "IN"]

OneOp == {o1}
OneHandler == {h1}
TwoHandlers == {h1, h2}
OneDrain == {d1}
TwoDrains == {d1, d2}
=============================================================================
