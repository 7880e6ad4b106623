------------------------- MODULE MCPendingOperations -------------------------
(* Instances of PendingOperations for TLC. *)
EXTENDS PendingOperations, TLC

CONSTANTS o1, o2, h1, h2

OneIn == [o \in {o1} |-> "IN"]
InAndCount == [o \in {o1, o2} |-> IF o = o1 THEN "IN" ELSE "COUNT"]

OneSender == {"phone"}
NoOne == {}
OneOp == {o1}
TwoOps == {o1, o2}
TwoHandlers == {h1, h2}
AnyHandler == Permutations(Handler)
=============================================================================
