------------------------- MODULE MCProductRequests -------------------------
(* Instances of ProductRequests for TLC: two requests for one box.         *)
EXTENDS ProductRequests, TLC

CONSTANTS r1, r2, p1, p2, p3, b1, k1, k2, m1, m2

TwoRequests == {r1, r2}
ThreeProducts == {p1, p2, p3}
OneBox == [r \in Request |-> b1]
FirstLocated == {r1}
AnyName == Permutations(Product) \cup Permutations(Clerk) \cup Permutations(Manager)
=============================================================================
