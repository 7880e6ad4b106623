----------------------------- MODULE MCWorkTasks -----------------------------
(* Instances of WorkTasks for TLC. *)
EXTENDS WorkTasks, TLC

CONSTANTS i1, i2, t1, t2, t3, h1, h2

Items == {i1, i2}
TwoHandlers == {h1, h2}
AnyHandler == Permutations(Handler)

(* One worker ticks both items, the other one of them too. *)
ThreeTicks == {t1, t2, t3}
TheirItem == [t \in ThreeTicks |-> IF t = t2 THEN i2 ELSE i1]
TheirWorker == [t \in ThreeTicks |-> IF t = t3 THEN "reza" ELSE "sara"]
TwoWorkers == {"sara", "reza"}
=============================================================================
