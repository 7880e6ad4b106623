---------------------------- MODULE MCStockLedger ----------------------------
(* Instances of StockLedger for TLC. *)
EXTENDS StockLedger

CONSTANTS p1, p2

TwoProcs == {p1, p2}
OneProduct == {1}
TwoLocations == {1, 2}
OneWarehouse == [l \in TwoLocations |-> 1]

DeltaKinds == {"RECEIVE", "SALE", "OUT", "TRANSFER", "AMEND"}
OnlyCounting == {"IN"}
CorrectingAndSales == {"ADJUST", "SALE"}
AllKinds == DeltaKinds \cup {"IN", "ADJUST"}

(* One unit on each shelf; or a row sold before it was registered. *)
OneOnEachShelf == [c \in {1} \X TwoLocations |-> 1]
SoldUnregistered == [c \in {1} \X TwoLocations |-> IF c[2] = 1 THEN 1 ELSE -1]
=============================================================================
