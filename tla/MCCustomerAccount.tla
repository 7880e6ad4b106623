------------------------- MODULE MCCustomerAccount -------------------------
(* Instances of CustomerAccount for TLC.                                   *)
EXTENDS CustomerAccount, TLC

CONSTANTS h1, h2, c1

TwoHandlers == {h1, h2}
OneInvoice == {1}
TwoInvoices == {1, 2}
OneAndTwo == [i \in Invoice |-> i]
Ones == [i \in Invoice |-> 1]
Twos == [i \in Invoice |-> 2]
OneCheque == {c1}
AnyHandler == Permutations(Handler)
=============================================================================
