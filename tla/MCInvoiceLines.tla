--------------------------- MODULE MCInvoiceLines ---------------------------
(* Instances of InvoiceLines for TLC. *)
EXTENDS InvoiceLines, TLC

CONSTANTS p1, p2, k1, k2, k3

TwoProcs == {p1, p2}
TwoKeys == {k1, k2}
ThreeKeys == {k1, k2, k3}
Symmetry == Permutations(TwoProcs) \cup Permutations(ThreeKeys)

(* Two pieces at 2, sold for cash, on credit or in part, to a customer, on *)
(* an open account, or over the counter.                                   *)
Lines == << [quantity |-> 2, price |-> 2] >>
Sales ==
  {Invoiced(s, c, Lines, paid) :
     <<s, c, paid>> \in {<<"CONFIRMED", TRUE, 0>>, <<"CONFIRMED", TRUE, 4>>,
                         <<"CONFIRMED", FALSE, 4>>, <<"OPEN", TRUE, 0>>}}

NoReturn == [log |-> NoLog, quantity |-> 0, restock |-> TRUE]
NoChange == [log |-> NoLog, quantity |-> 0, price |-> 0]
NoAddition == [quantity |-> 0, price |-> 0]

Asked(kind, ret, chg, add, manual, method) ==
  [kind |-> kind, ret |-> ret, chg |-> chg, add |-> add,
   manual |-> manual, method |-> method]

Back(l, q, restock) == [log |-> l, quantity |-> q, restock |-> restock]
Into(l, q, price) == [log |-> l, quantity |-> q, price |-> price]
More(q, price) == [quantity |-> q, price |-> price]

Returns ==
  {Asked("return", Back(l, q, restock), NoChange, NoAddition, 0, m) :
     <<l, q, restock, m>> \in
       {<<1, 1, TRUE, "CASH">>, <<1, 2, TRUE, "CREDIT">>, <<2, 1, TRUE, "CREDIT">>}}

Corrections ==
  {Asked("correct", NoReturn, c, a, 0, "CASH") :
     <<c, a>> \in
       {<<Into(1, 3, 2), NoAddition>>, <<Into(1, 1, 2), NoAddition>>, <<NoChange, More(1, 1)>>,
        <<Into(1, 0, 2), More(1, 3)>>}}

Adjustments ==
  {Asked("adjust", r, c, a, manual, m) :
     <<r, c, a, manual, m>> \in
       {<<Back(1, 1, TRUE), Into(1, 1, 3), NoAddition, 0, "CREDIT">>,
        <<Back(1, 1, TRUE), NoChange, More(1, 1), 0, "CASH">>,
        <<Back(1, 1, TRUE), NoChange, More(1, 3), 0, "CASH">>,
        <<Back(1, 1, FALSE), NoChange, NoAddition, -1, "CASH">>}}

Cancellation == Asked("cancel", NoReturn, NoChange, NoAddition, 0, "CASH")

AllRequests == Returns \cup Corrections \cup Adjustments \cup {Cancellation}
=============================================================================
