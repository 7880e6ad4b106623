---------------------------- MODULE MCQuotations ----------------------------
(* Instances of Quotations for TLC: one sheet of each kind. *)
EXTENDS Quotations

CONSTANTS q1, b1, l1, l2, h1, h2

OneQuotation == {q1}
OneBlank == {b1}
TwoLines == {l1, l2}
TwoHandlers == {h1, h2}
=============================================================================
