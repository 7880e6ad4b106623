---------------------------- MODULE AtomicInvoice ----------------------------
(***************************************************************************)
(* What the documents of an invoice promise together: each takes effect at *)
(* one instant on the invoice as it then is, or not at all, and a request  *)
(* that is sent again takes effect once.                                   *)
(***************************************************************************)
EXTENDS InvoiceDocuments

CONSTANTS
  Initial,   \* the invoice as the sale left it
  Requests,  \* the documents that are asked for
  Key        \* idempotency keys

ASSUME InitialAssumption == \A i \in Initial : IsNew(i)
ASSUME RequestsAssumption == Requests \subseteq Request

VARIABLES
  inv,   \* the invoice
  sent,  \* the request a client sends under each key, or NoRequest
  done   \* the keys whose request has taken effect

avars == <<inv, sent, done>>

NoRequest == [kind |-> "none"]

AInit ==
  /\ inv \in Initial
  /\ sent = [k \in Key |-> NoRequest]
  /\ done = {}

Ask(k, r) ==
  /\ sent[k] \in {NoRequest, r}
  /\ sent' = [sent EXCEPT ![k] = r]
  /\ UNCHANGED <<inv, done>>

Perform(k) ==
  /\ sent[k] # NoRequest
  /\ k \notin done
  /\ Acceptable(inv, sent[k])
  /\ inv' = Applied(inv, sent[k])
  /\ done' = done \cup {k}
  /\ UNCHANGED sent

(* The open account of the customer is settled: its invoices become final. *)
AccountSettled ==
  /\ inv.status = "OPEN"
  /\ inv' = [inv EXCEPT !.status = "CONFIRMED"]
  /\ UNCHANGED <<sent, done>>

(* The customer pays amount at the counter. *)
PaidAtCounter(amount) ==
  /\ inv.customer
  /\ amount <= inv.money.ledger
  /\ inv' = [inv EXCEPT !.money = Received(@, amount)]
  /\ UNCHANGED <<sent, done>>

ANext ==
  \/ \E k \in Key : Perform(k) \/ \E r \in Requests : Ask(k, r)
  \/ AccountSettled
  \/ PaidAtCounter(1)

ASpec == AInit /\ [][ANext]_avars
=============================================================================
