-------------------------- MODULE InvoiceDocuments --------------------------
(***************************************************************************)
(* What the documents of one invoice do to it: returns, corrections, the   *)
(* combined adjustment and the cancellation.  An invoice keeps             *)
(*                                                                         *)
(*   line   for each of its count SALE logs, the ones that corrections     *)
(*          write included, what the document lines that point at it add   *)
(*          up to, and out: the pieces the stock gave under this log, less *)
(*          those it took back                                             *)
(*   money  its amounts, and what it put on the customer's ledger          *)
(*                                                                         *)
(* A document has at most one line of each kind (the code loops over lists *)
(* whose lines it keeps distinct), and there are no discounts, so a refund *)
(* is the price times the quantity, without rounding.                      *)
(***************************************************************************)
EXTENDS Integers, Sequences, FiniteSetsExt

CONSTANTS
  MaxLogs,   \* bound: the SALE logs an invoice may get
  NoLog      \* the log of a change that a document does not have

ASSUME MaxLogsAssumption == MaxLogs \in Nat
ASSUME NoLogAssumption == NoLog \notin Nat

Log == 1..MaxLogs

Line ==
  [kind : {"none", "sold", "added", "more"},
   sold : Nat, grown : Nat, shrunk : Nat, returned : Nat, restocked : Nat,
   out : Int, price : Nat, last : Nat]
Money ==
  [subtotal : Int, total : Int, paid : Int, due : Nat, ledger : Int, refunded : Nat]
Invoice ==
  [status : {"OPEN", "CONFIRMED", "CANCELLED"}, customer : BOOLEAN,
   count : 0..MaxLogs, line : [Log -> Line], money : Money]
Request ==
  [kind : {"return", "correct", "adjust", "cancel"},
   ret : [log : Log \cup {NoLog}, quantity : Nat, restock : BOOLEAN],
   chg : [log : Log \cup {NoLog}, quantity : Nat, price : Nat],
   add : [quantity : Nat, price : Nat],
   manual : Int, method : {"CASH", "CREDIT"}]

Least(a, b) == IF a < b THEN a ELSE b
AtLeastZero(n) == IF n < 0 THEN 0 ELSE n

-----------------------------------------------------------------------------
(* Amounts. *)

Billed(total, paid, customer) ==
  [subtotal |-> total, total |-> total, paid |-> paid, due |-> total - paid,
   ledger |-> IF customer THEN total - paid ELSE 0, refunded |-> 0]

(* A refund taken off the account: off the invoice as far as its due and   *)
(* its total go, and off the ledger in full.                               *)
CreditedBack(m, refund) ==
  [m EXCEPT !.due = @ - Least(refund, @),
            !.total = @ - AtLeastZero(Least(refund, @)),
            !.ledger = @ - refund]

(* A refund handed out of the till. *)
PaidBack(m, refund) == [m EXCEPT !.refunded = @ + refund]

(* A variant in which only the ledger hears of the difference. *)
OnLedgerOnly(m, amount) ==
  [m EXCEPT !.subtotal = @ + amount, !.total = @ + amount, !.ledger = @ + amount]

(* A difference that goes to the customer's account. *)
OnAccount(m, amount) ==
  [m EXCEPT !.subtotal = @ + amount, !.total = @ + amount,
            !.due = AtLeastZero(@ + amount), !.ledger = @ + amount]

(* A difference that is paid, or handed back, on the spot. *)
OnTheSpot(m, amount) ==
  [m EXCEPT !.subtotal = @ + amount, !.total = @ + amount, !.paid = @ + amount,
            !.due = AtLeastZero((m.total + amount) - (m.paid + amount))]

(* A receipt, given to the only debt there is; the rest stays as credit. *)
Received(m, amount) ==
  [m EXCEPT !.paid = @ + Least(amount, m.due), !.due = @ - Least(amount, @),
            !.ledger = @ - amount]

WrittenOff(m, customer) ==
  IF customer /\ m.due > 0 THEN [m EXCEPT !.due = 0, !.ledger = @ - m.due] ELSE m

(* The cancellation voucher gives the sale back against the debt and the   *)
(* money taken; posting refuses it when it does not add up to zero.        *)
CancelVoucherBalances(m, customer) ==
  m.subtotal = (IF customer THEN m.due ELSE 0) + AtLeastZero(m.paid)

-----------------------------------------------------------------------------
(* Lines. *)

(* "sold" with the invoice, "added" by a correction, or the "more" of a    *)
(* line that a correction increased; "none" for a log not written yet.     *)
SaleLog(kind, quantity, price) ==
  [kind |-> kind, sold |-> quantity, grown |-> 0, shrunk |-> 0, returned |-> 0,
   restocked |-> 0, out |-> quantity, price |-> price, last |-> price]

(* createInvoice: an invoice is billed for lines of [quantity, price].     *)
TotalOf(lines) ==
  MapThenSumSet(LAMBDA i : lines[i].quantity * lines[i].price, DOMAIN lines)

Invoiced(status, customer, lines, paid) ==
  [status |-> status, customer |-> customer,
   count |-> Len(lines),
   line |-> [l \in Log |-> IF l \in DOMAIN lines
                           THEN SaleLog("sold", lines[l].quantity, lines[l].price)
                           ELSE SaleLog("none", 0, 0)],
   money |-> Billed(TotalOf(lines), paid, customer)]

(* What the sale leaves: goods sold on an open account are not paid for,   *)
(* and a sale without a customer is paid in full.                          *)
IsNew(inv) ==
  /\ inv \in Invoice
  /\ \A l \in Log : inv.line[l] = SaleLog(inv.line[l].kind, inv.line[l].sold, inv.line[l].price)
  /\ inv.money = Billed(inv.money.total, inv.money.paid, inv.customer)
  /\ inv.status = "OPEN" => inv.customer /\ inv.money.paid = 0
  /\ inv.money.due > 0 => inv.customer

Booked(inv) == {l \in Log : inv.line[l].kind # "none"}

WithLog(inv, log) ==
  [inv EXCEPT !.count = @ + 1, !.line[inv.count + 1] = log]

(* What is left of a line, as every reader and writer computes it. *)
Balance(line) == line.sold + line.grown - line.shrunk - line.returned
Outstanding(line) == AtLeastZero(Balance(line))

Open(inv) == inv.status \in {"CONFIRMED", "OPEN"}

-----------------------------------------------------------------------------
(* A return of r.quantity pieces of r.log, refunded by method; quantity 0  *)
(* stands for a document without a return.                                 *)

Refund(inv, r) == IF r.quantity = 0 THEN 0 ELSE inv.line[r.log].price * r.quantity

(* A variant in which earlier returns and corrections of the line are forgotten. *)
ReturnableAsSold(inv, r, method, allowCashOnOpen) ==
  /\ Open(inv)
  /\ r.log \in Booked(inv)
  /\ r.quantity <= inv.line[r.log].sold
  /\ method = "CREDIT" => inv.customer

(* A variant in which the status of the invoice is not looked at under the lock. *)
ReturnableInAnyStatus(inv, r, method, allowCashOnOpen) ==
  /\ r.log \in Booked(inv)
  /\ r.quantity <= Outstanding(inv.line[r.log])
  /\ method = "CREDIT" => inv.customer

Returnable(inv, r, method, allowCashOnOpen) ==
  /\ Open(inv)
  /\ inv.status = "OPEN" => method = "CREDIT" \/ allowCashOnOpen
  /\ r.log \in Booked(inv)
  /\ r.quantity <= Outstanding(inv.line[r.log])
  /\ method = "CREDIT" => inv.customer
  /\ method = "CASH" /\ ~(inv.status = "OPEN" /\ allowCashOnOpen)
       => inv.money.refunded + Refund(inv, r) <= inv.money.paid

CameBack(line, quantity, restock) ==
  IF restock THEN [line EXCEPT !.returned = @ + quantity, !.restocked = @ + quantity,
                               !.out = @ - quantity]
  ELSE [line EXCEPT !.returned = @ + quantity]

Returned(inv, r, method) ==
  [inv EXCEPT
     !.line[r.log] = CameBack(@, r.quantity, r.restock),
     !.money = IF method = "CREDIT" THEN CreditedBack(@, Refund(inv, r))
                                    ELSE PaidBack(@, Refund(inv, r))]

-----------------------------------------------------------------------------
(* A correction: line c.log becomes c.quantity pieces at c.price, a line   *)
(* of a.quantity pieces at a.price is added, and the manager may adjust    *)
(* the amount by hand.  c.log is NoLog, or a.quantity 0, when there is no  *)
(* such line.                                                              *)

Difference(inv, c) == c.quantity - Outstanding(inv.line[c.log])

ChangeAmount(inv, c) ==
  IF c.log = NoLog THEN 0
  ELSE c.quantity * c.price - Outstanding(inv.line[c.log]) * inv.line[c.log].last

AmountAdjust(inv, c, a, manual) ==
  ChangeAmount(inv, c) + a.quantity * a.price + manual

LogsOf(inv, c, a) ==
  (IF c.log # NoLog /\ Difference(inv, c) > 0 THEN 1 ELSE 0)
    + (IF a.quantity > 0 THEN 1 ELSE 0)

Correctable(inv, c, a, manual) ==
  /\ Open(inv)
  /\ c.log # NoLog =>
       /\ c.log \in Booked(inv)
       /\ Difference(inv, c) # 0 \/ c.price # inv.line[c.log].last
  /\ AmountAdjust(inv, c, a, manual) # 0 \/ a.quantity > 0
  /\ inv.count + LogsOf(inv, c, a) <= MaxLogs

(* A variant in which a line that shrank is not taken back to the stock. *)
ResizedOnPaper(line, d, price) ==
  IF d > 0 THEN [line EXCEPT !.grown = @ + d, !.last = price]
  ELSE [line EXCEPT !.shrunk = @ - d, !.last = price]

Resized(line, d, price) ==
  IF d > 0 THEN [line EXCEPT !.grown = @ + d, !.last = price]
  ELSE [line EXCEPT !.shrunk = @ - d, !.out = @ + d, !.last = price]

(* A line that grew is sold again for the difference, under a log of the   *)
(* same invoice; a line that shrank comes back to the stock.               *)
Changed(inv, c) ==
  IF c.log = NoLog THEN inv
  ELSE LET d == Difference(inv, c)
           new == [inv EXCEPT !.line[c.log] = Resized(@, d, c.price)]
       IN IF d > 0 THEN WithLog(new, SaleLog("more", d, c.price)) ELSE new

Extended(inv, a) ==
  IF a.quantity = 0 THEN inv
  ELSE WithLog(inv, SaleLog("added", a.quantity, a.price))

Corrected(inv, c, a, manual, onTheSpot) ==
  LET amount == AmountAdjust(inv, c, a, manual)
  IN [Extended(Changed(inv, c), a) EXCEPT
        !.money = IF amount = 0 THEN @
                  ELSE IF inv.customer /\ ~onTheSpot THEN OnAccount(@, amount)
                  ELSE OnTheSpot(@, amount)]

-----------------------------------------------------------------------------
(* The adjustment: a return, a correction and the settlement of their net  *)
(* difference, in one transaction.  r.method is how the customer wants the *)
(* difference settled.                                                     *)

AfterReturn(inv, ret, method) ==
  IF ret.quantity = 0 THEN inv ELSE Returned(inv, ret, method)

(* The lines do not depend on how the refund is paid. *)
Net(inv, r) ==
  AmountAdjust(AfterReturn(inv, r.ret, "CREDIT"), r.chg, r.add, r.manual)
    - Refund(inv, r.ret)

(* A refund in cash makes the whole difference one at the till; so does an *)
(* invoice without a customer.                                             *)
OnTheSpotFor(inv, r) == ~inv.customer \/ (Net(inv, r) < 0 /\ r.method = "CASH")

ReturnMethod(inv, r) == IF OnTheSpotFor(inv, r) THEN "CASH" ELSE "CREDIT"

(* What the customer owes more, paid at once, is a receipt. *)
ByReceipt(inv, r) == inv.customer /\ Net(inv, r) > 0 /\ r.method = "CASH"

WantsCorrection(r) == r.chg.log # NoLog \/ r.add.quantity > 0 \/ r.manual # 0

AdjustReturned(inv, r) == AfterReturn(inv, r.ret, ReturnMethod(inv, r))

AdjustCorrected(inv, r) ==
  LET after == AdjustReturned(inv, r)
  IN IF WantsCorrection(r)
     THEN Corrected(after, r.chg, r.add, r.manual, OnTheSpotFor(inv, r))
     ELSE after

Adjustable(inv, r) ==
  /\ Open(inv)
  /\ r.method = "CREDIT" => inv.customer
  /\ r.ret.quantity > 0 => Returnable(inv, r.ret, ReturnMethod(inv, r), TRUE)
  \* a line that comes back in part may change its price, not its quantity
  /\ r.ret.quantity > 0 /\ r.chg.log = r.ret.log =>
       /\ Difference(AdjustReturned(inv, r), r.chg) = 0
       /\ r.chg.price # inv.line[r.chg.log].last
  /\ WantsCorrection(r) => Correctable(AdjustReturned(inv, r), r.chg, r.add, r.manual)
  /\ ByReceipt(inv, r) => Net(inv, r) <= AdjustCorrected(inv, r).money.ledger

Adjusted(inv, r) ==
  IF ByReceipt(inv, r)
  THEN [AdjustCorrected(inv, r) EXCEPT !.money = Received(@, Net(inv, r))]
  ELSE AdjustCorrected(inv, r)

-----------------------------------------------------------------------------
(* The cancellation takes back what the SALE logs sold and the returns     *)
(* have not put on the shelf yet.                                          *)

PutBack(line) ==
  [line EXCEPT !.out = @ - AtLeastZero(line.sold - line.restocked)]

Cancellable(inv) ==
  inv.status = "CONFIRMED" /\ CancelVoucherBalances(inv.money, inv.customer)

Cancelled(inv) ==
  [inv EXCEPT !.status = "CANCELLED",
              !.line = [l \in Log |-> PutBack(@[l])],
              !.money = WrittenOff(@, inv.customer)]

-----------------------------------------------------------------------------
(* What a request asks for, whether it is refused, and what it leaves.     *)

Acceptable(inv, r) ==
  CASE r.kind = "return"  -> Returnable(inv, r.ret, r.method, FALSE)
    [] r.kind = "correct" -> Correctable(inv, r.chg, r.add, r.manual)
    [] r.kind = "adjust"  -> Adjustable(inv, r)
    [] r.kind = "cancel"  -> Cancellable(inv)

Applied(inv, r) ==
  CASE r.kind = "return"  -> Returned(inv, r.ret, r.method)
    [] r.kind = "correct" -> Corrected(inv, r.chg, r.add, r.manual, FALSE)
    [] r.kind = "adjust"  -> Adjusted(inv, r)
    [] r.kind = "cancel"  -> Cancelled(inv)
=============================================================================
