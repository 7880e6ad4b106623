-------------------------- MODULE CustomerAccount --------------------------
(***************************************************************************)
(* What one customer owes: the ledger (LedgerService), what is left to pay *)
(* on each invoice, the cheques that were taken, and the vouchers that     *)
(* every document posts (PostingService).  ReceiptsService, ChequesService *)
(* and PayoutsService serve concurrent calls, each in a transaction of its *)
(* own at READ COMMITTED: they read without locks, change invoices by      *)
(* differences under row locks that they keep, and commit all or nothing.  *)
(* Amounts are in the smallest unit; the account starts empty.             *)
(***************************************************************************)
EXTENDS Integers, FiniteSetsExt

CONSTANTS
  Handler,    \* calls the API may be serving at one time
  Invoice,    \* numbers of invoices: the older one has the smaller number
  Price,      \* total of each invoice
  Cheque,
  NoCheque,   \* not a Cheque: money that is handed over
  Charges,    \* what may be charged for waiting for a cheque
  MaxAmount,  \* bound: the amount of a receipt, a payout or a reversal
  MaxCalls    \* bound: documents asked for in a behaviour

ASSUME InvoiceAssumption == Invoice \subseteq Nat
ASSUME PriceAssumption == Price \in [Invoice -> Nat \ {0}]
ASSUME ChequeAssumption == IsFiniteSet(Cheque)
ASSUME NoChequeAssumption == NoCheque \notin Cheque
ASSUME ChargesAssumption == Charges \subseteq Nat
ASSUME BoundsAssumption == MaxAmount \in Nat /\ MaxCalls \in Nat

VARIABLES
  issued,     \* invoices that exist
  due,        \* dueAmount of each; its paidAmount is the rest of the price
  allocated,  \* invoices with a ReceiptAllocation
  ledger,     \* sum of the customer's ledger
  cheque,     \* the cheques and what they paid
  book,       \* sums of voucher lines: the customer, cheques in hand
  posted,     \* keys of the vouchers of cheques, with the account credited
  call,       \* the calls being served
  raised,     \* history: payouts during which something else raised the debt
  clashed,    \* history: cheques on which two calls worked at a time
  overtaken,  \* history: invoices changed between a cheque's look and move
  calls       \* documents asked for so far

rows == <<issued, due, allocated, ledger, cheque, book, posted>>
history == <<raised, clashed, overtaken, calls>>
vars == <<rows, call, history>>

Zero == [i \in Invoice |-> 0]
Paid(i) == Price[i] - due[i]

(* A cheque: on which invoices its amount was booked, and whether it came  *)
(* with the sale of the invoice or by a receipt.                           *)
NewCheque(amount, charge, sale, part) ==
  [status |-> "IN_HAND", amount |-> amount, charge |-> charge, sale |-> sale, part |-> part]

NotYet == [status |-> "NONE", amount |-> 0, charge |-> 0, sale |-> FALSE, part |-> Zero]

(* A call: what it asks for, the due amounts it has read, the invoices it  *)
(* has still to visit, what is left of its amount, and what its            *)
(* transaction has already moved on the invoices whose rows it has locked. *)
Idle ==
  [kind |-> "none", at |-> "idle", amount |-> 0, charge |-> 0, free |-> FALSE,
   cheque |-> NoCheque, status |-> "NONE", seen |-> Zero, todo |-> {}, rest |-> 0,
   moved |-> Zero]

Init ==
  /\ issued = {} /\ due = Zero /\ allocated = {}
  /\ ledger = 0
  /\ cheque = [c \in Cheque |-> NotYet]
  /\ book = [CUSTOMERS |-> 0, CHEQUES |-> 0]
  /\ posted = {}
  /\ call = [h \in Handler |-> Idle]
  /\ raised = {} /\ clashed = {} /\ overtaken = {} /\ calls = 0

-----------------------------------------------------------------------------
Least(a, b) == IF a < b THEN a ELSE b
AtLeastZero(n) == IF n < 0 THEN 0 ELSE n

Asked == calls < MaxCalls /\ calls' = calls + 1
Become(h, record) == call' = [call EXCEPT ![h] = record]
Begin(h, kind, record) ==
  /\ call[h].at = "idle"
  /\ Become(h, [record EXCEPT !.kind = kind])

(* The transaction of h has not to wait for the row of invoice i.          *)
Unlocked(h, i) == \A g \in Handler \ {h} : call[g].moved[i] = 0

Pass(h, i) == Become(h, [call[h] EXCEPT !.todo = @ \ {i}])
Move(h, i, direction, amount) ==
  Become(h, [call[h] EXCEPT !.todo = @ \ {i}, !.moved[i] = direction * amount,
                            !.rest = @ - amount])

Visited(h) == call[h].rest = 0 \/ call[h].todo = {}

(* What a commit of h tells the histories about the others.                *)
Overtakes(h, moved) ==
  overtaken' = overtaken \cup
    {i \in Invoice : moved[i] # 0 /\
       \E g \in Handler \ {h} : call[g].at = "shifting" /\ i \in call[g].todo}
Clashes(h, c) ==
  clashed' = IF \E g \in Handler \ {h} : call[g].cheque = c /\ call[g].kind # "receipt"
             THEN clashed \cup {c} ELSE clashed
Paying == {h \in Handler : call[h].at = "paying"}
Raises(n) == raised' = IF n > 0 THEN raised \cup Paying ELSE raised

Book(customers, cheques) ==
  book' = [CUSTOMERS |-> book.CUSTOMERS + customers, CHEQUES |-> book.CHEQUES + cheques]

-----------------------------------------------------------------------------
(* Sales, reversals and new splits of payments each change the row of one  *)
(* invoice under its lock: nobody sees them half done.                     *)

(* A cheque nobody has brought yet. *)
New(c) ==
  /\ c \in Cheque /\ cheque[c].status = "NONE"
  /\ \A g \in Handler : call[g].cheque # c

(* createInvoice: part in cash, part by a cheque, the rest on credit.      *)
Sell(i, cash, c, byCheque) ==
  /\ i \notin issued /\ \A j \in Invoice : j < i => j \in issued
  /\ Asked
  /\ cash + byCheque <= Price[i]
  /\ issued' = issued \cup {i}
  /\ due' = [due EXCEPT ![i] = Price[i] - cash - byCheque]
  /\ ledger' = ledger + due'[i]
  /\ Book(due'[i], byCheque)
  /\ \/ byCheque = 0 /\ c = NoCheque /\ UNCHANGED cheque
     \/ /\ byCheque > 0 /\ New(c)
        /\ cheque' = [cheque EXCEPT ![c] =
             NewCheque(byCheque, 0, TRUE, [Zero EXCEPT ![i] = byCheque])]
  /\ Raises(due'[i])
  /\ UNCHANGED <<allocated, posted, call, clashed, overtaken>>

ChangeDue(i, n) ==
  /\ \A h \in Handler : call[h].moved[i] = 0
  /\ due' = [due EXCEPT ![i] = @ + n]
  /\ ledger' = ledger + n
  /\ Book(n, 0)
  /\ Raises(n)
  /\ overtaken' = overtaken \cup
       {j \in {i} : \E g \in Handler : call[g].at = "shifting" /\ i \in call[g].todo}
  /\ UNCHANGED <<issued, allocated, cheque, posted, call, clashed>>

(* PaymentReversalsService.reverse: money goes back, the debt comes back.  *)
Reverse(i, amount) ==
  /\ i \in issued /\ Asked
  /\ amount <= Paid(i)
  /\ ChangeDue(i, amount)

(* PaymentsRecomposeService.recompose, where no cheque or receipt paid.    *)
Recompose(i, paid) ==
  /\ i \in issued /\ Asked
  /\ i \notin allocated
  /\ \A c \in Cheque : ~ (cheque[c].sale /\ cheque[c].part[i] > 0)
  /\ paid <= Price[i] /\ paid # Paid(i)
  /\ ChangeDue(i, Paid(i) - paid)

-----------------------------------------------------------------------------
(* ReceiptsService.createReceiptInTx.  The charge is added to the amount.  *)

AskReceipt(h, base, charge, c, free) ==
  /\ Asked
  /\ New(c) \/ (c = NoCheque /\ charge = 0)
  /\ Begin(h, "receipt", [Idle EXCEPT !.at = "debts", !.amount = base + charge,
                                      !.charge = charge, !.cheque = c, !.free = free])
  /\ UNCHANGED <<rows, raised, clashed, overtaken>>

(* The open invoices, oldest first. *)
ReadDebts(h) ==
  /\ call[h].at = "debts"
  /\ Become(h, [call[h] EXCEPT !.at = "balance", !.seen = due,
                               !.todo = {i \in issued : due[i] > 0}])
  /\ UNCHANGED <<rows, history>>

(* The transaction sees the charge it has put on the ledger.  More than    *)
(* the debt is taken only from a customer who pays in advance.             *)
Accept(h) ==
  /\ call[h].at = "balance"
  /\ LET balance == ledger + call[h].charge
     IN balance > 0 /\ (call[h].amount <= balance \/ call[h].free)
  /\ Become(h, [call[h] EXCEPT !.at = "allocating", !.rest = call[h].amount])
  /\ UNCHANGED <<rows, history>>

(* The oldest of the invoices h has still to visit. *)
IsNext(h, i) == i \in call[h].todo /\ \A j \in call[h].todo : i <= j

(* A variant that takes what it has read off the invoice, come what may.   *)
AllocateBlindly(h, i) ==
  /\ call[h].at = "allocating" /\ ~ Visited(h) /\ IsNext(h, i)
  /\ Unlocked(h, i) /\ Move(h, i, -1, Least(call[h].rest, call[h].seen[i]))
  /\ UNCHANGED <<rows, history>>

(* updateMany where dueAmount >= applied: a debt that has meanwhile become *)
(* smaller is passed over.                                                 *)
Allocate(h, i) ==
  /\ call[h].at = "allocating" /\ ~ Visited(h) /\ IsNext(h, i)
  /\ LET applied == Least(call[h].rest, call[h].seen[i])
     IN \/ due[i] < applied /\ Pass(h, i)
        \/ due[i] >= applied /\ Unlocked(h, i) /\ Move(h, i, -1, applied)
  /\ UNCHANGED <<rows, history>>

(* What the transaction of h has moved becomes visible.                    *)
Settle(h) ==
  /\ due' = [i \in Invoice |-> due[i] + call[h].moved[i]]
  /\ Overtakes(h, call[h].moved)
  /\ Become(h, Idle)

Receive(h) ==
  /\ call[h].at = "allocating" /\ Visited(h)
  /\ Settle(h)
  /\ allocated' = allocated \cup {i \in Invoice : call[h].moved[i] # 0}
  /\ ledger' = ledger + call[h].charge - call[h].amount
  /\ \/ call[h].cheque = NoCheque /\ Book(-call[h].amount, 0) /\ UNCHANGED cheque
     \/ /\ call[h].cheque # NoCheque
        /\ Book(call[h].charge - call[h].amount, call[h].amount)
        /\ cheque' = [cheque EXCEPT ![call[h].cheque] =
             NewCheque(call[h].amount, call[h].charge, FALSE,
                       [i \in Invoice |-> -call[h].moved[i]])]
  /\ UNCHANGED <<issued, posted, raised, clashed, calls>>

-----------------------------------------------------------------------------
(* ChequesService: deposit, cash and bounce.                               *)

(* A variant in which a cheque that was cashed may still bounce.           *)
AcceptedLater ==
  [deposit |-> {"IN_HAND"}, cash |-> {"IN_HAND", "DEPOSITED", "BOUNCED"},
   bounce |-> {"IN_HAND", "DEPOSITED", "CASHED"}]

(* The statuses of a cheque in which each of its calls is accepted.        *)
Accepted ==
  [deposit |-> {"IN_HAND"}, cash |-> {"IN_HAND", "DEPOSITED", "BOUNCED"},
   bounce |-> {"IN_HAND", "DEPOSITED"}]

(* The debt moves when a cheque bounces, or is cashed after it has.        *)
Shifts(kind, status) == kind = "bounce" \/ (kind = "cash" /\ status = "BOUNCED")

(* load reads the cheque, and the invoice too when it came with the sale.  *)
Load(h, kind, c) ==
  /\ Asked
  /\ cheque[c].status \in Accepted[kind]
  /\ LET shifts == Shifts(kind, cheque[c].status)
     IN Begin(h, kind, [Idle EXCEPT
          !.at = IF shifts /\ ~ cheque[c].sale THEN "rooms" ELSE "shifting",
          !.cheque = c, !.status = cheque[c].status, !.amount = cheque[c].amount,
          !.rest = cheque[c].amount, !.seen = due,
          !.todo = IF shifts THEN {i \in Invoice : cheque[c].part[i] > 0} ELSE {}])
  /\ UNCHANGED <<rows, raised, clashed, overtaken>>

(* shiftInvoiceDue looks again at the invoices a receipt was booked on.    *)
ReadRooms(h) ==
  /\ call[h].at = "rooms"
  /\ Become(h, [call[h] EXCEPT !.at = "shifting", !.seen = due])
  /\ UNCHANGED <<rows, history>>

Room(h, i) == AtLeastZero(IF call[h].kind = "bounce" THEN Price[i] - call[h].seen[i]
                                                     ELSE call[h].seen[i])

ToMove(h, i) == Least(Room(h, i), Least(call[h].rest, cheque[call[h].cheque].part[i]))

(* Allocations made together carry the same time: any order of them.       *)
Shift(h, i) ==
  /\ call[h].at = "shifting" /\ ~ Visited(h) /\ i \in call[h].todo
  /\ \/ ToMove(h, i) = 0 /\ Pass(h, i)
     \/ /\ ToMove(h, i) > 0 /\ Unlocked(h, i)
        /\ Move(h, i, IF call[h].kind = "bounce" THEN 1 ELSE -1, ToMove(h, i))
  /\ UNCHANGED <<rows, history>>

Stamp(h, kind, status) ==
  /\ call[h].kind = kind /\ call[h].at = "shifting" /\ Visited(h)
  /\ cheque' = [cheque EXCEPT ![call[h].cheque].status = status]
  /\ Settle(h)
  /\ Clashes(h, call[h].cheque)
  /\ UNCHANGED <<issued, allocated, calls>>

(* post: a voucher whose key is there is not written again.  Its lines     *)
(* move the amount between the customer, or money, and another account.    *)
Post(key, account, customers, cheques) ==
  IF \E v \in posted : v[1] = key
  THEN UNCHANGED <<book, posted>>
  ELSE posted' = posted \cup {<<key, account>>} /\ Book(customers, cheques)

OnCheques(account, n) == IF account = "CHEQUES" THEN n ELSE 0

Deposit(h) ==
  /\ Stamp(h, "deposit", "DEPOSITED")
  /\ Post(<<"deposit", call[h].cheque>>, "CHEQUES", 0, -call[h].amount)
  /\ UNCHANGED <<ledger, raised>>

Bounce(h) ==
  /\ Stamp(h, "bounce", "BOUNCED")
  /\ ledger' = ledger + call[h].amount
  /\ LET account == IF call[h].status = "DEPOSITED" THEN "BANK" ELSE "CHEQUES"
     IN Post(<<"bounce", call[h].cheque>>, account,
             call[h].amount, OnCheques(account, -call[h].amount))
  /\ Raises(call[h].amount)

(* A variant that takes a cheque from hand wherever it is.                 *)
CashFromHand(h) ==
  /\ call[h].status # "BOUNCED"
  /\ Stamp(h, "cash", "CASHED")
  /\ Post(<<"cash", call[h].cheque>>, "CHEQUES", 0, -call[h].amount)
  /\ UNCHANGED <<ledger, raised>>

Cash(h) ==
  /\ call[h].status # "BOUNCED"
  /\ Stamp(h, "cash", "CASHED")
  /\ \/ /\ call[h].status = "IN_HAND"
        /\ Post(<<"cash", call[h].cheque>>, "CHEQUES", 0, -call[h].amount)
     \/ call[h].status # "IN_HAND" /\ UNCHANGED <<book, posted>>
  /\ UNCHANGED <<ledger, raised>>

(* The voucher of the bounce is turned round, account by account.          *)
CashBounced(h) ==
  /\ call[h].status = "BOUNCED"
  /\ Stamp(h, "cash", "CASHED")
  /\ ledger' = ledger - call[h].amount
  /\ \E v \in posted :
       /\ v[1] = <<"bounce", call[h].cheque>>
       /\ Post(<<"cash", call[h].cheque>>, v[2],
               -call[h].amount, OnCheques(v[2], call[h].amount))
  /\ UNCHANGED raised

-----------------------------------------------------------------------------
(* PayoutsService.createPayoutInTx: the row of the customer is locked.     *)

(* A variant in which payouts do not wait for one another.                 *)
LockAtOnce(h, amount, free) ==
  /\ Asked
  /\ free \/ amount <= AtLeastZero(-ledger)
  /\ Begin(h, "payout", [Idle EXCEPT !.at = "paying", !.amount = amount, !.free = free])
  /\ UNCHANGED <<rows, raised, clashed, overtaken>>

LockCustomer(h, amount, free) ==
  /\ Asked
  /\ Paying = {}
  /\ free \/ amount <= AtLeastZero(-ledger)
  /\ Begin(h, "payout", [Idle EXCEPT !.at = "paying", !.amount = amount, !.free = free])
  /\ UNCHANGED <<rows, raised, clashed, overtaken>>

PayOut(h) ==
  /\ call[h].at = "paying"
  /\ ledger' = ledger + call[h].amount
  /\ Book(call[h].amount, 0)
  /\ Become(h, Idle)
  /\ raised' = raised \ {h}
  /\ UNCHANGED <<issued, due, allocated, cheque, posted, clashed, overtaken, calls>>

(* A statement fails, or a check refuses the call: nothing of it stays.    *)
Rollback(h) ==
  /\ call[h].at # "idle"
  /\ Become(h, Idle)
  /\ raised' = raised \ {h}
  /\ UNCHANGED <<rows, clashed, overtaken, calls>>

-----------------------------------------------------------------------------
Amounts == 1 .. MaxAmount

Documents ==
  \/ \E i \in Invoice, cash \in 0 .. MaxAmount, byCheque \in 0 .. MaxAmount,
        c \in Cheque \cup {NoCheque} : Sell(i, cash, c, byCheque)
  \/ \E i \in Invoice, amount \in Amounts : Reverse(i, amount)
  \/ \E i \in Invoice, paid \in 0 .. MaxAmount : Recompose(i, paid)

Asks(h) ==
  \/ \E base \in Amounts, charge \in Charges, c \in Cheque \cup {NoCheque},
        free \in BOOLEAN : AskReceipt(h, base, charge, c, free)
  \/ \E kind \in DOMAIN Accepted, c \in Cheque : Load(h, kind, c)
  \/ \E amount \in Amounts, free \in BOOLEAN : LockCustomer(h, amount, free)

Serve(h) ==
  \/ ReadDebts(h) \/ Accept(h) \/ Receive(h) \/ ReadRooms(h)
  \/ \E i \in Invoice : Allocate(h, i) \/ Shift(h, i)
  \/ Deposit(h) \/ Bounce(h) \/ Cash(h) \/ CashBounced(h)
  \/ PayOut(h)

Next == Documents \/ \E h \in Handler : Asks(h) \/ Serve(h) \/ Rollback(h)

Spec == Init /\ [][Next]_vars

-----------------------------------------------------------------------------
Statuses == {"IN_HAND", "DEPOSITED", "CASHED", "BOUNCED"}

ChequeRows == [status : Statuses \cup {"NONE"}, amount : Nat, charge : Nat,
               sale : BOOLEAN, part : [Invoice -> Nat]]

Calls == [kind : {"none", "receipt", "deposit", "cash", "bounce", "payout"},
          at : {"idle", "debts", "balance", "allocating", "rooms", "shifting", "paying"},
          amount : Nat, charge : Nat, free : BOOLEAN, cheque : Cheque \cup {NoCheque},
          status : Statuses \cup {"NONE"}, seen : [Invoice -> Int], todo : SUBSET Invoice,
          rest : Nat, moved : [Invoice -> Int]]

TypeOK ==
  /\ issued \subseteq Invoice /\ allocated \subseteq issued
  /\ due \in [Invoice -> Int]
  /\ ledger \in Int
  /\ cheque \in [Cheque -> ChequeRows]
  /\ book \in [CUSTOMERS : Int, CHEQUES : Int]
  /\ posted \subseteq (({"deposit", "cash", "bounce"} \X Cheque) \X {"CHEQUES", "BANK"})
  /\ call \in [Handler -> Calls]
  /\ raised \subseteq Paying
  /\ clashed \subseteq Cheque /\ overtaken \subseteq Invoice
  /\ calls \in Nat

(* Whatever receipts, reversals and cheques meet on an invoice, and        *)
(* however stale the debts they have read, it is neither paid twice nor    *)
(* owed beyond its price, unless it changed between the look of a cheque's *)
(* call and its move (createReceiptInTx, shiftInvoiceDue).                 *)
DueWithinPrice ==
  \A i \in Invoice \ overtaken : due[i] \in 0 .. Price[i]

(* The customer's ledger is what the vouchers say: reconcile compares the  *)
(* two.  A posting that is repeated does nothing, a ledger row is written  *)
(* each time, so each event of a cheque has to happen once; two calls on a *)
(* cheque at a time are the exception.                                     *)
LedgerReconciles == clashed = {} => ledger = book.CUSTOMERS

(* The credit a payout has found is still there when it is paid, for two   *)
(* payouts never spend the same one, unless another document raises the    *)
(* debt meanwhile: only payouts lock the customer (createPayoutInTx).      *)
CreditCoversPayout ==
  \A h \in Paying \ raised : call[h].free \/ ledger + call[h].amount <= 0

(* The account of cheques is the cheques in hand, as reconcile compares    *)
(* them, whatever way each of them has gone; but a cheque that bounced in  *)
(* hand and was cashed after all stays on it, because cash turns the       *)
(* voucher of the bounce round, account by account.                        *)
InHand == {c \in Cheque : cheque[c].status = "IN_HAND"}
LeftBehind ==
  {c \in Cheque : cheque[c].status = "CASHED" /\ <<<<"bounce", c>>, "CHEQUES">> \in posted}
ChequesReconcile ==
  clashed = {} =>
    book.CHEQUES = MapThenSumSet(LAMBDA c : cheque[c].amount, InHand \cup LeftBehind)
=============================================================================
