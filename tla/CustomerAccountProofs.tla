----------------------- MODULE CustomerAccountProofs -----------------------
(***************************************************************************)
(* Proofs about CustomerAccount.  The invariants are proved one upon the   *)
(* other: the shape of the state, what open transactions have moved on the *)
(* invoices, the keys of the vouchers, and the credit of payouts.          *)
(***************************************************************************)
EXTENDS CustomerAccount, FiniteSetTheorems, TLAPS

Receiving(h) == call[h].at \in {"debts", "balance", "allocating"}
Working(h) == call[h].at \in {"rooms", "shifting"}

(* What a call carries at each of its places. *)
Shaped(h) ==
  /\ Receiving(h) => /\ call[h].kind = "receipt" /\ call[h].charge <= call[h].amount
                     /\ \A i \in Invoice : call[h].moved[i] <= 0
  /\ call[h].at \in {"balance", "allocating"} => \A i \in call[h].todo : call[h].seen[i] > 0
  /\ Working(h) => /\ call[h].kind \in DOMAIN Accepted /\ call[h].cheque \in Cheque
                   /\ call[h].status \in Accepted[call[h].kind]
                   /\ cheque[call[h].cheque].status # "NONE"
  /\ call[h].todo \subseteq issued
  /\ \A i \in Invoice : call[h].moved[i] # 0 => i \in issued

Shape ==
  /\ TypeOK
  /\ \A h \in Handler : Shaped(h)
  /\ \A c \in Cheque, i \in Invoice : cheque[c].part[i] > 0 => i \in issued

(* The row of an invoice is locked by one transaction at most; the invoice *)
(* is right before and after what that transaction moves becomes visible;  *)
(* and a cheque's call knows what is due on the invoices ahead of it.      *)
Locks ==
  \A i \in Invoice, h, g \in Handler :
    h # g => call[h].moved[i] = 0 \/ call[g].moved[i] = 0

Fits ==
  \A i \in Invoice \ overtaken, h \in Handler : due[i] + call[h].moved[i] \in 0 .. Price[i]

SeenIsDue ==
  \A h \in Handler :
    call[h].at = "shifting" => \A i \in call[h].todo \ overtaken : call[h].seen[i] = due[i]

Moves == DueWithinPrice /\ Locks /\ Fits /\ SeenIsDue

(* Which vouchers a cheque has in each of its statuses, and what a call    *)
(* knows of its status, unless calls clashed on it.                        *)
HasKey(kind, c) == \E v \in posted : v[1] = <<kind, c>>

Keyed(c) ==
  /\ cheque[c].status # "CASHED" => ~ HasKey("cash", c)
  /\ cheque[c].status \in {"NONE", "IN_HAND", "DEPOSITED"} => ~ HasKey("bounce", c)

Known(h) == call[h].status = cheque[call[h].cheque].status

Brings(h, c) == Receiving(h) /\ call[h].cheque = c

Keys ==
  /\ \A c \in Cheque \ clashed : Keyed(c)
  /\ \A h \in Handler : Working(h) /\ call[h].cheque \notin clashed => Known(h)
  /\ \A h \in Handler, c \in Cheque : Brings(h, c) => cheque[c].status = "NONE"
  /\ \A h, g \in Handler, c \in Cheque : Brings(h, c) /\ Brings(g, c) => h = g
  /\ \A h \in Handler : Receiving(h) /\ call[h].cheque = NoCheque => call[h].charge = 0
  /\ LedgerReconciles

(* A key has one voucher; a cheque in hand has not been deposited; and the *)
(* amount a call has read of its cheque is the cheque's.                   *)
Held ==
  /\ \A v, w \in posted : v[1] = w[1] => v = w
  /\ \A c \in Cheque \ clashed :
       cheque[c].status \in {"NONE", "IN_HAND"} => ~ HasKey("deposit", c)
  /\ \A h \in Handler : Working(h) => call[h].amount = cheque[call[h].cheque].amount
  /\ ChequesReconcile

Credit ==
  /\ \A h, g \in Paying : h = g
  /\ CreditCoversPayout

-----------------------------------------------------------------------------
(* The shape of the state. *)

LEMMA ShapeInit == Init => Shape
BY PriceAssumption
   DEF Init, Shape, TypeOK, Shaped, Receiving, Working, Idle, Zero, NotYet, Calls, ChequeRows,
       Statuses, Paying

(* The balances of the vouchers, and the payouts something raised, keep    *)
(* their types.                                                            *)
LEMMA BookIs ==
  ASSUME book \in [CUSTOMERS : Int, CHEQUES : Int], NEW x \in Int, NEW y \in Int, Book(x, y)
  PROVE  /\ book' \in [CUSTOMERS : Int, CHEQUES : Int]
         /\ book'.CUSTOMERS = book.CUSTOMERS + x
         /\ book'.CHEQUES = book.CHEQUES + y
BY DEF Book

LEMMA RaisesIs ==
  ASSUME raised \subseteq Paying, call' = call, NEW n, Raises(n)
  PROVE  raised' \subseteq Paying'
<1>1. Paying' = Paying
  BY DEF Paying
<1> QED BY <1>1 DEF Raises

(* The types of a call, of one that is over, and of one that changes.       *)
LEMMA CallIs ==
  ASSUME Shape, NEW h \in Handler
  PROVE  call[h] \in Calls /\ Shaped(h) /\ due \in [Invoice -> Int] /\ issued \subseteq Invoice
BY DEF Shape, TypeOK

LEMMA IdleIs ==
  /\ Idle \in Calls /\ Idle.at = "idle" /\ Idle.kind = "none" /\ Idle.todo = {}
  /\ \A i \in Invoice : Idle.moved[i] = 0
BY DEF Idle, Calls, Zero, Statuses

LEMMA BecomeIs ==
  ASSUME call \in [Handler -> Calls], NEW h \in Handler, NEW r, Become(h, r)
  PROVE  call'[h] = r /\ \A g \in Handler : g # h => call'[g] = call[g]
BY DEF Become

LEMMA ShapeSell ==
  ASSUME Shape, NEW i \in Invoice, NEW cash \in Nat, NEW byCheque \in Nat,
         NEW c \in Cheque \cup {NoCheque}, Sell(i, cash, c, byCheque)
  PROVE  Shape'
<1>1. call' = call /\ issued' = issued \cup {i} /\ issued' \subseteq Invoice
  BY DEF Sell, Shape, TypeOK
<1>2. due' \in [Invoice -> Int] /\ due'[i] \in Int /\ ledger' \in Int
  <2>1. Price[i] - cash - byCheque \in Int
    BY PriceAssumption
  <2>2. due' = [due EXCEPT ![i] = Price[i] - cash - byCheque] /\ ledger' = ledger + due'[i]
    BY DEF Sell
  <2> QED BY <2>1, <2>2 DEF Shape, TypeOK
<1>3. /\ cheque' \in [Cheque -> ChequeRows]
      /\ \A d \in Cheque : cheque[d].status # "NONE" => cheque'[d].status # "NONE"
      /\ \A d \in Cheque, j \in Invoice :
           cheque'[d].part[j] > 0 => cheque[d].part[j] > 0 \/ j = i
  <2>1. CASE UNCHANGED cheque
    BY <2>1 DEF Shape, TypeOK
  <2>2. CASE c \in Cheque /\ cheque[c].status = "NONE" /\ cheque' = [cheque EXCEPT ![c] =
               NewCheque(byCheque, 0, TRUE, [Zero EXCEPT ![i] = byCheque])]
    <3> DEFINE new == NewCheque(byCheque, 0, TRUE, [Zero EXCEPT ![i] = byCheque])
    <3>1. [Zero EXCEPT ![i] = byCheque] \in [Invoice -> Nat]
      BY DEF Zero
    <3>2. new \in ChequeRows /\ new.status = "IN_HAND" /\ \A j \in Invoice : new.part[j] > 0 => j = i
      BY <3>1 DEF NewCheque, ChequeRows, Statuses, Zero
    <3>3. cheque' = [cheque EXCEPT ![c] = new]
      BY <2>2
    <3> HIDE DEF new
    <3> QED BY <2>2, <3>2, <3>3 DEF Shape, TypeOK
  <2> QED BY <2>1, <2>2 DEF Sell, New
<1>4. book' \in [CUSTOMERS : Int, CHEQUES : Int] /\ raised' \subseteq Paying'
  BY <1>1, <1>2, BookIs, RaisesIs DEF Sell, Shape, TypeOK
<1>5. TypeOK'
  BY <1>1, <1>2, <1>3, <1>4 DEF Sell, Shape, TypeOK, Asked
<1>6. \A h \in Handler : Shaped(h)'
  BY <1>1, <1>3 DEF Shape, TypeOK, Shaped, Receiving, Working, Calls
<1> QED BY <1>1, <1>3, <1>5, <1>6 DEF Shape

LEMMA ShapeChangeDue ==
  ASSUME Shape, NEW i \in Invoice, NEW n \in Int, ChangeDue(i, n), calls' \in Nat
  PROVE  Shape'
<1>1. book' \in [CUSTOMERS : Int, CHEQUES : Int] /\ raised' \subseteq Paying'
  BY BookIs, RaisesIs DEF ChangeDue, Shape, TypeOK
<1>2. due' \in [Invoice -> Int] /\ ledger' \in Int /\ overtaken' \subseteq Invoice
  BY DEF ChangeDue, Shape, TypeOK
<1>3. TypeOK'
  BY <1>1, <1>2 DEF ChangeDue, Shape, TypeOK
<1>4. \A h \in Handler : Shaped(h)'
  BY DEF ChangeDue, Shape, Shaped, Receiving, Working
<1> QED BY <1>3, <1>4 DEF Shape, ChangeDue

(* What a step does that changes only what one call has read or moved.     *)
LEMMA ShapeOfCall ==
  ASSUME Shape, NEW h \in Handler, NEW r \in Calls, Become(h, r), UNCHANGED rows,
         raised' \subseteq Paying', clashed' \subseteq Cheque,
         overtaken' \subseteq Invoice, calls' \in Nat, Shaped(h)'
  PROVE  Shape'
<1> USE DEF rows
<1>1. TypeOK'
  BY DEF Shape, TypeOK, Become
<1>2. ASSUME NEW g \in Handler, g # h
      PROVE  Shaped(g)'
  <2>1. call'[g] = call[g] /\ cheque' = cheque /\ issued' = issued
    BY <1>2, BecomeIs DEF Shape, TypeOK
  <2> QED BY <2>1 DEF Shape, Shaped, Receiving, Working
<1> QED BY <1>1, <1>2 DEF Shape

(* A call that begins or goes on leaves the payouts as they are.           *)
LEMMA PayingIs ==
  ASSUME Shape, NEW h \in Handler, NEW r, Become(h, r), call[h].at # "paying"
  PROVE  Paying \subseteq Paying' /\ Paying' \subseteq Paying \cup {h}
BY BecomeIs DEF Shape, TypeOK, Paying

(* What a call carries after each of these steps.                          *)
LEMMA AskReceiptIs ==
  ASSUME Shape, NEW h \in Handler, NEW base \in Nat, NEW charge \in Nat,
         NEW c \in Cheque \cup {NoCheque}, NEW free \in BOOLEAN,
         AskReceipt(h, base, charge, c, free)
  PROVE  /\ call'[h] \in Calls /\ Become(h, call'[h]) /\ call[h].at = "idle"
         /\ call'[h].kind = "receipt" /\ call'[h].at = "debts"
         /\ call'[h].charge = charge /\ call'[h].charge <= call'[h].amount
         /\ call'[h].cheque = c /\ call'[h].todo = {} /\ \A i \in Invoice : call'[h].moved[i] = 0
<1> DEFINE asked == [Idle EXCEPT !.at = "debts", !.amount = base + charge,
                                 !.charge = charge, !.cheque = c, !.free = free]
           r == [asked EXCEPT !.kind = "receipt"]
<1>1. /\ asked \in Calls /\ asked.at = "debts"
      /\ asked.charge = charge /\ asked.charge <= asked.amount
      /\ asked.cheque = c /\ asked.todo = {} /\ \A i \in Invoice : asked.moved[i] = 0
  <2>1. Idle \in Calls /\ Idle.todo = {} /\ \A i \in Invoice : Idle.moved[i] = 0
    BY IdleIs
  <2>2. PICK n \in Nat : n = base + charge /\ charge <= n
    OBVIOUS
  <2>3. asked = [Idle EXCEPT !.at = "debts", !.amount = n, !.charge = charge,
                             !.cheque = c, !.free = free]
    BY <2>2
  <2> QED BY <2>1, <2>2, <2>3 DEF Calls
<1>2. Become(h, r) /\ call[h].at = "idle"
  BY DEF AskReceipt, Begin
<1> HIDE DEF asked
<1>3. /\ r \in Calls /\ r.kind = "receipt" /\ r.at = "debts"
      /\ r.charge = charge /\ r.charge <= r.amount
      /\ r.cheque = c /\ r.todo = {} /\ \A i \in Invoice : r.moved[i] = 0
  BY <1>1 DEF Calls
<1> HIDE DEF r
<1>4. call'[h] = r
  BY <1>2, BecomeIs DEF Shape, TypeOK
<1> QED BY <1>2, <1>3, <1>4

LEMMA ReadDebtsIs ==
  ASSUME Shape, NEW h \in Handler, ReadDebts(h)
  PROVE  /\ call'[h] \in Calls /\ Become(h, call'[h]) /\ call[h].at = "debts"
         /\ call'[h].kind = "receipt" /\ call'[h].at = "balance"
         /\ call'[h].charge <= call'[h].amount /\ call'[h].charge = call[h].charge
         /\ call'[h].cheque = call[h].cheque /\ call'[h].todo \subseteq issued /\ call'[h].moved = call[h].moved
         /\ \A i \in call'[h].todo : call'[h].seen[i] > 0
<1> DEFINE r == [call[h] EXCEPT !.at = "balance", !.seen = due,
                                !.todo = {i \in issued : due[i] > 0}]
<1>1. r \in Calls
  BY CallIs DEF Calls
<1>2. /\ r.at = "balance" /\ r.kind = "receipt" /\ r.charge <= r.amount
      /\ r.charge = call[h].charge
      /\ r.cheque = call[h].cheque /\ r.todo \subseteq issued /\ r.moved = call[h].moved
      /\ \A i \in r.todo : r.seen[i] > 0
  BY CallIs DEF ReadDebts, Shaped, Receiving, Calls
<1>3. Become(h, r) /\ call[h].at = "debts"
  BY DEF ReadDebts
<1> HIDE DEF r
<1>4. call'[h] = r
  BY <1>3, BecomeIs DEF Shape, TypeOK
<1> QED BY <1>1, <1>2, <1>3, <1>4

LEMMA AcceptIs ==
  ASSUME Shape, NEW h \in Handler, Accept(h)
  PROVE  /\ call'[h] \in Calls /\ Become(h, call'[h])
         /\ call[h].at = "balance" /\ call'[h].at = "allocating"
         /\ call'[h].kind = call[h].kind /\ call'[h].cheque = call[h].cheque
         /\ call'[h].charge = call[h].charge /\ call'[h].amount = call[h].amount
         /\ call'[h].todo = call[h].todo /\ call'[h].moved = call[h].moved
         /\ call'[h].seen = call[h].seen
<1> DEFINE r == [call[h] EXCEPT !.at = "allocating", !.rest = call[h].amount]
<1>1. r \in Calls
  BY CallIs DEF Calls
<1>2. /\ r.at = "allocating" /\ r.kind = call[h].kind /\ r.cheque = call[h].cheque
      /\ r.charge = call[h].charge /\ r.amount = call[h].amount
      /\ r.todo = call[h].todo /\ r.moved = call[h].moved /\ r.seen = call[h].seen
  BY CallIs DEF Calls
<1>3. Become(h, r) /\ call[h].at = "balance"
  BY DEF Accept
<1> HIDE DEF r
<1>4. call'[h] = r
  BY <1>3, BecomeIs DEF Shape, TypeOK
<1> QED BY <1>1, <1>2, <1>3, <1>4

LEMMA ReadRoomsIs ==
  ASSUME Shape, NEW h \in Handler, ReadRooms(h)
  PROVE  /\ call'[h] \in Calls /\ Become(h, call'[h])
         /\ call[h].at = "rooms" /\ call'[h].at = "shifting" /\ call'[h].seen = due
         /\ call'[h].amount = call[h].amount
         /\ call'[h].kind = call[h].kind /\ call'[h].status = call[h].status
         /\ call'[h].cheque = call[h].cheque
         /\ call'[h].todo = call[h].todo /\ call'[h].moved = call[h].moved
<1> DEFINE r == [call[h] EXCEPT !.at = "shifting", !.seen = due]
<1>1. r \in Calls
  BY CallIs DEF Calls
<1>2. /\ r.at = "shifting" /\ r.kind = call[h].kind /\ r.status = call[h].status
      /\ r.cheque = call[h].cheque /\ r.seen = due /\ r.amount = call[h].amount
      /\ r.todo = call[h].todo /\ r.moved = call[h].moved
  BY CallIs DEF Calls
<1>3. Become(h, r) /\ call[h].at = "rooms"
  BY DEF ReadRooms
<1> HIDE DEF r
<1>4. call'[h] = r
  BY <1>3, BecomeIs DEF Shape, TypeOK
<1> QED BY <1>1, <1>2, <1>3, <1>4

LEMMA LoadIs ==
  ASSUME Shape, NEW h \in Handler, NEW kind \in DOMAIN Accepted, NEW c \in Cheque,
         Load(h, kind, c)
  PROVE  /\ call'[h] \in Calls /\ Become(h, call'[h]) /\ call[h].at = "idle"
         /\ cheque[c].status \in Accepted[kind] /\ call'[h].kind = kind
         /\ call'[h].at \in {"rooms", "shifting"} /\ call'[h].cheque = c
         /\ call'[h].status = cheque[c].status /\ call'[h].seen = due
         /\ call'[h].amount = cheque[c].amount
         /\ call'[h].todo \subseteq issued /\ \A i \in Invoice : call'[h].moved[i] = 0
<1> DEFINE at == IF Shifts(kind, cheque[c].status) /\ ~ cheque[c].sale THEN "rooms" ELSE "shifting"
           todo == IF Shifts(kind, cheque[c].status)
                   THEN {i \in Invoice : cheque[c].part[i] > 0} ELSE {}
           loaded == [Idle EXCEPT !.at = at, !.cheque = c, !.status = cheque[c].status,
                                  !.amount = cheque[c].amount, !.rest = cheque[c].amount,
                                  !.seen = due, !.todo = todo]
           r == [loaded EXCEPT !.kind = kind]
<1>1. Become(h, r) /\ call[h].at = "idle" /\ cheque[c].status \in Accepted[kind]
  BY DEF Load, Begin, Asked
<1>2. /\ at \in {"rooms", "shifting"} /\ todo \in SUBSET Invoice /\ todo \subseteq issued
      /\ kind \in {"deposit", "cash", "bounce"} /\ cheque[c].status \in Statuses
      /\ cheque[c].amount \in Nat /\ due \in [Invoice -> Int]
  BY <1>1 DEF Accepted, Shape, TypeOK, ChequeRows, Statuses
<1> HIDE DEF at, todo
<1>3. PICK status, amount : status = cheque[c].status /\ amount = cheque[c].amount
  OBVIOUS
<1>4. loaded \in Calls
  <2>1. [Idle EXCEPT !.at = at, !.cheque = c, !.status = status] \in Calls
    BY <1>2, <1>3, IdleIs DEF Calls
  <2>2. loaded = [[Idle EXCEPT !.at = at, !.cheque = c, !.status = status]
                    EXCEPT !.amount = amount, !.rest = amount, !.seen = due, !.todo = todo]
    BY <1>3, IdleIs DEF Calls
  <2> QED BY <1>2, <1>3, <2>1, <2>2 DEF Calls
<1>5. /\ loaded.at = at /\ loaded.cheque = c /\ loaded.status = cheque[c].status
      /\ loaded.todo = todo /\ loaded.moved = Idle.moved /\ loaded.seen = due
      /\ loaded.amount = cheque[c].amount
  BY IdleIs DEF Calls
<1> HIDE DEF loaded
<1>6. /\ r \in Calls /\ r.kind = kind /\ r.at = at /\ r.cheque = c /\ r.seen = due
      /\ r.status = cheque[c].status /\ r.todo = todo /\ r.moved = Idle.moved
      /\ r.amount = cheque[c].amount
  BY <1>2, <1>4, <1>5 DEF Calls
<1> HIDE DEF r
<1>7. call'[h] = r
  BY <1>1, BecomeIs DEF Shape, TypeOK
<1> QED BY <1>1, <1>2, <1>6, <1>7, IdleIs

LEMMA LockCustomerIs ==
  ASSUME Shape, NEW h \in Handler, NEW amount \in Nat, NEW free \in BOOLEAN,
         LockCustomer(h, amount, free)
  PROVE  /\ call'[h] \in Calls /\ Become(h, call'[h]) /\ call[h].at = "idle"
         /\ call'[h].at = "paying" /\ call'[h].amount = amount /\ call'[h].free = free
         /\ call'[h].todo = {} /\ \A i \in Invoice : call'[h].moved[i] = 0
<1> DEFINE asked == [Idle EXCEPT !.at = "paying", !.amount = amount, !.free = free]
           r == [asked EXCEPT !.kind = "payout"]
<1>1. Become(h, r) /\ call[h].at = "idle"
  BY DEF LockCustomer, Begin
<1>2. /\ asked \in Calls /\ asked.at = "paying" /\ asked.todo = {}
      /\ asked.amount = amount /\ asked.free = free /\ asked.moved = Idle.moved
  BY IdleIs DEF Calls
<1> HIDE DEF asked
<1>3. /\ r \in Calls /\ r.at = "paying" /\ r.todo = {} /\ r.amount = amount
      /\ r.free = free /\ r.moved = Idle.moved
  BY <1>2 DEF Calls
<1> HIDE DEF r
<1>4. call'[h] = r
  BY <1>1, BecomeIs DEF Shape, TypeOK
<1> QED BY <1>1, <1>3, <1>4, IdleIs

LEMMA ShapeAskReceipt ==
  ASSUME Shape, NEW h \in Handler, NEW base \in Nat, NEW charge \in Nat,
         NEW c \in Cheque \cup {NoCheque}, NEW free \in BOOLEAN,
         AskReceipt(h, base, charge, c, free)
  PROVE  Shape'
<1>1. UNCHANGED <<rows, raised, clashed, overtaken>> /\ calls' = calls + 1
  BY DEF AskReceipt, Asked
<1>2. /\ call'[h] \in Calls /\ Become(h, call'[h]) /\ call[h].at = "idle"
      /\ Shaped(h)'
  BY AskReceiptIs DEF Shaped, Receiving, Working
<1> QED BY <1>1, <1>2, PayingIs, ShapeOfCall DEF Shape, TypeOK

LEMMA ShapeReadDebts ==
  ASSUME Shape, NEW h \in Handler, ReadDebts(h)
  PROVE  Shape'
<1>1. UNCHANGED <<rows, history>>
  BY DEF ReadDebts
<1>2. Shaped(h)'
  BY <1>1, ReadDebtsIs, CallIs DEF Shaped, Receiving, Working, rows
<1> QED BY <1>1, <1>2, ReadDebtsIs, PayingIs, ShapeOfCall DEF Shape, TypeOK, history

LEMMA ShapeAccept ==
  ASSUME Shape, NEW h \in Handler, Accept(h)
  PROVE  Shape'
<1>1. UNCHANGED <<rows, history>>
  BY DEF Accept
<1>2. Shaped(h)'
  BY <1>1, AcceptIs, CallIs DEF Shaped, Receiving, Working, rows
<1> QED BY <1>1, <1>2, AcceptIs, PayingIs, ShapeOfCall DEF Shape, TypeOK, history

(* A call that passes over an invoice, or moves an amount on it.           *)
LEMMA PassIs ==
  ASSUME Shape, NEW h \in Handler, NEW i \in Invoice, Pass(h, i)
  PROVE  /\ call'[h] \in Calls /\ Become(h, call'[h])
         /\ call'[h].at = call[h].at /\ call'[h].kind = call[h].kind
         /\ call'[h].amount = call[h].amount /\ call'[h].charge = call[h].charge
         /\ call'[h].cheque = call[h].cheque /\ call'[h].status = call[h].status
         /\ call'[h].seen = call[h].seen /\ call'[h].todo = call[h].todo \ {i}
         /\ call'[h].moved = call[h].moved /\ call'[h].free = call[h].free
<1> DEFINE k == call[h]
           r == [k EXCEPT !.todo = @ \ {i}]
<1>1. k \in Calls
  BY CallIs
<1>2. call'[h] = r /\ Become(h, r)
  BY BecomeIs DEF Pass, Shape, TypeOK
<1> HIDE DEF k
<1>3. r \in Calls
  BY <1>1 DEF Calls
<1>4. /\ r.at = k.at /\ r.kind = k.kind /\ r.amount = k.amount /\ r.charge = k.charge
      /\ r.cheque = k.cheque /\ r.status = k.status /\ r.free = k.free
  BY <1>1 DEF Calls
<1>5. r.seen = k.seen /\ r.todo = k.todo \ {i} /\ r.moved = k.moved
  BY <1>1 DEF Calls
<1> QED BY <1>2, <1>3, <1>4, <1>5 DEF k

LEMMA MoveIs ==
  ASSUME Shape, NEW h \in Handler, NEW i \in Invoice, NEW d \in {1, -1}, NEW n \in Nat,
         n <= call[h].rest, Move(h, i, d, n)
  PROVE  /\ call'[h] \in Calls /\ Become(h, call'[h])
         /\ call'[h].at = call[h].at /\ call'[h].kind = call[h].kind
         /\ call'[h].amount = call[h].amount /\ call'[h].charge = call[h].charge
         /\ call'[h].cheque = call[h].cheque /\ call'[h].status = call[h].status
         /\ call'[h].seen = call[h].seen /\ call'[h].todo = call[h].todo \ {i}
         /\ call'[h].moved = [call[h].moved EXCEPT ![i] = d * n]
         /\ call'[h].free = call[h].free
<1> DEFINE k == call[h]
           m == [k.moved EXCEPT ![i] = d * n]
           r == [k EXCEPT !.todo = @ \ {i}, !.moved[i] = d * n, !.rest = @ - n]
<1>1. k \in Calls
  BY CallIs
<1>2. call'[h] = r /\ Become(h, r)
  BY BecomeIs DEF Move, Shape, TypeOK
<1>3. d * n \in Int /\ k.rest - n \in Nat
  BY <1>1 DEF Calls
<1> HIDE DEF k
<1>4. m \in [Invoice -> Int]
  BY <1>1, <1>3 DEF Calls
<1>5. r = [k EXCEPT !.todo = @ \ {i}, !.moved = m, !.rest = @ - n]
  BY <1>1 DEF Calls
<1> HIDE DEF m
<1>6. r \in Calls
  BY <1>1, <1>3, <1>4, <1>5 DEF Calls
<1>7. /\ r.at = k.at /\ r.kind = k.kind /\ r.amount = k.amount /\ r.charge = k.charge
      /\ r.cheque = k.cheque /\ r.status = k.status /\ r.free = k.free
  BY <1>1, <1>5 DEF Calls
<1>8. r.seen = k.seen /\ r.todo = k.todo \ {i} /\ r.moved = m
  BY <1>1, <1>5 DEF Calls
<1> QED BY <1>2, <1>6, <1>7, <1>8 DEF k, m

LEMMA ShapeAllocate ==
  ASSUME Shape, NEW h \in Handler, NEW i \in Invoice, Allocate(h, i)
  PROVE  Shape'
<1>1. call[h].at = "allocating" /\ i \in call[h].todo /\ UNCHANGED <<rows, history>>
  BY DEF Allocate, IsNext
<1>2. CASE Pass(h, i)
  <2>1. /\ call'[h] \in Calls /\ Become(h, call'[h])
        /\ call'[h].at = call[h].at /\ call'[h].kind = call[h].kind
        /\ call'[h].amount = call[h].amount /\ call'[h].charge = call[h].charge
        /\ call'[h].seen = call[h].seen /\ call'[h].todo = call[h].todo \ {i}
        /\ call'[h].moved = call[h].moved
    BY <1>2, PassIs
  <2>2. Shaped(h)'
    BY <1>1, <2>1, CallIs DEF Shaped, Receiving, Working, rows
  <2> QED BY <1>1, <2>1, <2>2, PayingIs, ShapeOfCall DEF Shape, TypeOK, history
<1>3. CASE Move(h, i, -1, Least(call[h].rest, call[h].seen[i]))
  <2>1. /\ Least(call[h].rest, call[h].seen[i]) \in Nat
        /\ Least(call[h].rest, call[h].seen[i]) <= call[h].rest
    BY <1>1, CallIs DEF Least, Shaped, Calls
  <2> DEFINE n == Least(call[h].rest, call[h].seen[i])
  <2>2. /\ call'[h] \in Calls /\ Become(h, call'[h])
        /\ call'[h].at = call[h].at /\ call'[h].kind = call[h].kind
        /\ call'[h].amount = call[h].amount /\ call'[h].charge = call[h].charge
        /\ call'[h].seen = call[h].seen /\ call'[h].todo = call[h].todo \ {i}
        /\ call'[h].moved = [call[h].moved EXCEPT ![i] = (-1) * n]
    BY <1>3, <2>1, MoveIs
  <2>3. (-1) * n <= 0 /\ n \in Nat
    BY <2>1
  <2> HIDE DEF n
  <2>4. \A j \in Invoice : call'[h].moved[j] = IF j = i THEN (-1) * n ELSE call[h].moved[j]
    BY <2>2, CallIs DEF Calls
  <2>5. Shaped(h)'
    BY <1>1, <2>2, <2>3, <2>4, CallIs DEF Shaped, Receiving, Working, rows
  <2> QED BY <1>1, <2>2, <2>5, PayingIs, ShapeOfCall DEF Shape, TypeOK, history
<1> QED BY <1>2, <1>3 DEF Allocate

LEMMA ToMoveIs ==
  ASSUME Shape, NEW h \in Handler, NEW i \in Invoice, Working(h)
  PROVE  /\ ToMove(h, i) \in Nat /\ ToMove(h, i) <= call[h].rest
         /\ ToMove(h, i) <= Room(h, i) /\ Room(h, i) \in Nat
<1>1. Room(h, i) \in Nat
  BY PriceAssumption, CallIs DEF Room, AtLeastZero, Calls
<1>2. cheque[call[h].cheque].part[i] \in Nat /\ call[h].rest \in Nat
  BY CallIs DEF Shape, TypeOK, Shaped, ChequeRows, Calls
<1> QED BY <1>1, <1>2 DEF ToMove, Least

LEMMA ShapeReadRooms ==
  ASSUME Shape, NEW h \in Handler, ReadRooms(h)
  PROVE  Shape'
<1>1. UNCHANGED <<rows, history>>
  BY DEF ReadRooms
<1>2. Shaped(h)'
  BY <1>1, ReadRoomsIs, CallIs DEF Shaped, Receiving, Working, rows
<1> QED BY <1>1, <1>2, ReadRoomsIs, PayingIs, ShapeOfCall DEF Shape, TypeOK, history

LEMMA ShapeShift ==
  ASSUME Shape, NEW h \in Handler, NEW i \in Invoice, Shift(h, i)
  PROVE  Shape'
<1>1. call[h].at = "shifting" /\ i \in call[h].todo /\ UNCHANGED <<rows, history>>
  BY DEF Shift
<1>2. CASE Pass(h, i)
  <2>1. /\ call'[h] \in Calls /\ Become(h, call'[h])
        /\ call'[h].at = call[h].at /\ call'[h].kind = call[h].kind
        /\ call'[h].cheque = call[h].cheque /\ call'[h].status = call[h].status
        /\ call'[h].todo = call[h].todo \ {i} /\ call'[h].moved = call[h].moved
    BY <1>2, PassIs
  <2>2. Shaped(h)'
    BY <1>1, <2>1, CallIs DEF Shaped, Receiving, Working, rows
  <2> QED BY <1>1, <2>1, <2>2, PayingIs, ShapeOfCall DEF Shape, TypeOK, history
<1>3. CASE /\ ToMove(h, i) > 0
           /\ Move(h, i, IF call[h].kind = "bounce" THEN 1 ELSE -1, ToMove(h, i))
  <2> DEFINE d == IF call[h].kind = "bounce" THEN 1 ELSE -1
             n == ToMove(h, i)
  <2>1. n \in Nat /\ n <= call[h].rest
    BY <1>1, ToMoveIs DEF Working
  <2>2. /\ call'[h] \in Calls /\ Become(h, call'[h])
        /\ call'[h].at = call[h].at /\ call'[h].kind = call[h].kind
        /\ call'[h].cheque = call[h].cheque /\ call'[h].status = call[h].status
        /\ call'[h].todo = call[h].todo \ {i}
        /\ call'[h].moved = [call[h].moved EXCEPT ![i] = d * n]
    <3>1. d \in {1, -1} /\ Move(h, i, d, n)
      BY <1>3
    <3> HIDE DEF d, n
    <3> QED BY <2>1, <3>1, MoveIs
  <2> HIDE DEF d, n
  <2>3. i \in issued
    BY <1>1, CallIs DEF Shaped
  <2>4. \A j \in Invoice : j # i => call'[h].moved[j] = call[h].moved[j]
    BY <2>2, CallIs DEF Calls
  <2>5. Shaped(h)'
    BY <1>1, <2>2, <2>3, <2>4, CallIs DEF Shaped, Receiving, Working, rows
  <2> QED BY <1>1, <2>2, <2>5, PayingIs, ShapeOfCall DEF Shape, TypeOK, history
<1> QED BY <1>2, <1>3 DEF Shift

LEMMA ShapeLoad ==
  ASSUME Shape, NEW h \in Handler, NEW kind \in DOMAIN Accepted, NEW c \in Cheque,
         Load(h, kind, c)
  PROVE  Shape'
<1>1. UNCHANGED <<rows, raised, clashed, overtaken>> /\ calls' = calls + 1
  BY DEF Load, Asked
<1>2. Shaped(h)'
  BY <1>1, LoadIs DEF Shaped, Receiving, Working, Statuses, Accepted, rows
<1> QED BY <1>1, <1>2, LoadIs, PayingIs, ShapeOfCall DEF Shape, TypeOK

LEMMA ShapeLockCustomer ==
  ASSUME Shape, NEW h \in Handler, NEW amount \in Nat, NEW free \in BOOLEAN,
         LockCustomer(h, amount, free)
  PROVE  Shape'
<1>1. UNCHANGED <<rows, raised, clashed, overtaken>> /\ calls' = calls + 1
  BY DEF LockCustomer, Asked
<1>2. Shaped(h)'
  BY LockCustomerIs DEF Shaped, Receiving, Working
<1> QED BY <1>1, <1>2, LockCustomerIs, PayingIs, ShapeOfCall DEF Shape, TypeOK

(* A call that is over, whatever became of it.                             *)
LEMMA OverIs ==
  ASSUME Shape, NEW h \in Handler, Become(h, Idle)
  PROVE  /\ Shaped(h)' /\ Paying' = Paying \ {h} /\ call'[h] = Idle
         /\ call' \in [Handler -> Calls]
<1>1. call'[h] = Idle /\ \A g \in Handler : g # h => call'[g] = call[g]
  BY BecomeIs DEF Shape, TypeOK
<1>2. Shaped(h)'
  BY <1>1, IdleIs DEF Shaped, Receiving, Working
<1>3. call' \in [Handler -> Calls]
  BY IdleIs DEF Become, Shape, TypeOK
<1> QED BY <1>1, <1>2, <1>3, IdleIs DEF Paying

LEMMA ShapeRollback ==
  ASSUME Shape, NEW h \in Handler, Rollback(h)
  PROVE  Shape'
<1>1. Become(h, Idle) /\ UNCHANGED <<rows, clashed, overtaken, calls>> /\ raised' = raised \ {h}
  BY DEF Rollback
<1>2. Shaped(h)' /\ raised' \subseteq Paying'
  BY <1>1, OverIs DEF Shape, TypeOK
<1> QED BY <1>1, <1>2, IdleIs, ShapeOfCall DEF Shape, TypeOK

(* What becomes of the shape when a transaction commits.                   *)
LEMMA ShapeOfSettle ==
  ASSUME Shape, NEW h \in Handler, Settle(h), call[h].at # "paying",
         issued' = issued, allocated' \subseteq issued, calls' = calls,
         ledger' \in Int, book' \in [CUSTOMERS : Int, CHEQUES : Int],
         posted' \subseteq (({"deposit", "cash", "bounce"} \X Cheque) \X {"CHEQUES", "BANK"}),
         raised' = raised \/ raised' = raised \cup Paying, clashed' \subseteq Cheque,
         cheque' \in [Cheque -> ChequeRows],
         \A c \in Cheque : cheque[c].status # "NONE" => cheque'[c].status # "NONE",
         \A c \in Cheque, i \in Invoice : cheque'[c].part[i] > 0 => i \in issued
  PROVE  Shape'
<1>1. Become(h, Idle) /\ due' = [i \in Invoice |-> due[i] + call[h].moved[i]]
      /\ Overtakes(h, call[h].moved)
  BY DEF Settle
<1>2. due' \in [Invoice -> Int] /\ overtaken' \subseteq Invoice
  BY <1>1, CallIs DEF Shape, TypeOK, Overtakes, Calls
<1>3. Shaped(h)' /\ Paying' = Paying /\ call' \in [Handler -> Calls]
  BY <1>1, OverIs DEF Paying
<1>4. TypeOK'
  BY <1>2, <1>3 DEF Shape, TypeOK
<1>5. ASSUME NEW g \in Handler, g # h
      PROVE  Shaped(g)'
  <2>1. call'[g] = call[g]
    BY <1>1, <1>5, BecomeIs DEF Shape, TypeOK
  <2>2. Working(g) => call[g].cheque \in Cheque /\ cheque[call[g].cheque].status # "NONE"
    BY CallIs DEF Shaped
  <2> QED BY <2>1, <2>2, CallIs DEF Shaped, Receiving, Working
<1> QED BY <1>3, <1>4, <1>5 DEF Shape

LEMMA ShapeReceive ==
  ASSUME Shape, NEW h \in Handler, Receive(h)
  PROVE  Shape'
<1> DEFINE k == call[h]
           new == NewCheque(k.amount, k.charge, FALSE, [i \in Invoice |-> -k.moved[i]])
<1>1. k \in Calls /\ Shaped(h) /\ k.at = "allocating" /\ Settle(h)
  BY CallIs DEF Receive
<1>2. \A i \in Invoice : k.moved[i] \in Int /\ k.moved[i] <= 0 /\ (k.moved[i] # 0 => i \in issued)
  BY <1>1 DEF Shaped, Receiving, Calls
<1>3. /\ new \in ChequeRows /\ new.status = "IN_HAND"
      /\ \A i \in Invoice : new.part[i] > 0 => i \in issued
  <2>1. [i \in Invoice |-> -k.moved[i]] \in [Invoice -> Nat]
    BY <1>2
  <2> HIDE DEF k
  <2>2. PICK part \in [Invoice -> Nat] : part = [i \in Invoice |-> -k.moved[i]]
    BY <2>1
  <2>3. \A i \in Invoice : part[i] > 0 => i \in issued
    BY <1>2, <2>2
  <2> QED BY <1>1, <2>2, <2>3 DEF NewCheque, ChequeRows, Statuses, Calls
<1>4. /\ allocated' \subseteq issued /\ ledger' \in Int
      /\ UNCHANGED <<issued, posted, raised, clashed, calls>>
  BY <1>1, <1>2 DEF Receive, Shape, TypeOK, Calls
<1>5. book' \in [CUSTOMERS : Int, CHEQUES : Int]
  <2>1. /\ -k.amount \in Int /\ 0 \in Int /\ k.charge - k.amount \in Int /\ k.amount \in Int
        /\ book \in [CUSTOMERS : Int, CHEQUES : Int]
    BY <1>1 DEF Calls, Shape, TypeOK
  <2>2. Book(-k.amount, 0) \/ Book(k.charge - k.amount, k.amount)
    BY DEF Receive
  <2> QED BY <2>1, <2>2, BookIs
<1>6. /\ cheque' \in [Cheque -> ChequeRows]
      /\ \A c \in Cheque : cheque[c].status # "NONE" => cheque'[c].status # "NONE"
      /\ \A c \in Cheque, i \in Invoice : cheque'[c].part[i] > 0 => i \in issued
  <2>1. UNCHANGED cheque \/ (k.cheque # NoCheque /\ cheque' = [cheque EXCEPT ![k.cheque] = new])
    BY DEF Receive
  <2>2. k.cheque \in Cheque \cup {NoCheque}
    BY <1>1 DEF Calls
  <2> HIDE DEF new, k
  <2> QED BY <1>3, <2>1, <2>2 DEF Shape, TypeOK
<1> QED BY <1>1, <1>4, <1>5, <1>6, ShapeOfSettle DEF Shape, TypeOK

LEMMA ShapePayOut ==
  ASSUME Shape, NEW h \in Handler, PayOut(h)
  PROVE  Shape'
<1>1. /\ Become(h, Idle) /\ raised' = raised \ {h}
      /\ UNCHANGED <<issued, due, allocated, cheque, posted, clashed, overtaken, calls>>
      /\ call[h].amount \in Nat
  BY CallIs DEF PayOut, Calls
<1>2. book' \in [CUSTOMERS : Int, CHEQUES : Int] /\ ledger' \in Int
  BY <1>1, BookIs DEF PayOut, Shape, TypeOK
<1>3. Shaped(h)' /\ raised' \subseteq Paying' /\ call' \in [Handler -> Calls]
  BY <1>1, OverIs DEF Shape, TypeOK
<1>4. TypeOK'
  BY <1>1, <1>2, <1>3 DEF Shape, TypeOK
<1>5. ASSUME NEW g \in Handler, g # h
      PROVE  Shaped(g)'
  <2>1. call'[g] = call[g]
    BY <1>1, <1>5, BecomeIs DEF Shape, TypeOK
  <2> QED BY <1>1, <2>1, CallIs DEF Shaped, Receiving, Working
<1> QED BY <1>1, <1>3, <1>4, <1>5 DEF Shape

(* The postings of a cheque's calls keep the types of the vouchers.        *)
LEMMA PostIs ==
  ASSUME Shape, NEW kind \in {"deposit", "cash", "bounce"}, NEW c \in Cheque,
         NEW account \in {"CHEQUES", "BANK"}, NEW x \in Int, NEW y \in Int,
         Post(<<kind, c>>, account, x, y)
  PROVE  /\ book' \in [CUSTOMERS : Int, CHEQUES : Int]
         /\ posted' \subseteq (({"deposit", "cash", "bounce"} \X Cheque) \X {"CHEQUES", "BANK"})
         /\ HasKey(kind, c) => UNCHANGED <<book, posted>>
         /\ ~ HasKey(kind, c) => /\ posted' = posted \cup {<<<<kind, c>>, account>>}
                                 /\ book'.CUSTOMERS = book.CUSTOMERS + x
                                 /\ book'.CHEQUES = book.CHEQUES + y
<1>1. CASE HasKey(kind, c)
  BY <1>1 DEF Post, HasKey, Shape, TypeOK
<1>2. CASE ~ HasKey(kind, c)
  <2>1. posted' = posted \cup {<<<<kind, c>>, account>>} /\ Book(x, y)
    BY <1>2 DEF Post, HasKey
  <2> QED BY <1>2, <2>1, BookIs DEF Shape, TypeOK
<1> QED BY <1>1, <1>2

LEMMA StampedIs ==
  ASSUME cheque \in [Cheque -> ChequeRows], NEW c \in Cheque, NEW status \in Statuses,
         cheque' = [cheque EXCEPT ![c].status = status]
  PROVE  /\ cheque' \in [Cheque -> ChequeRows] /\ cheque'[c].status = status
         /\ \A d \in Cheque : d # c => cheque'[d] = cheque[d]
         /\ \A d \in Cheque : cheque'[d].part = cheque[d].part
         /\ \A d \in Cheque : cheque'[d].amount = cheque[d].amount
<1> DEFINE row == [cheque[c] EXCEPT !.status = status]
<1>1. /\ row \in ChequeRows /\ row.status = status /\ row.part = cheque[c].part
      /\ row.amount = cheque[c].amount
  BY DEF ChequeRows
<1>2. cheque' = [cheque EXCEPT ![c] = row]
  OBVIOUS
<1> HIDE DEF row
<1> QED BY <1>1, <1>2

(* What a call of a cheque does when it commits.                           *)
LEMMA ShapeOfStamp ==
  ASSUME Shape, NEW h \in Handler, NEW kind \in DOMAIN Accepted, NEW status \in Statuses,
         Stamp(h, kind, status), ledger' \in Int, raised' = raised \/ raised' = raised \cup Paying,
         book' \in [CUSTOMERS : Int, CHEQUES : Int],
         posted' \subseteq (({"deposit", "cash", "bounce"} \X Cheque) \X {"CHEQUES", "BANK"})
  PROVE  Shape'
<1> DEFINE c == call[h].cheque
<1>1. c \in Cheque /\ call[h].at = "shifting" /\ Settle(h) /\ Clashes(h, c)
      /\ cheque' = [cheque EXCEPT ![c].status = status]
      /\ UNCHANGED <<issued, allocated, calls>>
  BY CallIs DEF Stamp, Shaped, Working
<1> HIDE DEF c
<1>2. clashed' \subseteq Cheque
  BY <1>1 DEF Clashes, Shape, TypeOK
<1>3. /\ cheque' \in [Cheque -> ChequeRows]
      /\ \A d \in Cheque : cheque[d].status # "NONE" => cheque'[d].status # "NONE"
      /\ \A d \in Cheque : cheque'[d].part = cheque[d].part
  BY <1>1, StampedIs DEF Shape, TypeOK, Statuses
<1> QED BY <1>1, <1>2, <1>3, ShapeOfSettle DEF Shape, TypeOK

LEMMA ShapeDeposit ==
  ASSUME Shape, NEW h \in Handler, Deposit(h)
  PROVE  Shape'
<1>1. call[h].cheque \in Cheque /\ call[h].amount \in Nat
  BY CallIs DEF Deposit, Stamp, Shaped, Working, Calls
<1>2. /\ book' \in [CUSTOMERS : Int, CHEQUES : Int]
      /\ posted' \subseteq (({"deposit", "cash", "bounce"} \X Cheque) \X {"CHEQUES", "BANK"})
  <2>1. -call[h].amount \in Int
    BY <1>1
  <2> QED BY <1>1, <2>1, PostIs DEF Deposit
<1> QED BY <1>2, ShapeOfStamp DEF Deposit, Accepted, Statuses, Shape, TypeOK

LEMMA ShapeBounce ==
  ASSUME Shape, NEW h \in Handler, Bounce(h)
  PROVE  Shape'
<1> DEFINE account == IF call[h].status = "DEPOSITED" THEN "BANK" ELSE "CHEQUES"
<1>1. call[h].cheque \in Cheque /\ call[h].amount \in Nat
  BY CallIs DEF Bounce, Stamp, Shaped, Working, Calls
<1>2. /\ book' \in [CUSTOMERS : Int, CHEQUES : Int] /\ ledger' \in Int
      /\ posted' \subseteq (({"deposit", "cash", "bounce"} \X Cheque) \X {"CHEQUES", "BANK"})
  <2>1. OnCheques(account, -call[h].amount) \in Int /\ account \in {"CHEQUES", "BANK"}
    BY <1>1 DEF OnCheques
  <2>2. Post(<<"bounce", call[h].cheque>>, account, call[h].amount,
             OnCheques(account, -call[h].amount))
    BY DEF Bounce
  <2> HIDE DEF account
  <2>3. ledger' \in Int
    BY <1>1 DEF Bounce, Shape, TypeOK
  <2> QED BY <1>1, <2>1, <2>2, <2>3, PostIs
<1> QED BY <1>2, ShapeOfStamp DEF Bounce, Raises, Accepted, Statuses, Shape, TypeOK

LEMMA ShapeCash ==
  ASSUME Shape, NEW h \in Handler, Cash(h)
  PROVE  Shape'
<1>1. call[h].cheque \in Cheque /\ call[h].amount \in Nat
  BY CallIs DEF Cash, Stamp, Shaped, Working, Calls
<1>2. /\ book' \in [CUSTOMERS : Int, CHEQUES : Int]
      /\ posted' \subseteq (({"deposit", "cash", "bounce"} \X Cheque) \X {"CHEQUES", "BANK"})
  <2>1. PICK n \in Int : n = -call[h].amount
    BY <1>1
  <2>2. CASE UNCHANGED <<book, posted>>
    BY <2>2 DEF Shape, TypeOK
  <2>3. CASE Post(<<"cash", call[h].cheque>>, "CHEQUES", 0, n)
    BY <1>1, <2>3, PostIs
  <2> QED BY <2>1, <2>2, <2>3 DEF Cash
<1> QED BY <1>2, ShapeOfStamp DEF Cash, Accepted, Statuses, Shape, TypeOK

LEMMA ShapeCashBounced ==
  ASSUME Shape, NEW h \in Handler, CashBounced(h)
  PROVE  Shape'
<1>1. call[h].cheque \in Cheque /\ call[h].amount \in Nat
  BY CallIs DEF CashBounced, Stamp, Shaped, Working, Calls
<1>2. PICK v \in posted : Post(<<"cash", call[h].cheque>>, v[2], -call[h].amount,
                               OnCheques(v[2], call[h].amount))
  BY DEF CashBounced
<1>3. /\ book' \in [CUSTOMERS : Int, CHEQUES : Int] /\ ledger' \in Int
      /\ posted' \subseteq (({"deposit", "cash", "bounce"} \X Cheque) \X {"CHEQUES", "BANK"})
  <2>1. /\ -call[h].amount \in Int /\ OnCheques(v[2], call[h].amount) \in Int
        /\ v[2] \in {"CHEQUES", "BANK"}
    BY <1>1 DEF OnCheques, Shape, TypeOK
  <2>2. ledger' \in Int
    BY <1>1 DEF CashBounced, Shape, TypeOK
  <2> QED BY <1>1, <1>2, <2>1, <2>2, PostIs
<1> QED BY <1>3, ShapeOfStamp DEF CashBounced, Accepted, Statuses, Shape, TypeOK

(* Every step of the specification is one of these, with inputs of their   *)
(* types.                                                                  *)
LEMMA Steps ==
  ASSUME Next
  PROVE  \/ \E i \in Invoice, cash \in Nat, byCheque \in Nat, c \in Cheque \cup {NoCheque} :
              Sell(i, cash, c, byCheque)
         \/ \E i \in Invoice, amount \in Nat : amount > 0 /\ Reverse(i, amount)
         \/ \E i \in Invoice, paid \in Nat : Recompose(i, paid)
         \/ \E h \in Handler, base \in Nat, charge \in Nat, c \in Cheque \cup {NoCheque},
                free \in BOOLEAN : base > 0 /\ AskReceipt(h, base, charge, c, free)
         \/ \E h \in Handler, kind \in DOMAIN Accepted, c \in Cheque : Load(h, kind, c)
         \/ \E h \in Handler, amount \in Nat, free \in BOOLEAN :
              amount > 0 /\ LockCustomer(h, amount, free)
         \/ \E h \in Handler, i \in Invoice : Allocate(h, i) \/ Shift(h, i)
         \/ \E h \in Handler : \/ ReadDebts(h) \/ Accept(h) \/ Receive(h) \/ ReadRooms(h)
                               \/ Deposit(h) \/ Bounce(h) \/ Cash(h) \/ CashBounced(h)
                               \/ PayOut(h) \/ Rollback(h)
<1>1. /\ \A n \in Amounts : n \in Nat /\ n > 0
      /\ \A n \in 0 .. MaxAmount : n \in Nat
      /\ \A n \in Charges : n \in Nat
  BY BoundsAssumption, ChargesAssumption DEF Amounts
<1>2. CASE Documents
  BY <1>1, <1>2 DEF Documents
<1>3. ASSUME NEW h \in Handler, Asks(h)
      PROVE  \/ \E base \in Nat, charge \in Nat, c \in Cheque \cup {NoCheque}, free \in BOOLEAN :
                  base > 0 /\ AskReceipt(h, base, charge, c, free)
             \/ \E kind \in DOMAIN Accepted, c \in Cheque : Load(h, kind, c)
             \/ \E amount \in Nat, free \in BOOLEAN : amount > 0 /\ LockCustomer(h, amount, free)
  BY <1>1, <1>3 DEF Asks
<1> QED BY <1>2, <1>3 DEF Next, Serve

(* Reversals and new splits keep the debt of an invoice within its price.  *)
StaysWithin(i, d) == due[i] \in 0 .. Price[i] => due[i] + d \in 0 .. Price[i]

LEMMA DebtChanges ==
  ASSUME Shape, NEW i \in Invoice, NEW n \in Nat, Reverse(i, n) \/ Recompose(i, n)
  PROVE  /\ calls' = calls + 1 /\ i \in issued
         /\ \E d \in Int : ChangeDue(i, d) /\ StaysWithin(i, d)
<1>1. due[i] \in Int /\ Price[i] \in Int
  BY PriceAssumption DEF Shape, TypeOK
<1>2. CASE Reverse(i, n)
  <2>1. ChangeDue(i, n) /\ n <= Price[i] - due[i] /\ i \in issued /\ calls' = calls + 1
    BY <1>2 DEF Reverse, Asked, Paid
  <2>2. StaysWithin(i, n)
    BY <1>1, <2>1 DEF StaysWithin
  <2> QED BY <2>1, <2>2
<1>3. CASE Recompose(i, n)
  <2>1. PICK d \in Int : d = Paid(i) - n
    BY <1>1 DEF Paid
  <2>2. ChangeDue(i, d) /\ n <= Price[i] /\ i \in issued /\ calls' = calls + 1
    BY <1>3, <2>1 DEF Recompose, Asked
  <2>3. StaysWithin(i, d)
    BY <1>1, <2>1, <2>2 DEF Paid, StaysWithin
  <2> QED BY <2>2, <2>3
<1> QED BY <1>2, <1>3

LEMMA ShapeStep ==
  ASSUME Shape, Next
  PROVE  Shape'
<1>1. ASSUME NEW i \in Invoice, NEW n \in Nat, Reverse(i, n) \/ Recompose(i, n)
      PROVE  Shape'
  <2>1. calls' = calls + 1 /\ \E d \in Int : ChangeDue(i, d)
    BY <1>1, DebtChanges
  <2>2. calls' \in Nat
    BY <2>1 DEF Shape, TypeOK
  <2> QED BY <2>1, <2>2, ShapeChangeDue
<1> QED
  BY <1>1, Steps, ShapeSell, ShapeAskReceipt, ShapeLoad, ShapeLockCustomer, ShapeAllocate,
     ShapeShift, ShapeReadDebts, ShapeAccept, ShapeReceive, ShapeReadRooms, ShapeDeposit,
     ShapeBounce, ShapeCash, ShapeCashBounced, ShapePayOut, ShapeRollback

(* Every variable keeps its type, whatever is asked and in any order.      *)
THEOREM TypeIsInvariant == Spec => []TypeOK
<1>1. Shape /\ UNCHANGED vars => Shape'
  BY DEF Shape, TypeOK, Shaped, Receiving, Working, Paying, vars, rows, history
<1>2. Shape => TypeOK
  BY DEF Shape
<1> QED BY <1>1, <1>2, ShapeInit, ShapeStep, PTL DEF Spec

-----------------------------------------------------------------------------
(* What open transactions have moved.                                      *)

LEMMA MovesInit == Init => Moves
<1> SUFFICES ASSUME Init PROVE Moves
  OBVIOUS
<1>1. \A h \in Handler : call[h] = Idle
  BY DEF Init
<1>2. \A i \in Invoice : due[i] = 0 /\ Price[i] \in Nat
  BY PriceAssumption DEF Init, Zero
<1>3. DueWithinPrice /\ Locks /\ SeenIsDue
  BY <1>1, <1>2, IdleIs DEF DueWithinPrice, Locks, SeenIsDue
<1>4. Fits
  BY <1>1, <1>2, IdleIs DEF Fits
<1> QED BY <1>3, <1>4 DEF Moves

(* A step of one call that commits nothing: what it moves on an invoice is *)
(* what it had moved, or nothing, or what it moves under the lock of the   *)
(* row and the invoice has room for.                                       *)
LEMMA MovesOfCall ==
  ASSUME Shape, Moves, NEW h \in Handler, call'[h] \in Calls, Become(h, call'[h]),
         UNCHANGED <<due, overtaken>>,
         \A i \in Invoice : \/ call'[h].moved[i] = call[h].moved[i]
                            \/ call'[h].moved[i] = 0
                            \/ /\ Unlocked(h, i)
                               /\ i \notin overtaken =>
                                    due[i] + call'[h].moved[i] \in 0 .. Price[i],
         call'[h].at = "shifting" =>
           \A i \in call'[h].todo \ overtaken : call'[h].seen[i] = due[i]
  PROVE  Moves'
<1>1. \A g \in Handler : g # h => call'[g] = call[g]
  BY BecomeIs DEF Shape, TypeOK
<1>2. DueWithinPrice'
  BY DEF Moves, DueWithinPrice
<1>3. Locks'
  BY <1>1 DEF Moves, Locks, Unlocked
<1>4. Fits'
  <2> SUFFICES ASSUME NEW i \in Invoice, i \notin overtaken, NEW g \in Handler
               PROVE  due[i] + call'[g].moved[i] \in 0 .. Price[i]
    BY DEF Fits
  <2>1. due[i] \in 0 .. Price[i] /\ due[i] + call[g].moved[i] \in 0 .. Price[i]
    BY DEF Moves, DueWithinPrice, Fits
  <2>2. due[i] \in Int /\ Price[i] \in Int
    BY PriceAssumption DEF Shape, TypeOK
  <2> QED BY <1>1, <2>1, <2>2
<1>5. SeenIsDue'
  BY <1>1 DEF Moves, SeenIsDue
<1> QED BY <1>2, <1>3, <1>4, <1>5 DEF Moves

LEMMA MovesSell ==
  ASSUME Shape, Moves, NEW i \in Invoice, NEW cash \in Nat, NEW byCheque \in Nat,
         NEW c \in Cheque \cup {NoCheque}, Sell(i, cash, c, byCheque)
  PROVE  Moves'
<1>1. /\ i \notin issued /\ call' = call /\ overtaken' = overtaken
      /\ due' = [due EXCEPT ![i] = Price[i] - cash - byCheque]
      /\ cash + byCheque <= Price[i]
  BY DEF Sell
<1>2. \A h \in Handler : call[h].moved[i] = 0 /\ i \notin call[h].todo
  BY <1>1, CallIs DEF Shaped
<1>3. /\ due'[i] \in 0 .. Price[i] /\ due'[i] \in Int
      /\ \A j \in Invoice : j # i => due'[j] = due[j]
  <2>1. PICK n \in Int : n = Price[i] - cash - byCheque /\ n \in 0 .. Price[i]
    BY <1>1, PriceAssumption
  <2>2. due' = [due EXCEPT ![i] = n]
    BY <1>1, <2>1
  <2> QED BY <2>1, <2>2 DEF Shape, TypeOK
<1>4. DueWithinPrice'
  BY <1>1, <1>3 DEF Moves, DueWithinPrice
<1>5. Fits'
  BY <1>1, <1>2, <1>3 DEF Moves, Fits
<1>6. Locks' /\ SeenIsDue'
  BY <1>1, <1>2, <1>3 DEF Moves, Locks, SeenIsDue
<1> QED BY <1>4, <1>5, <1>6 DEF Moves

LEMMA MovesChangeDue ==
  ASSUME Shape, Moves, NEW i \in Invoice, NEW d \in Int, ChangeDue(i, d), StaysWithin(i, d)
  PROVE  Moves'
<1>1. /\ call' = call /\ due' = [due EXCEPT ![i] = @ + d]
      /\ \A h \in Handler : call[h].moved[i] = 0
      /\ overtaken \subseteq overtaken'
      /\ \A h \in Handler : call[h].at = "shifting" /\ i \in call[h].todo => i \in overtaken'
  BY DEF ChangeDue
<1>2. /\ due'[i] = due[i] + d /\ due'[i] \in Int
      /\ \A j \in Invoice : j # i => due'[j] = due[j]
  BY <1>1 DEF Shape, TypeOK
<1>3. i \notin overtaken => due'[i] \in 0 .. Price[i]
  BY <1>2 DEF Moves, DueWithinPrice, StaysWithin
<1>4. DueWithinPrice'
  BY <1>1, <1>2, <1>3 DEF Moves, DueWithinPrice
<1>5. Fits'
  BY <1>1, <1>2, <1>3 DEF Moves, Fits
<1>6. Locks' /\ SeenIsDue'
  BY <1>1, <1>2 DEF Moves, Locks, SeenIsDue
<1> QED BY <1>4, <1>5, <1>6 DEF Moves

LEMMA MovesAllocate ==
  ASSUME Shape, Moves, NEW h \in Handler, NEW i \in Invoice, Allocate(h, i)
  PROVE  Moves'
<1> DEFINE n == Least(call[h].rest, call[h].seen[i])
<1>1. /\ call[h].at = "allocating" /\ i \in call[h].todo /\ UNCHANGED <<due, overtaken>>
      /\ Pass(h, i) \/ (due[i] >= n /\ Unlocked(h, i) /\ Move(h, i, -1, n))
  BY DEF Allocate, IsNext, rows, history
<1>2. CASE Pass(h, i)
  BY <1>1, <1>2, PassIs, MovesOfCall
<1>3. CASE due[i] >= n /\ Unlocked(h, i) /\ Move(h, i, -1, n)
  <2>1. n \in Nat /\ n <= call[h].rest
    BY <1>1, CallIs DEF Least, Shaped, Calls
  <2> HIDE DEF n
  <2>2. /\ call'[h] \in Calls /\ Become(h, call'[h]) /\ call'[h].at = call[h].at
        /\ call'[h].moved = [call[h].moved EXCEPT ![i] = (-1) * n]
    BY <1>3, <2>1, MoveIs
  <2>3. \A j \in Invoice : call'[h].moved[j] = IF j = i THEN (-1) * n ELSE call[h].moved[j]
    BY <2>2, CallIs DEF Calls
  <2>4. i \notin overtaken => due[i] + call'[h].moved[i] \in 0 .. Price[i]
    BY <1>3, <2>1, <2>3, PriceAssumption DEF Moves, DueWithinPrice, Shape, TypeOK
  <2> QED BY <1>1, <1>3, <2>2, <2>3, <2>4, MovesOfCall
<1> QED BY <1>1, <1>2, <1>3

LEMMA MovesShift ==
  ASSUME Shape, Moves, NEW h \in Handler, NEW i \in Invoice, Shift(h, i)
  PROVE  Moves'
<1> DEFINE n == ToMove(h, i)
           d == IF call[h].kind = "bounce" THEN 1 ELSE -1
<1>1. /\ call[h].at = "shifting" /\ i \in call[h].todo /\ UNCHANGED <<due, overtaken>>
      /\ Pass(h, i) \/ (Unlocked(h, i) /\ Move(h, i, d, n))
  BY DEF Shift, rows, history
<1>2. CASE Pass(h, i)
  BY <1>1, <1>2, PassIs, MovesOfCall DEF Moves, SeenIsDue
<1>3. CASE Unlocked(h, i) /\ Move(h, i, d, n)
  <2>1. n \in Nat /\ n <= call[h].rest /\ n <= Room(h, i) /\ d \in {1, -1}
    BY <1>1, ToMoveIs DEF Working
  <2>2. i \notin overtaken => due[i] + d * n \in 0 .. Price[i]
    <3>1. i \notin overtaken => call[h].seen[i] = due[i] /\ due[i] \in 0 .. Price[i]
      BY <1>1 DEF Moves, SeenIsDue, DueWithinPrice
    <3>2. due[i] \in Int /\ Price[i] \in Int
      BY PriceAssumption DEF Shape, TypeOK
    <3> HIDE DEF n
    <3>3. CASE call[h].kind = "bounce"
      BY <2>1, <3>1, <3>2, <3>3 DEF Room, AtLeastZero
    <3>4. CASE call[h].kind # "bounce"
      BY <2>1, <3>1, <3>2, <3>4 DEF Room, AtLeastZero
    <3> QED BY <3>3, <3>4
  <2> HIDE DEF n, d
  <2>3. /\ call'[h] \in Calls /\ Become(h, call'[h]) /\ call'[h].at = call[h].at
        /\ call'[h].seen = call[h].seen /\ call'[h].todo = call[h].todo \ {i}
        /\ call'[h].moved = [call[h].moved EXCEPT ![i] = d * n]
    BY <1>3, <2>1, MoveIs
  <2>4. \A j \in Invoice : call'[h].moved[j] = IF j = i THEN d * n ELSE call[h].moved[j]
    BY <2>3, CallIs DEF Calls
  <2>5. \A j \in call'[h].todo \ overtaken : call'[h].seen[j] = due[j]
    BY <1>1, <2>3 DEF Moves, SeenIsDue
  <2>6. \A j \in Invoice : \/ call'[h].moved[j] = call[h].moved[j]
                            \/ /\ Unlocked(h, j)
                               /\ j \notin overtaken =>
                                    due[j] + call'[h].moved[j] \in 0 .. Price[j]
    BY <1>3, <2>2, <2>4
  <2> QED BY <1>1, <2>3, <2>5, <2>6, MovesOfCall
<1> QED BY <1>1, <1>2, <1>3

(* A commit: what the transaction moved is now due.                        *)
LEMMA MovesOfSettle ==
  ASSUME Shape, Moves, NEW h \in Handler, Settle(h)
  PROVE  Moves'
<1> DEFINE m == call[h].moved
<1>1. /\ Become(h, Idle) /\ due' = [i \in Invoice |-> due[i] + m[i]]
      /\ overtaken \subseteq overtaken'
      /\ \A g \in Handler, i \in Invoice :
           g # h /\ m[i] # 0 /\ call[g].at = "shifting" /\ i \in call[g].todo => i \in overtaken'
  BY DEF Settle, Overtakes
<1>2. call'[h] = Idle /\ \A g \in Handler : g # h => call'[g] = call[g]
  BY <1>1, BecomeIs DEF Shape, TypeOK
<1>3. m \in [Invoice -> Int] /\ due \in [Invoice -> Int]
  BY CallIs DEF Calls
<1>4. \A i \in Invoice : i \notin overtaken => due[i] + m[i] \in 0 .. Price[i]
  BY DEF Moves, Fits
<1>5. \A g \in Handler, i \in Invoice : g # h => m[i] = 0 \/ call[g].moved[i] = 0
  BY DEF Moves, Locks
<1> HIDE DEF m
<1>6. \A i \in Invoice : due'[i] = due[i] + m[i] /\ due'[i] \in Int
  BY <1>1, <1>3
<1>7. DueWithinPrice'
  BY <1>1, <1>4, <1>6 DEF DueWithinPrice
<1>8. Locks'
  BY <1>2, IdleIs DEF Moves, Locks
<1>9. Fits'
  <2> SUFFICES ASSUME NEW i \in Invoice, i \notin overtaken', NEW g \in Handler
               PROVE  due'[i] + call'[g].moved[i] \in 0 .. Price[i]
    BY DEF Fits
  <2>1. due'[i] \in 0 .. Price[i] /\ due'[i] \in Int
    BY <1>6, <1>7 DEF DueWithinPrice
  <2>2. CASE call'[g].moved[i] = 0
    BY <2>1, <2>2
  <2>3. CASE g # h /\ m[i] = 0
    <3>1. due[i] + call[g].moved[i] \in 0 .. Price[i]
      BY <1>1 DEF Moves, Fits
    <3>2. due'[i] = due[i]
      BY <1>3, <1>6, <2>3
    <3> QED BY <1>2, <2>3, <3>1, <3>2
  <2> QED BY <1>2, <1>5, <2>2, <2>3, IdleIs
<1>10. SeenIsDue'
  <2> SUFFICES ASSUME NEW g \in Handler, call'[g].at = "shifting",
                      NEW i \in call'[g].todo, i \notin overtaken'
               PROVE  call'[g].seen[i] = due'[i]
    BY DEF SeenIsDue
  <2>1. g # h /\ call'[g] = call[g]
    BY <1>2, IdleIs
  <2>2. i \in Invoice
    BY <2>1, CallIs DEF Calls
  <2>3. m[i] = 0 /\ call[g].seen[i] = due[i]
    BY <1>1, <2>1, <2>2 DEF Moves, SeenIsDue
  <2> QED BY <1>3, <1>6, <2>1, <2>2, <2>3
<1> QED BY <1>7, <1>8, <1>9, <1>10 DEF Moves

LEMMA MovesStep ==
  ASSUME Shape, Moves, Next
  PROVE  Moves'
<1>1. ASSUME NEW i \in Invoice, NEW n \in Nat, Reverse(i, n) \/ Recompose(i, n)
      PROVE  Moves'
  <2>1. \E d \in Int : ChangeDue(i, d) /\ StaysWithin(i, d)
    BY <1>1, DebtChanges
  <2> QED BY <2>1, MovesChangeDue
<1>2. ASSUME NEW h \in Handler, NEW base \in Nat, NEW charge \in Nat,
             NEW c \in Cheque \cup {NoCheque}, NEW free \in BOOLEAN,
             AskReceipt(h, base, charge, c, free)
      PROVE  Moves'
  <2>1. UNCHANGED <<due, overtaken>>
    BY <1>2 DEF AskReceipt, rows
  <2> QED BY <1>2, <2>1, AskReceiptIs, MovesOfCall
<1>3. ASSUME NEW h \in Handler, NEW kind \in DOMAIN Accepted, NEW c \in Cheque, Load(h, kind, c)
      PROVE  Moves'
  <2>1. UNCHANGED <<due, overtaken>>
    BY <1>3 DEF Load, rows
  <2> QED BY <1>3, <2>1, LoadIs, MovesOfCall
<1>4. ASSUME NEW h \in Handler, NEW amount \in Nat, NEW free \in BOOLEAN,
             LockCustomer(h, amount, free)
      PROVE  Moves'
  <2>1. UNCHANGED <<due, overtaken>>
    BY <1>4 DEF LockCustomer, rows
  <2> QED BY <1>4, <2>1, LockCustomerIs, MovesOfCall
<1>5. ASSUME NEW h \in Handler, ReadDebts(h) \/ Accept(h) \/ ReadRooms(h)
      PROVE  Moves'
  <2>1. UNCHANGED <<due, overtaken>>
    BY <1>5 DEF ReadDebts, Accept, ReadRooms, rows, history
  <2>2. CASE ReadDebts(h)
    BY <2>1, <2>2, ReadDebtsIs, MovesOfCall
  <2>3. CASE Accept(h)
    BY <2>1, <2>3, AcceptIs, MovesOfCall
  <2>4. CASE ReadRooms(h)
    BY <2>1, <2>4, ReadRoomsIs, MovesOfCall
  <2> QED BY <1>5, <2>2, <2>3, <2>4
<1>6. ASSUME NEW h \in Handler, PayOut(h) \/ Rollback(h)
      PROVE  Moves'
  <2>1. UNCHANGED <<due, overtaken>> /\ Become(h, Idle)
    BY <1>6 DEF PayOut, Rollback, rows
  <2>2. call'[h] = Idle
    BY <2>1, OverIs
  <2> QED BY <2>1, <2>2, IdleIs, MovesOfCall
<1>7. ASSUME NEW h \in Handler,
             Receive(h) \/ Deposit(h) \/ Bounce(h) \/ Cash(h) \/ CashBounced(h)
      PROVE  Moves'
  <2>1. Settle(h)
    BY <1>7 DEF Receive, Deposit, Bounce, Cash, CashBounced, Stamp
  <2> QED BY <2>1, MovesOfSettle
<1> QED
  BY <1>1, <1>2, <1>3, <1>4, <1>5, <1>6, <1>7, Steps, MovesSell, MovesAllocate, MovesShift

(* No invoice is paid twice or owed beyond its price, for any number of    *)
(* receipts, cheque calls, reversals and new splits at a time.             *)
THEOREM DueStaysWithinPrice == Spec => []DueWithinPrice
<1>1. Init => Shape /\ Moves
  BY ShapeInit, MovesInit
<1>2. Shape /\ Moves /\ [Next]_vars => (Shape /\ Moves)'
  <2> SUFFICES ASSUME Shape, Moves, [Next]_vars PROVE (Shape /\ Moves)'
    OBVIOUS
  <2>1. CASE Next
    BY <2>1, ShapeStep, MovesStep
  <2>2. CASE UNCHANGED vars
    BY <2>2 DEF Shape, TypeOK, Shaped, Receiving, Working, Paying, Moves, DueWithinPrice,
                Locks, Fits, SeenIsDue, vars, rows, history
  <2> QED BY <2>1, <2>2
<1>3. Moves => DueWithinPrice
  BY DEF Moves
<1> QED BY <1>1, <1>2, <1>3, PTL DEF Spec

-----------------------------------------------------------------------------
(* The ledger and the vouchers.                                            *)

LEMMA KeysInit == Init => Keys
BY IdleIs DEF Init, Keys, Keyed, HasKey, Working, Known, Brings, Receiving, LedgerReconciles, NotYet

(* A step of one call that commits nothing.                                *)
LEMMA KeysOfCall ==
  ASSUME Shape, Keys, NEW h \in Handler, call'[h] \in Calls, Become(h, call'[h]),
         UNCHANGED <<rows, clashed>>,
         Working(h)' /\ call'[h].cheque \notin clashed =>
           call'[h].status = cheque[call'[h].cheque].status,
         \A c \in Cheque : Brings(h, c)' => /\ cheque[c].status = "NONE"
                                           /\ \A g \in Handler \ {h} : ~ Brings(g, c),
         Receiving(h)' /\ call'[h].cheque = NoCheque => call'[h].charge = 0
  PROVE  Keys'
<1>1. \A g \in Handler : g # h => call'[g] = call[g]
  BY BecomeIs DEF Shape, TypeOK
<1>2. UNCHANGED <<cheque, posted, ledger, book, clashed>>
  BY DEF rows
<1>3. \A c \in Cheque \ clashed' : Keyed(c)'
  BY <1>2 DEF Keys, Keyed, HasKey
<1>4. \A g \in Handler : Working(g)' /\ call'[g].cheque \notin clashed' => Known(g)'
  BY <1>1, <1>2 DEF Keys, Working, Known
<1>5. \A g \in Handler : g # h => \A c \in Cheque : Brings(g, c)' <=> Brings(g, c)
  BY <1>1 DEF Brings, Receiving
<1>6. /\ \A g \in Handler, c \in Cheque : Brings(g, c)' => cheque'[c].status = "NONE"
      /\ \A f, g \in Handler, c \in Cheque : Brings(f, c)' /\ Brings(g, c)' => f = g
  BY <1>2, <1>5 DEF Keys
<1>7. \A g \in Handler : Receiving(g)' /\ call'[g].cheque = NoCheque => call'[g].charge = 0
  BY <1>1 DEF Keys, Receiving
<1>8. LedgerReconciles'
  BY <1>2 DEF Keys, LedgerReconciles
<1> QED BY <1>3, <1>4, <1>6, <1>7, <1>8 DEF Keys

(* A step after which the same calls are being served, or fewer, and the   *)
(* cheques nobody works on may have come.                                  *)
LEMMA KeysOfDocument ==
  ASSUME Shape, Keys, UNCHANGED <<posted, clashed>>,
         \A h \in Handler : call'[h] = call[h] \/ call'[h] = Idle,
         \A c \in Cheque : \/ cheque'[c] = cheque[c]
                          \/ /\ cheque[c].status = "NONE" /\ cheque'[c].status = "IN_HAND"
                             /\ \A h \in Handler : Brings(h, c) => call'[h] = Idle,
         LedgerReconciles'
  PROVE  Keys'
<1>1. \A c \in Cheque \ clashed' : Keyed(c)'
  BY DEF Keys, Keyed, HasKey
<1>2. ASSUME NEW h \in Handler, Working(h)'
      PROVE  /\ call'[h] = call[h] /\ Working(h) /\ call[h].cheque \in Cheque
             /\ cheque'[call[h].cheque] = cheque[call[h].cheque]
  <2>1. call'[h] = call[h] /\ Working(h)
    BY <1>2, IdleIs DEF Working
  <2>2. call[h].cheque \in Cheque /\ cheque[call[h].cheque].status # "NONE"
    BY <2>1, CallIs DEF Shaped
  <2> QED BY <2>1, <2>2
<1>3. \A h \in Handler : Working(h)' /\ call'[h].cheque \notin clashed' => Known(h)'
  BY <1>2 DEF Keys, Known
<1>4. \A h \in Handler, c \in Cheque :
        Brings(h, c)' => Brings(h, c) /\ call'[h] = call[h] /\ call'[h] # Idle
  BY IdleIs DEF Brings, Receiving
<1>5. \A h \in Handler, c \in Cheque : Brings(h, c)' => cheque'[c].status = "NONE"
  BY <1>4 DEF Keys
<1>6. \A h, g \in Handler, c \in Cheque : Brings(h, c)' /\ Brings(g, c)' => h = g
  BY <1>4 DEF Keys
<1>7. \A h \in Handler : Receiving(h)' /\ call'[h].cheque = NoCheque => call'[h].charge = 0
  BY IdleIs DEF Keys, Receiving
<1> QED BY <1>1, <1>3, <1>5, <1>6, <1>7 DEF Keys

(* The ledger and the vouchers move by the same amount.                    *)
LEMMA Reconciled ==
  ASSUME Shape, LedgerReconciles, clashed' = {} => clashed = {},
         NEW n \in Int, ledger' = ledger + n, book'.CUSTOMERS = book.CUSTOMERS + n
  PROVE  LedgerReconciles'
<1>1. ledger \in Int /\ book.CUSTOMERS \in Int
  BY DEF Shape, TypeOK
<1> QED BY <1>1 DEF LedgerReconciles

LEMMA KeysSell ==
  ASSUME Shape, Keys, NEW i \in Invoice, NEW cash \in Nat, NEW byCheque \in Nat,
         NEW c \in Cheque \cup {NoCheque}, Sell(i, cash, c, byCheque)
  PROVE  Keys'
<1>1. PICK n \in Int : n = due'[i]
  <2>1. PICK n \in Int : n = Price[i] - cash - byCheque
    BY PriceAssumption
  <2> QED BY <2>1 DEF Sell, Shape, TypeOK
<1>2. LedgerReconciles'
  <2>1. /\ Book(n, byCheque) /\ ledger' = ledger + n /\ clashed' = clashed
        /\ book \in [CUSTOMERS : Int, CHEQUES : Int]
    BY <1>1 DEF Sell, Shape, TypeOK
  <2>2. book'.CUSTOMERS = book.CUSTOMERS + n
    BY <2>1, BookIs
  <2> QED BY <2>1, <2>2, Reconciled DEF Keys
<1>3. UNCHANGED <<call, posted, clashed>>
  BY DEF Sell
<1>4. \/ UNCHANGED cheque
      \/ /\ New(c) /\ cheque' = [cheque EXCEPT ![c] =
                NewCheque(byCheque, 0, TRUE, [Zero EXCEPT ![i] = byCheque])]
  BY DEF Sell
<1>5. \A d \in Cheque : \/ cheque'[d] = cheque[d]
                        \/ /\ cheque[d].status = "NONE" /\ cheque'[d].status = "IN_HAND"
                           /\ \A h \in Handler : ~ Brings(h, d)
  BY <1>4 DEF New, NewCheque, Brings, Shape, TypeOK
<1> QED BY <1>2, <1>3, <1>5, KeysOfDocument

LEMMA KeysChangeDue ==
  ASSUME Shape, Keys, NEW i \in Invoice, NEW d \in Int, ChangeDue(i, d)
  PROVE  Keys'
<1>1. UNCHANGED <<call, cheque, posted, clashed>> /\ Book(d, 0) /\ ledger' = ledger + d
  BY DEF ChangeDue
<1>2. LedgerReconciles'
  BY <1>1, BookIs, Reconciled DEF Keys, Shape, TypeOK
<1> QED BY <1>1, <1>2, KeysOfDocument

LEMMA KeysReceive ==
  ASSUME Shape, Keys, NEW h \in Handler, Receive(h)
  PROVE  Keys'
<1> DEFINE k == call[h]
<1>1. /\ k \in Calls /\ Receiving(h) /\ Become(h, Idle) /\ UNCHANGED <<posted, clashed>>
      /\ ledger' = ledger + k.charge - k.amount
  BY CallIs DEF Receive, Receiving, Settle
<1>2. call'[h] = Idle /\ \A g \in Handler : g # h => call'[g] = call[g]
  BY <1>1, BecomeIs DEF Shape, TypeOK
<1>3. PICK n \in Int : n = k.charge - k.amount /\ (k.charge = 0 => n = -k.amount)
  BY <1>1 DEF Calls
<1>4. Book(n, 0) \/ Book(n, k.amount)
  BY <1>1, <1>3 DEF Receive, Keys
<1>5. LedgerReconciles'
  <2>1. ledger' = ledger + n
    BY <1>1, <1>3 DEF Shape, TypeOK, Calls
  <2>2. book'.CUSTOMERS = book.CUSTOMERS + n
    BY <1>1, <1>4, BookIs DEF Shape, TypeOK, Calls
  <2> QED BY <1>1, <2>1, <2>2, Reconciled DEF Keys
<1>6. \/ UNCHANGED cheque
      \/ k.cheque \in Cheque /\ cheque' = [cheque EXCEPT ![k.cheque] =
           NewCheque(k.amount, k.charge, FALSE, [i \in Invoice |-> -k.moved[i]])]
  BY <1>1 DEF Receive, Calls
<1>7. k.cheque \in Cheque => Brings(h, k.cheque)
  BY <1>1 DEF Brings
<1> HIDE DEF k
<1>8. \A d \in Cheque : \/ cheque'[d] = cheque[d]
                        \/ /\ cheque[d].status = "NONE" /\ cheque'[d].status = "IN_HAND"
                           /\ \A g \in Handler : Brings(g, d) => call'[g] = Idle
  BY <1>2, <1>6, <1>7 DEF NewCheque, Keys, Shape, TypeOK
<1> QED BY <1>1, <1>2, <1>5, <1>8, KeysOfDocument

LEMMA KeysPayOut ==
  ASSUME Shape, Keys, NEW h \in Handler, PayOut(h)
  PROVE  Keys'
<1>1. /\ Become(h, Idle) /\ UNCHANGED <<cheque, posted, clashed>> /\ call[h].amount \in Nat
      /\ Book(call[h].amount, 0) /\ ledger' = ledger + call[h].amount
  BY CallIs DEF PayOut, Calls
<1>2. LedgerReconciles'
  BY <1>1, BookIs, Reconciled DEF Keys, Shape, TypeOK
<1>3. \A g \in Handler : call'[g] = call[g] \/ call'[g] = Idle
  BY <1>1, BecomeIs DEF Shape, TypeOK
<1> QED BY <1>1, <1>2, <1>3, KeysOfDocument

(* A cheque's call commits: the others that work on the cheque no longer   *)
(* know its status, so calls have clashed on it.                           *)
LEMMA KeysOfStamp ==
  ASSUME Shape, Keys, NEW h \in Handler, NEW kind \in DOMAIN Accepted, NEW status \in Statuses,
         NEW c \in Cheque, c = call[h].cheque, Stamp(h, kind, status),
         \A d \in Cheque, key \in {"cash", "bounce"} :
           d # c => (HasKey(key, d)' <=> HasKey(key, d)),
         c \notin clashed' => Keyed(c)',
         LedgerReconciles'
  PROVE  Keys'
<1>1. /\ cheque[c].status # "NONE"
      /\ Become(h, Idle) /\ cheque' = [cheque EXCEPT ![c].status = status] /\ Clashes(h, c)
  BY CallIs DEF Stamp, Shaped, Working, Settle
<1>2. call'[h] = Idle /\ \A g \in Handler : g # h => call'[g] = call[g]
  BY <1>1, BecomeIs DEF Shape, TypeOK
<1>3. /\ cheque'[c].status = status
      /\ \A d \in Cheque : d # c => cheque'[d] = cheque[d]
  BY <1>1, StampedIs DEF Shape, TypeOK
<1>4. /\ clashed \subseteq clashed'
      /\ \A g \in Handler : g # h /\ Working(g) /\ call[g].cheque = c => c \in clashed'
  <2>1. \A g \in Handler : Working(g) => call[g].kind # "receipt"
    BY CallIs DEF Shaped, Accepted
  <2> QED BY <1>1, <2>1 DEF Clashes
<1>5. \A d \in Cheque : d # c /\ d \notin clashed' => Keyed(d)'
  BY <1>3, <1>4 DEF Keys, Keyed
<1>6. ASSUME NEW g \in Handler, Working(g)', call'[g].cheque \notin clashed'
      PROVE  Known(g)'
  <2>1. g # h /\ call'[g] = call[g] /\ Working(g)
    BY <1>2, <1>6, IdleIs DEF Working
  <2>2. call[g].cheque # c /\ call[g].cheque \in Cheque /\ call[g].cheque \notin clashed
    BY <1>4, <1>6, <2>1, CallIs DEF Shaped
  <2> QED BY <1>3, <2>1, <2>2 DEF Keys, Known
<1>7. \A g \in Handler, d \in Cheque : Brings(g, d)' => Brings(g, d) /\ d # c
  BY <1>1, <1>2, IdleIs DEF Brings, Receiving, Keys
<1>8. \A g \in Handler : Receiving(g)' /\ call'[g].cheque = NoCheque => call'[g].charge = 0
  BY <1>2, IdleIs DEF Keys, Receiving
<1>9. \A d \in Cheque \ clashed' : Keyed(d)'
  BY <1>5
<1>10. \A g \in Handler, d \in Cheque : Brings(g, d)' => cheque'[d].status = "NONE"
  BY <1>3, <1>7 DEF Keys
<1>11. \A f, g \in Handler, d \in Cheque : Brings(f, d)' /\ Brings(g, d)' => f = g
  BY <1>7 DEF Keys
<1> QED BY <1>6, <1>8, <1>9, <1>10, <1>11 DEF Keys

(* What a posting does to the vouchers the ledger is compared with.        *)
LEMMA PostedKeys ==
  ASSUME Shape, NEW kind \in {"deposit", "cash", "bounce"}, NEW c \in Cheque,
         NEW account,
         posted' = posted \/ posted' = posted \cup {<<<<kind, c>>, account>>}
  PROVE  \A d \in Cheque, key \in {"cash", "bounce"} :
           key # kind \/ d # c => (HasKey(key, d)' <=> HasKey(key, d))
BY DEF HasKey

LEMMA PostedIs ==
  ASSUME Shape, NEW kind \in {"deposit", "cash", "bounce"}, NEW c \in Cheque,
         NEW account \in {"CHEQUES", "BANK"}, NEW x \in Int, NEW y \in Int,
         Post(<<kind, c>>, account, x, y), x = 0 \/ ~ HasKey(kind, c)
  PROVE  /\ posted' = posted \/ posted' = posted \cup {<<<<kind, c>>, account>>}
         /\ book'.CUSTOMERS = book.CUSTOMERS + x
<1>1. book.CUSTOMERS \in Int
  BY DEF Shape, TypeOK
<1>2. CASE HasKey(kind, c)
  <2>1. UNCHANGED <<book, posted>>
    BY <1>2, PostIs
  <2> QED BY <1>1, <1>2, <2>1
<1>3. CASE ~ HasKey(kind, c)
  BY <1>3, PostIs
<1> QED BY <1>2, <1>3

LEMMA KeysDeposit ==
  ASSUME Shape, Keys, NEW h \in Handler, Deposit(h)
  PROVE  Keys'
<1>0. PICK c : c = call[h].cheque
  OBVIOUS
<1>1. /\ Stamp(h, "deposit", "DEPOSITED") /\ ledger' = ledger /\ c \in Cheque
      /\ Working(h) /\ call[h].status = "IN_HAND" /\ call[h].amount \in Nat
  BY <1>0, CallIs DEF Deposit, Stamp, Shaped, Working, Accepted, Calls
<1>2. PICK n \in Int : Post(<<"deposit", c>>, "CHEQUES", 0, n)
  <2>1. -call[h].amount \in Int
    BY <1>1
  <2> QED BY <1>0, <2>1 DEF Deposit
<1>3. /\ posted' = posted \/ posted' = posted \cup {<<<<"deposit", c>>, "CHEQUES">>}
      /\ book'.CUSTOMERS = book.CUSTOMERS + 0
  BY <1>1, <1>2, PostedIs
<1>4. cheque'[c].status = "DEPOSITED" /\ clashed \subseteq clashed'
  BY <1>0, <1>1, StampedIs DEF Stamp, Clashes, Shape, TypeOK, Statuses
<1>5. \A d \in Cheque, key \in {"cash", "bounce"} : HasKey(key, d)' <=> HasKey(key, d)
  BY <1>1, <1>3, PostedKeys
<1>6. c \notin clashed' => Keyed(c)'
  <2>1. c \notin clashed => Keyed(c) /\ cheque[c].status = "IN_HAND"
    BY <1>0, <1>1 DEF Keys, Known
  <2> QED BY <1>1, <1>4, <1>5, <2>1 DEF Keyed
<1>7. LedgerReconciles'
  <2>1. ledger' = ledger + 0
    BY <1>1 DEF Shape, TypeOK
  <2> QED BY <1>3, <1>4, <2>1, Reconciled DEF Keys
<1> QED BY <1>0, <1>1, <1>5, <1>6, <1>7, KeysOfStamp DEF Accepted, Statuses

LEMMA KeysBounce ==
  ASSUME Shape, Keys, NEW h \in Handler, Bounce(h)
  PROVE  Keys'
<1>0. PICK c : c = call[h].cheque
  OBVIOUS
<1> DEFINE n == call[h].amount
           account == IF call[h].status = "DEPOSITED" THEN "BANK" ELSE "CHEQUES"
<1>1. /\ Stamp(h, "bounce", "BOUNCED") /\ ledger' = ledger + n /\ c \in Cheque
      /\ Working(h) /\ call[h].status \in {"IN_HAND", "DEPOSITED"} /\ n \in Nat
  BY <1>0, CallIs DEF Bounce, Stamp, Shaped, Working, Accepted, Calls
<1>2. PICK y \in Int : Post(<<"bounce", c>>, account, n, y)
  <2>1. OnCheques(account, -n) \in Int
    BY <1>1 DEF OnCheques
  <2> QED BY <1>0, <2>1 DEF Bounce
<1>3. account \in {"CHEQUES", "BANK"}
  OBVIOUS
<1>4. cheque'[c].status = "BOUNCED" /\ clashed \subseteq clashed'
  BY <1>0, <1>1, StampedIs DEF Stamp, Clashes, Shape, TypeOK, Statuses
<1>5. c \notin clashed => /\ ~ HasKey("cash", c) /\ ~ HasKey("bounce", c)
  BY <1>0, <1>1 DEF Keys, Known, Keyed
<1> HIDE DEF n, account
<1>6. posted' = posted \/ posted' = posted \cup {<<<<"bounce", c>>, account>>}
  <2>1. CASE HasKey("bounce", c)
    BY <1>2, <2>1 DEF Post, HasKey
  <2>2. CASE ~ HasKey("bounce", c)
    BY <1>2, <2>2 DEF Post, HasKey
  <2> QED BY <2>1, <2>2
<1>7. \A d \in Cheque, key \in {"cash", "bounce"} :
        key = "cash" \/ d # c => (HasKey(key, d)' <=> HasKey(key, d))
  BY <1>1, <1>6, PostedKeys
<1>8. c \notin clashed' => Keyed(c)'
  BY <1>1, <1>4, <1>5, <1>7 DEF Keyed
<1>9. LedgerReconciles'
  <2>1. CASE c \in clashed
    BY <1>4, <2>1 DEF LedgerReconciles
  <2>2. CASE c \notin clashed
    <3>1. book'.CUSTOMERS = book.CUSTOMERS + n
      BY <1>1, <1>2, <1>3, <1>5, <2>2, PostedIs
    <3> QED BY <1>1, <1>4, <3>1, Reconciled DEF Keys
  <2> QED BY <2>1, <2>2
<1>10. \A d \in Cheque, key \in {"cash", "bounce"} :
         d # c => (HasKey(key, d)' <=> HasKey(key, d))
  BY <1>7
<1> QED BY <1>0, <1>1, <1>8, <1>9, <1>10, KeysOfStamp DEF Accepted, Statuses

LEMMA KeysCash ==
  ASSUME Shape, Keys, NEW h \in Handler, Cash(h)
  PROVE  Keys'
<1>0. PICK c : c = call[h].cheque
  OBVIOUS
<1>1. /\ Stamp(h, "cash", "CASHED") /\ ledger' = ledger /\ c \in Cheque
      /\ Working(h) /\ call[h].amount \in Nat
  BY <1>0, CallIs DEF Cash, Stamp, Shaped, Working, Calls
<1>2. UNCHANGED <<book, posted>> \/ \E n \in Int : Post(<<"cash", c>>, "CHEQUES", 0, n)
  <2>1. -call[h].amount \in Int
    BY <1>1
  <2> QED BY <1>0, <2>1 DEF Cash
<1>3. cheque'[c].status = "CASHED" /\ clashed \subseteq clashed'
  BY <1>0, <1>1, StampedIs DEF Stamp, Clashes, Shape, TypeOK, Statuses
<1>4. /\ posted' = posted \/ posted' = posted \cup {<<<<"cash", c>>, "CHEQUES">>}
      /\ book'.CUSTOMERS = book.CUSTOMERS + 0
  <2>1. CASE UNCHANGED <<book, posted>>
    BY <2>1 DEF Shape, TypeOK
  <2>2. ASSUME NEW n \in Int, Post(<<"cash", c>>, "CHEQUES", 0, n)
        PROVE  <1>4!1 /\ <1>4!2
    BY <1>1, <2>2, PostedIs
  <2> QED BY <1>2, <2>1, <2>2
<1>5. \A d \in Cheque, key \in {"cash", "bounce"} :
        d # c => (HasKey(key, d)' <=> HasKey(key, d))
  BY <1>1, <1>4, PostedKeys
<1>6. Keyed(c)'
  BY <1>3 DEF Keyed
<1>7. LedgerReconciles'
  <2>1. ledger' = ledger + 0
    BY <1>1 DEF Shape, TypeOK
  <2> QED BY <1>3, <1>4, <2>1, Reconciled DEF Keys
<1> QED BY <1>0, <1>1, <1>5, <1>6, <1>7, KeysOfStamp DEF Accepted, Statuses

LEMMA KeysCashBounced ==
  ASSUME Shape, Keys, NEW h \in Handler, CashBounced(h)
  PROVE  Keys'
<1>0. PICK c : c = call[h].cheque
  OBVIOUS
<1>1. /\ Stamp(h, "cash", "CASHED") /\ ledger' = ledger - call[h].amount /\ c \in Cheque
      /\ Working(h) /\ call[h].amount \in Nat /\ call[h].status = "BOUNCED"
  BY <1>0, CallIs DEF CashBounced, Stamp, Shaped, Working, Calls
<1>2. PICK n \in Int : n = -call[h].amount /\ ledger' = ledger + n
  BY <1>1 DEF Shape, TypeOK
<1>3. PICK v \in posted : Post(<<"cash", c>>, v[2], n, OnCheques(v[2], call[h].amount))
  BY <1>0, <1>2 DEF CashBounced
<1>4. PICK account \in {"CHEQUES", "BANK"}, y \in Int : Post(<<"cash", c>>, account, n, y)
  <2>1. v[2] \in {"CHEQUES", "BANK"} /\ OnCheques(v[2], call[h].amount) \in Int
    BY <1>1 DEF OnCheques, Shape, TypeOK
  <2> QED BY <1>3, <2>1
<1>5. cheque'[c].status = "CASHED" /\ clashed \subseteq clashed'
  BY <1>0, <1>1, StampedIs DEF Stamp, Clashes, Shape, TypeOK, Statuses
<1>6. c \notin clashed => ~ HasKey("cash", c)
  BY <1>0, <1>1 DEF Keys, Known, Keyed
<1>7. posted' = posted \/ posted' = posted \cup {<<<<"cash", c>>, account>>}
  <2>1. CASE HasKey("cash", c)
    BY <1>1, <1>4, <2>1, PostIs
  <2>2. CASE ~ HasKey("cash", c)
    BY <1>1, <1>4, <2>2, PostIs
  <2> QED BY <2>1, <2>2
<1>8. \A d \in Cheque, key \in {"cash", "bounce"} :
        d # c => (HasKey(key, d)' <=> HasKey(key, d))
  BY <1>1, <1>7, PostedKeys
<1>9. Keyed(c)'
  BY <1>5 DEF Keyed
<1>10. LedgerReconciles'
  <2>1. CASE c \in clashed
    BY <1>5, <2>1 DEF LedgerReconciles
  <2>2. CASE c \notin clashed
    <3>1. book'.CUSTOMERS = book.CUSTOMERS + n
      BY <1>1, <1>4, <1>6, <2>2, PostedIs
    <3> QED BY <1>2, <1>5, <3>1, Reconciled DEF Keys
  <2> QED BY <2>1, <2>2
<1> QED BY <1>0, <1>1, <1>8, <1>9, <1>10, KeysOfStamp DEF Accepted, Statuses

(* A visit to an invoice keeps what the call is about.                     *)
LEMMA AllocateIs ==
  ASSUME Shape, NEW h \in Handler, NEW i \in Invoice, Allocate(h, i)
  PROVE  /\ call'[h] \in Calls /\ Become(h, call'[h]) /\ call'[h].at = call[h].at
         /\ call'[h].cheque = call[h].cheque /\ call'[h].charge = call[h].charge
         /\ call'[h].status = call[h].status
<1>1. Least(call[h].rest, call[h].seen[i]) \in Nat /\ Least(call[h].rest, call[h].seen[i]) <= call[h].rest
  BY CallIs DEF Allocate, IsNext, Least, Shaped, Calls
<1>2. CASE Pass(h, i)
  BY <1>2, PassIs
<1>3. CASE Move(h, i, -1, Least(call[h].rest, call[h].seen[i]))
  BY <1>1, <1>3, MoveIs
<1> QED BY <1>2, <1>3 DEF Allocate

LEMMA ShiftIs ==
  ASSUME Shape, NEW h \in Handler, NEW i \in Invoice, Shift(h, i)
  PROVE  /\ call'[h] \in Calls /\ Become(h, call'[h]) /\ call'[h].at = call[h].at
         /\ call'[h].cheque = call[h].cheque /\ call'[h].charge = call[h].charge
         /\ call'[h].status = call[h].status /\ call'[h].amount = call[h].amount
<1>1. ToMove(h, i) \in Nat /\ ToMove(h, i) <= call[h].rest
  BY ToMoveIs DEF Shift, Working
<1>2. CASE Pass(h, i)
  BY <1>2, PassIs
<1>3. CASE Move(h, i, 1, ToMove(h, i))
  BY <1>1, <1>3, MoveIs
<1>4. CASE Move(h, i, -1, ToMove(h, i))
  BY <1>1, <1>4, MoveIs
<1> QED BY <1>2, <1>3, <1>4 DEF Shift

LEMMA KeysStep ==
  ASSUME Shape, Keys, Next
  PROVE  Keys'
<1>1. ASSUME NEW i \in Invoice, NEW n \in Nat, Reverse(i, n) \/ Recompose(i, n)
      PROVE  Keys'
  <2>1. \E d \in Int : ChangeDue(i, d)
    BY <1>1, DebtChanges
  <2> QED BY <2>1, KeysChangeDue
<1>2. ASSUME NEW h \in Handler, NEW base \in Nat, NEW charge \in Nat,
             NEW c \in Cheque \cup {NoCheque}, NEW free \in BOOLEAN,
             AskReceipt(h, base, charge, c, free)
      PROVE  Keys'
  <2>0. UNCHANGED <<rows, clashed>> /\ (New(c) \/ (c = NoCheque /\ charge = 0))
    BY <1>2 DEF AskReceipt
  <2>1. /\ call'[h] \in Calls /\ Become(h, call'[h]) /\ call'[h].cheque = c
        /\ call'[h].charge = charge /\ ~ Working(h)'
    BY <1>2, AskReceiptIs DEF Working
  <2>2. \A d \in Cheque : Brings(h, d)' => /\ cheque[d].status = "NONE"
                                          /\ \A g \in Handler \ {h} : ~ Brings(g, d)
    BY <2>0, <2>1, NoChequeAssumption DEF Brings, New
  <2>3. c = NoCheque => charge = 0
    BY <2>0, NoChequeAssumption DEF New
  <2> QED BY <2>0, <2>1, <2>2, <2>3, KeysOfCall
<1>3. ASSUME NEW h \in Handler, NEW kind \in DOMAIN Accepted, NEW c \in Cheque, Load(h, kind, c)
      PROVE  Keys'
  <2>1. UNCHANGED <<rows, clashed>>
    BY <1>3 DEF Load
  <2>2. /\ call'[h] \in Calls /\ Become(h, call'[h]) /\ ~ Receiving(h)'
        /\ call'[h].status = cheque[call'[h].cheque].status
    BY <1>3, LoadIs DEF Receiving
  <2> QED BY <2>1, <2>2, KeysOfCall DEF Brings
<1>4. ASSUME NEW h \in Handler, NEW amount \in Nat, NEW free \in BOOLEAN,
             LockCustomer(h, amount, free)
      PROVE  Keys'
  <2>1. UNCHANGED <<rows, clashed>>
    BY <1>4 DEF LockCustomer
  <2>2. /\ call'[h] \in Calls /\ Become(h, call'[h]) /\ ~ Receiving(h)' /\ ~ Working(h)'
    BY <1>4, LockCustomerIs DEF Receiving, Working
  <2> QED BY <2>1, <2>2, KeysOfCall DEF Brings
<1>5. ASSUME NEW h \in Handler, call'[h] \in Calls, Become(h, call'[h]),
             UNCHANGED <<rows, clashed>>,
             Receiving(h)' <=> Receiving(h), Working(h)' <=> Working(h),
             call'[h].cheque = call[h].cheque, call'[h].charge = call[h].charge \/ ~ Receiving(h),
             call'[h].status = call[h].status \/ ~ Working(h)
      PROVE  Keys'
  <2>1. Working(h)' /\ call'[h].cheque \notin clashed =>
          call'[h].status = cheque[call'[h].cheque].status
    BY <1>5 DEF Keys, Known
  <2>2. \A c \in Cheque : Brings(h, c)' => /\ cheque[c].status = "NONE"
                                          /\ \A g \in Handler \ {h} : ~ Brings(g, c)
    BY <1>5 DEF Keys, Brings
  <2>3. Receiving(h)' /\ call'[h].cheque = NoCheque => call'[h].charge = 0
    BY <1>5 DEF Keys
  <2> QED BY <1>5, <2>1, <2>2, <2>3, KeysOfCall
<1>6. ASSUME NEW h \in Handler, ReadDebts(h)
      PROVE  Keys'
  <2>1. UNCHANGED <<rows, clashed>>
    BY <1>6 DEF ReadDebts, history
  <2> QED BY <1>5, <1>6, <2>1, ReadDebtsIs DEF Receiving, Working
<1>7. ASSUME NEW h \in Handler, Accept(h)
      PROVE  Keys'
  <2>1. UNCHANGED <<rows, clashed>>
    BY <1>7 DEF Accept, history
  <2> QED BY <1>5, <1>7, <2>1, AcceptIs DEF Receiving, Working
<1>8. ASSUME NEW h \in Handler, ReadRooms(h)
      PROVE  Keys'
  <2>1. UNCHANGED <<rows, clashed>>
    BY <1>8 DEF ReadRooms, history
  <2> QED BY <1>5, <1>8, <2>1, ReadRoomsIs DEF Receiving, Working
<1>9. ASSUME NEW h \in Handler, NEW i \in Invoice, Allocate(h, i) \/ Shift(h, i)
      PROVE  Keys'
  <2>1. UNCHANGED <<rows, clashed>>
    BY <1>9 DEF Allocate, Shift, history
  <2>2. /\ call'[h] \in Calls /\ Become(h, call'[h]) /\ call'[h].at = call[h].at
        /\ call'[h].cheque = call[h].cheque /\ call'[h].charge = call[h].charge
        /\ call'[h].status = call[h].status
    BY <1>9, AllocateIs, ShiftIs
  <2> QED BY <1>5, <2>1, <2>2 DEF Receiving, Working
<1>10. ASSUME NEW h \in Handler, Rollback(h)
       PROVE  Keys'
  <2>1. UNCHANGED <<rows, clashed>> /\ Become(h, Idle)
    BY <1>10 DEF Rollback
  <2>2. call'[h] = Idle /\ ~ Receiving(h)' /\ ~ Working(h)'
    BY <2>1, OverIs, IdleIs DEF Receiving, Working
  <2> QED BY <2>1, <2>2, IdleIs, KeysOfCall DEF Brings
<1> QED
  BY <1>1, <1>2, <1>3, <1>4, <1>6, <1>7, <1>8, <1>9, <1>10, Steps, KeysSell, KeysReceive,
     KeysPayOut, KeysDeposit, KeysBounce, KeysCash, KeysCashBounced

(* The customer's ledger and the vouchers agree, however receipts, sales,  *)
(* payouts and the calls of cheques interleave, as long as no two calls    *)
(* work on one cheque at a time.                                           *)
THEOREM LedgerAndVouchersAgree == Spec => []LedgerReconciles
<1>1. Init => Shape /\ Keys
  BY ShapeInit, KeysInit
<1>2. Shape /\ Keys /\ [Next]_vars => (Shape /\ Keys)'
  <2> SUFFICES ASSUME Shape, Keys, [Next]_vars PROVE (Shape /\ Keys)'
    OBVIOUS
  <2>1. CASE Next
    BY <2>1, ShapeStep, KeysStep
  <2>2. CASE UNCHANGED vars
    <3>1. Shape'
      BY <2>2 DEF Shape, TypeOK, Shaped, Receiving, Working, Paying, vars, rows, history
    <3>2. Keys'
      BY <2>2 DEF Keys, Keyed, HasKey, Working, Known, Brings, Receiving, LedgerReconciles,
                  vars, rows, history
    <3> QED BY <3>1, <3>2
  <2> QED BY <2>1, <2>2
<1>3. Keys => LedgerReconciles
  BY DEF Keys
<1> QED BY <1>1, <1>2, <1>3, PTL DEF Spec

-----------------------------------------------------------------------------
(* Sums over finite sets of cheques.  A sum is taken by a recursive        *)
(* function that picks one element after the other; its laws are proved by *)
(* looking at a smallest subset that would break them.                     *)
Total(table, S) == MapThenSumSet(LAMBDA c : table[c].amount, S)

(* What a sum over the subsets of S is. *)
One(s) == CHOOSE c \in s : TRUE
Sums(table, S, g) ==
  g = [s \in SUBSET S |-> IF s = {} THEN 0 ELSE table[One(s)].amount + g[s \ {One(s)}]]

LEMMA TotalIs ==
  ASSUME NEW table, NEW S
  PROVE  Total(table, S) = (CHOOSE g : Sums(table, S, g))[S]
BY DEF Total, MapThenSumSet, MapThenFoldSet, Sums, One

LEMMA OneIsIn == ASSUME NEW s, s # {} PROVE One(s) \in s
BY DEF One

(* A set of subsets of a finite set has a smallest one. *)
LEMMA SmallestSubset ==
  ASSUME NEW S, IsFiniteSet(S), NEW B, B \subseteq SUBSET S, B # {}
  PROVE  \E s \in B : \A t \in B : ~ (t \subseteq s /\ t # s)
<1>1. IsWellFoundedOn(StrictSubsetOrdering(S), FiniteSubsetsOf(S))
  BY FS_StrictSubsetOrderingWellFounded
<1>2. B \subseteq FiniteSubsetsOf(S)
  BY FS_Subset DEF FiniteSubsetsOf
<1>3. PICK s \in B : \A t \in B : ~ (<<t, s>> \in StrictSubsetOrdering(S))
  BY <1>1, <1>2, WFMin
<1> QED BY <1>3 DEF StrictSubsetOrdering

LEMMA SumsAreOne ==
  ASSUME NEW table, NEW S, IsFiniteSet(S), NEW g, NEW h, Sums(table, S, g), Sums(table, S, h)
  PROVE  g = h
<1> DEFINE B == {s \in SUBSET S : g[s] # h[s]}
<1>1. B # {} => FALSE
  <2> SUFFICES ASSUME B # {} PROVE FALSE
    OBVIOUS
  <2>1. PICK s \in B : \A t \in B : ~ (t \subseteq s /\ t # s)
    <3> HIDE DEF B
    <3>1. B \subseteq SUBSET S
      BY DEF B
    <3> QED BY <3>1, SmallestSubset
  <2>2. CASE s = {}
    BY <2>2 DEF Sums
  <2>3. CASE s # {}
    <3>1. PICK c \in s : c = One(s)
      BY <2>3, OneIsIn
    <3>2. g[s \ {c}] = h[s \ {c}]
      BY <2>1
    <3>3. g[s] = table[c].amount + g[s \ {c}] /\ h[s] = table[c].amount + h[s \ {c}]
      BY <2>3, <3>1 DEF Sums
    <3> QED BY <3>2, <3>3
  <2> QED BY <2>2, <2>3
<1> QED BY <1>1 DEF Sums

LEMMA TotalStep ==
  ASSUME NEW table, NEW S, IsFiniteSet(S), \E g : Sums(table, S, g)
  PROVE  Total(table, S) = IF S = {} THEN 0
                          ELSE table[One(S)].amount + Total(table, S \ {One(S)})
<1>1. PICK g : Sums(table, S, g) /\ Total(table, S) = g[S]
  BY TotalIs
<1>2. CASE S = {}
  BY <1>1, <1>2 DEF Sums
<1>3. CASE S # {}
  <2>1. PICK c \in S : c = One(S)
    BY <1>3, OneIsIn
  <2> DEFINE T == S \ {c}
             h == [s \in SUBSET T |-> g[s]]
  <2>2. IsFiniteSet(T) /\ T \in SUBSET S
    BY FS_Subset
  <2>3. \A s \in SUBSET T : s # {} => One(s) \in s /\ s \ {One(s)} \in SUBSET T
    BY OneIsIn
  <2>4. \A s \in SUBSET T : g[s] = IF s = {} THEN 0 ELSE table[One(s)].amount + g[s \ {One(s)}]
    BY <1>1, <2>2 DEF Sums
  <2>5. Sums(table, T, h)
    <3>1. \A s \in SUBSET T : h[s] = IF s = {} THEN 0 ELSE table[One(s)].amount + h[s \ {One(s)}]
      BY <2>3, <2>4
    <3> QED BY <3>1 DEF Sums
  <2>6. Total(table, T) = h[T]
    <3>1. PICK k : k = (CHOOSE f : Sums(table, T, f)) /\ Sums(table, T, k)
      BY <2>5
    <3>2. k = h
      BY <2>2, <2>5, <3>1, SumsAreOne
    <3> QED BY <3>1, <3>2, TotalIs
  <2>7. g[S] = table[c].amount + g[T]
    BY <1>1, <1>3, <2>1 DEF Sums
  <2> QED BY <1>1, <1>3, <2>1, <2>6, <2>7
<1> QED BY <1>2, <1>3

LEMMA SumsExist ==
  ASSUME NEW table, NEW S, IsFiniteSet(S)
  PROVE  \E g : Sums(table, S, g)
<1> DEFINE B == {s \in SUBSET S : ~ \E g : Sums(table, s, g)}
<1> SUFFICES ASSUME B # {} PROVE FALSE
  OBVIOUS
<1>1. PICK T \in B : \A t \in B : ~ (t \subseteq T /\ t # T)
  <2> HIDE DEF B
  <2>1. B \subseteq SUBSET S
    BY DEF B
  <2> QED BY <2>1, SmallestSubset
<1>2. \A s \in SUBSET T : s # T => \E g : Sums(table, s, g)
  BY <1>1
<1>3. \A s \in SUBSET T : IsFiniteSet(s)
  BY FS_Subset
<1> DEFINE Sum(s) == IF s = {} THEN 0 ELSE table[One(s)].amount + Total(table, s \ {One(s)})
           g == [s \in SUBSET T |-> Sum(s)]
<1>4. \A s \in SUBSET T : s # T => Total(table, s) = Sum(s)
  BY <1>2, <1>3, TotalStep
<1>5. \A s \in SUBSET T : s # {} => One(s) \in s
  BY OneIsIn
<1>6. \A s \in SUBSET T : s # {} => g[s \ {One(s)}] = Total(table, s \ {One(s)})
  <2> SUFFICES ASSUME NEW s \in SUBSET T, s # {}
               PROVE  g[s \ {One(s)}] = Total(table, s \ {One(s)})
    OBVIOUS
  <2>1. PICK t \in SUBSET T : t = s \ {One(s)} /\ t # T
    <3>1. One(s) \in s
      BY <1>5
    <3> HIDE DEF g, Sum
    <3>2. s \ {One(s)} \in SUBSET T /\ s \ {One(s)} # T
      BY <3>1
    <3> QED BY <3>2
  <2>2. Total(table, t) = Sum(t) /\ g[t] = Sum(t)
    BY <1>4, <2>1
  <2> HIDE DEF g, Sum
  <2> QED BY <2>1, <2>2
<1>7. \A s \in SUBSET T : g[s] = IF s = {} THEN 0 ELSE table[One(s)].amount + g[s \ {One(s)}]
  <2>1. \A s \in SUBSET T : g[s] = Sum(s)
    OBVIOUS
  <2> HIDE DEF g
  <2> QED BY <1>6, <2>1
<1>8. Sums(table, T, g)
  <2>1. g = [s \in SUBSET T |-> g[s]]
    OBVIOUS
  <2> HIDE DEF g
  <2> QED BY <1>7, <2>1 DEF Sums
<1> QED BY <1>1, <1>8

(* The sum over a finite set: of nothing, and with one element taken out.  *)
LEMMA TotalOf ==
  ASSUME NEW table, NEW S, IsFiniteSet(S)
  PROVE  Total(table, S) = IF S = {} THEN 0
                          ELSE table[One(S)].amount + Total(table, S \ {One(S)})
BY SumsExist, TotalStep

LEMMA TotalIsInt ==
  ASSUME NEW table, NEW S, IsFiniteSet(S), \A c \in S : table[c].amount \in Nat
  PROVE  Total(table, S) \in Int
<1> DEFINE B == {s \in SUBSET S : Total(table, s) \notin Int}
<1> SUFFICES ASSUME B # {} PROVE FALSE
  OBVIOUS
<1>1. PICK T \in B : \A t \in B : ~ (t \subseteq T /\ t # T)
  <2> HIDE DEF B
  <2>1. B \subseteq SUBSET S
    BY DEF B
  <2> QED BY <2>1, SmallestSubset
<1>2. IsFiniteSet(T)
  BY FS_Subset
<1>3. CASE T = {}
  <2>1. Total(table, T) = 0
    BY <1>2, <1>3, TotalOf
  <2> QED BY <1>1, <2>1
<1>4. CASE T # {}
  <2>1. PICK c \in T : c = One(T)
    BY <1>4, OneIsIn
  <2>2. Total(table, T \ {c}) \in Int /\ table[c].amount \in Int
    BY <1>1
  <2>3. Total(table, T) = table[c].amount + Total(table, T \ {c})
    BY <1>2, <1>4, <2>1, TotalOf
  <2> QED BY <1>1, <2>2, <2>3
<1> QED BY <1>3, <1>4

LEMMA TotalWithout ==
  ASSUME NEW table, NEW S, IsFiniteSet(S), \A c \in S : table[c].amount \in Nat, NEW x \in S
  PROVE  Total(table, S) = table[x].amount + Total(table, S \ {x})
<1> DEFINE B == {s \in SUBSET S : \E y \in s :
                   Total(table, s) # table[y].amount + Total(table, s \ {y})}
<1> SUFFICES ASSUME B # {} PROVE FALSE
  OBVIOUS
<1>1. PICK T \in B : \A t \in B : ~ (t \subseteq T /\ t # T)
  <2> HIDE DEF B
  <2>1. B \subseteq SUBSET S
    BY DEF B
  <2> QED BY <2>1, SmallestSubset
<1>2. PICK y \in T : Total(table, T) # table[y].amount + Total(table, T \ {y})
  BY <1>1
<1>3. PICK c \in T : c = One(T)
  BY <1>2, OneIsIn
<1>4. \A s \in SUBSET T : IsFiniteSet(s) /\ Total(table, s) \in Int
  BY FS_Subset, TotalIsInt
<1>5. Total(table, T) = table[c].amount + Total(table, T \ {c})
  BY <1>2, <1>3, <1>4, TotalOf
<1>6. c # y
  BY <1>2, <1>5
<1>7. ASSUME NEW z \in T, NEW u \in T, u # z
      PROVE  Total(table, T \ {z}) = table[u].amount + Total(table, (T \ {z}) \ {u})
  <2>1. PICK t \in SUBSET S : t = T \ {z} /\ t \subseteq T /\ t # T /\ u \in t
    <3>1. T \in SUBSET S
      OBVIOUS
    <3> HIDE DEF B
    <3>2. T \ {z} \in SUBSET S /\ T \ {z} # T /\ u \in T \ {z}
      BY <1>7, <3>1
    <3> QED BY <3>2
  <2>2. t \notin B
    BY <1>1, <2>1
  <2> QED BY <2>1, <2>2
<1>8. Total(table, T \ {c}) = table[y].amount + Total(table, (T \ {c}) \ {y})
  BY <1>7, <1>6
<1>9. Total(table, T \ {y}) = table[c].amount + Total(table, (T \ {y}) \ {c})
  BY <1>7, <1>6
<1>10. (T \ {c}) \ {y} = (T \ {y}) \ {c}
  OBVIOUS
<1>11. PICK n \in Int, a \in Nat, b \in Nat :
          n = Total(table, (T \ {y}) \ {c}) /\ a = table[c].amount /\ b = table[y].amount
  BY <1>4
<1> HIDE DEF B
<1>12. a + (b + n) # b + (a + n)
  BY <1>2, <1>5, <1>8, <1>9, <1>10, <1>11
<1> QED BY <1>12

LEMMA SameTotal ==
  ASSUME NEW table, NEW other, NEW S, IsFiniteSet(S), \A c \in S : other[c].amount = table[c].amount
  PROVE  Total(other, S) = Total(table, S)
<1> DEFINE B == {s \in SUBSET S : Total(other, s) # Total(table, s)}
<1> SUFFICES ASSUME B # {} PROVE FALSE
  OBVIOUS
<1>1. PICK T \in B : \A t \in B : ~ (t \subseteq T /\ t # T)
  <2> HIDE DEF B
  <2>1. B \subseteq SUBSET S
    BY DEF B
  <2> QED BY <2>1, SmallestSubset
<1>2. IsFiniteSet(T)
  BY FS_Subset
<1>3. CASE T = {}
  BY <1>1, <1>2, <1>3, TotalOf
<1>4. CASE T # {}
  <2>1. PICK c \in T : c = One(T)
    BY <1>4, OneIsIn
  <2>2. Total(other, T \ {c}) = Total(table, T \ {c}) /\ other[c].amount = table[c].amount
    BY <1>1
  <2>3. /\ Total(table, T) = table[c].amount + Total(table, T \ {c})
        /\ Total(other, T) = other[c].amount + Total(other, T \ {c})
    BY <1>2, <1>4, <2>1, TotalOf
  <2> QED BY <1>1, <2>2, <2>3
<1> QED BY <1>3, <1>4

-----------------------------------------------------------------------------
(* The account of cheques is the cheques in hand.                          *)

Counted == InHand \cup LeftBehind
Left(c) == <<<<"bounce", c>>, "CHEQUES">> \in posted

LEMMA CountedIs ==
  /\ Counted \in SUBSET Cheque /\ IsFiniteSet(Counted)
  /\ ChequesReconcile <=> (clashed = {} => book.CHEQUES = Total(cheque, Counted))
  /\ \A c \in Cheque : c \in Counted <=> \/ cheque[c].status = "IN_HAND"
                                         \/ cheque[c].status = "CASHED" /\ Left(c)
<1>1. Counted \in SUBSET Cheque /\ IsFiniteSet(Counted)
  BY ChequeAssumption, FS_Subset DEF Counted, InHand, LeftBehind
<1>2. ChequesReconcile <=> (clashed = {} => book.CHEQUES = Total(cheque, Counted))
  BY DEF ChequesReconcile, Counted, Total
<1>3. \A c \in Cheque : c \in Counted <=> \/ cheque[c].status = "IN_HAND"
                                          \/ cheque[c].status = "CASHED" /\ Left(c)
  BY DEF Counted, InHand, LeftBehind, Left
<1> QED BY <1>1, <1>2, <1>3

LEMMA CountedNext ==
  (/\ Counted \in SUBSET Cheque /\ IsFiniteSet(Counted)
   /\ ChequesReconcile <=> (clashed = {} => book.CHEQUES = Total(cheque, Counted))
   /\ \A c \in Cheque : c \in Counted <=> \/ cheque[c].status = "IN_HAND"
                                          \/ cheque[c].status = "CASHED" /\ Left(c))'
BY CountedIs, PTL

(* The account moves by what joins or leaves the cheques that count.       *)
LEMMA CountsSame ==
  ASSUME Shape, ChequesReconcile, clashed' = {} => clashed = {}, Counted' = Counted,
         \A c \in Counted : cheque'[c].amount = cheque[c].amount,
         book'.CHEQUES = book.CHEQUES
  PROVE  ChequesReconcile'
<1>1. IsFiniteSet(Counted)
  BY CountedIs
<1>2. Total(cheque', Counted) = Total(cheque, Counted)
  BY <1>1, SameTotal
<1> QED BY <1>2, CountedIs, CountedNext

LEMMA CountsOneMore ==
  ASSUME Shape, Shape', ChequesReconcile, clashed' = {} => clashed = {},
         NEW c \in Cheque, c \notin Counted, Counted' = Counted \cup {c},
         \A d \in Counted : cheque'[d].amount = cheque[d].amount,
         book'.CHEQUES = book.CHEQUES + cheque'[c].amount
  PROVE  ChequesReconcile'
<1>1. /\ IsFiniteSet(Counted) /\ IsFiniteSet(Counted')
      /\ Counted \in SUBSET Cheque /\ Counted' \in SUBSET Cheque
  BY CountedIs, CountedNext
<1>2. /\ \A d \in Counted : cheque[d].amount \in Nat
      /\ \A d \in Counted' : cheque'[d].amount \in Nat
  BY <1>1 DEF Shape, TypeOK, ChequeRows
<1>3. Total(cheque', Counted) = Total(cheque, Counted)
  BY <1>1, SameTotal
<1>4. c \in Counted' /\ Counted' \ {c} = Counted
  OBVIOUS
<1>5. Total(cheque', Counted') = cheque'[c].amount + Total(cheque', Counted)
  BY <1>1, <1>2, <1>4, TotalWithout
<1>6. PICK n \in Int : n = Total(cheque, Counted)
  BY <1>1, <1>2, TotalIsInt
<1>7. PICK a \in Nat : a = cheque'[c].amount
  BY <1>2, <1>4
<1>8. clashed' = {} => book.CHEQUES = n
  BY <1>6, CountedIs
<1>9. clashed' = {} => book'.CHEQUES = a + n
  BY <1>7, <1>8
<1>10. Total(cheque', Counted') = a + n
  BY <1>3, <1>5, <1>6, <1>7
<1> QED BY <1>9, <1>10, CountedNext

LEMMA CountsOneLess ==
  ASSUME Shape, ChequesReconcile, clashed' = {} => clashed = {},
         NEW c \in Counted, Counted' = Counted \ {c},
         \A d \in Counted' : cheque'[d].amount = cheque[d].amount,
         book'.CHEQUES = book.CHEQUES + (-cheque[c].amount)
  PROVE  ChequesReconcile'
<1>1. /\ IsFiniteSet(Counted) /\ IsFiniteSet(Counted') /\ Counted \in SUBSET Cheque
  BY CountedIs, CountedNext
<1>2. \A d \in Counted : cheque[d].amount \in Nat
  BY <1>1 DEF Shape, TypeOK, ChequeRows
<1>3. Total(cheque', Counted') = Total(cheque, Counted')
  BY <1>1, SameTotal
<1>4. Total(cheque, Counted) = cheque[c].amount + Total(cheque, Counted')
  BY <1>1, <1>2, TotalWithout
<1>5. PICK n \in Int : n = Total(cheque, Counted')
  BY <1>1, <1>2, TotalIsInt
<1>6. PICK a \in Nat : a = cheque[c].amount
  BY <1>2
<1>7. clashed' = {} => book.CHEQUES = a + n
  BY <1>4, <1>5, <1>6, CountedIs
<1>8. clashed' = {} => book'.CHEQUES = n
  BY <1>6, <1>7
<1> QED BY <1>3, <1>5, <1>8, CountedNext

LEMMA HeldInit == Init => Held
<1> SUFFICES ASSUME Init PROVE Held
  OBVIOUS
<1>1. posted = {} /\ book.CHEQUES = 0 /\ \A h \in Handler : call[h] = Idle
  BY DEF Init
<1>2. \A c \in Cheque : cheque[c].status = "NONE"
  BY DEF Init, NotYet
<1>3. Counted = {}
  BY <1>2, CountedIs
<1>4. Total(cheque, {}) = 0
  BY FS_EmptySet, TotalOf
<1>5. ChequesReconcile
  BY <1>1, <1>3, <1>4, CountedIs
<1>6. \A h \in Handler : ~ Working(h)
  BY <1>1, IdleIs DEF Working
<1> QED BY <1>1, <1>5, <1>6 DEF Held, HasKey

(* A step of one call that commits nothing.                                *)
LEMMA HeldOfCall ==
  ASSUME Shape, Held, NEW h \in Handler, NEW r, Become(h, r), UNCHANGED <<rows, clashed>>,
         Working(h)' => call'[h].amount = cheque[call'[h].cheque].amount
  PROVE  Held'
<1>1. \A g \in Handler : g # h => call'[g] = call[g]
  BY BecomeIs DEF Shape, TypeOK
<1>2. UNCHANGED <<cheque, posted, book, clashed>>
  BY DEF rows
<1>3. \A g \in Handler : Working(g)' => call'[g].amount = cheque'[call'[g].cheque].amount
  BY <1>1, <1>2 DEF Held, Working
<1>4. ChequesReconcile'
  <2>1. Counted' = Counted
    BY <1>2 DEF Counted, InHand, LeftBehind
  <2> QED BY <1>2, <2>1, CountedIs, CountedNext DEF Held
<1>5. \A c \in Cheque \ clashed' :
        cheque'[c].status \in {"NONE", "IN_HAND"} => ~ HasKey("deposit", c)'
  BY <1>2 DEF Held, HasKey
<1>6. \A v, w \in posted' : v[1] = w[1] => v = w
  BY <1>2 DEF Held
<1> QED BY <1>3, <1>4, <1>5, <1>6 DEF Held

(* A commit: calls are over, and the cheques keep their amounts.           *)
LEMMA HeldOfCommit ==
  ASSUME Shape, Held, \A h \in Handler : call'[h] = call[h] \/ call'[h] = Idle,
         \A c \in Cheque : cheque[c].status # "NONE" => cheque'[c].amount = cheque[c].amount,
         \A v, w \in posted' : v[1] = w[1] => v = w,
         \A c \in Cheque \ clashed' :
           cheque'[c].status \in {"NONE", "IN_HAND"} => ~ HasKey("deposit", c)',
         ChequesReconcile'
  PROVE  Held'
<1>1. ASSUME NEW h \in Handler, Working(h)'
      PROVE  call'[h].amount = cheque'[call'[h].cheque].amount
  <2>1. call'[h] = call[h] /\ Working(h)
    BY <1>1, IdleIs DEF Working
  <2>2. call[h].cheque \in Cheque /\ cheque[call[h].cheque].status # "NONE"
    BY <2>1, CallIs DEF Shaped
  <2> QED BY <2>1, <2>2 DEF Held
<1> QED BY <1>1 DEF Held

(* A sale or a receipt brings the cheque c, or none.                       *)
LEMMA HeldOfDocument ==
  ASSUME Shape, Shape', Held, UNCHANGED <<posted, clashed>>,
         \A h \in Handler : call'[h] = call[h] \/ call'[h] = Idle,
         NEW c, NEW n,
         \/ cheque' = cheque /\ book'.CHEQUES = book.CHEQUES
         \/ /\ c \in Cheque /\ cheque[c].status = "NONE"
            /\ cheque'[c].status = "IN_HAND" /\ cheque'[c].amount = n
            /\ \A d \in Cheque : d # c => cheque'[d] = cheque[d]
            /\ book'.CHEQUES = book.CHEQUES + n
  PROVE  Held'
<1>1. \A v, w \in posted' : v[1] = w[1] => v = w
  BY DEF Held
<1>2. CASE cheque' = cheque /\ book'.CHEQUES = book.CHEQUES
  <2>1. Counted' = Counted
    BY <1>2 DEF Counted, InHand, LeftBehind
  <2>2. ChequesReconcile'
    BY <1>2, <2>1, CountsSame DEF Held
  <2>3. \A d \in Cheque \ clashed' :
          cheque'[d].status \in {"NONE", "IN_HAND"} => ~ HasKey("deposit", d)'
    BY <1>2 DEF Held, HasKey
  <2> QED BY <1>1, <1>2, <2>2, <2>3, HeldOfCommit
<1>3. CASE /\ c \in Cheque /\ cheque[c].status = "NONE"
           /\ cheque'[c].status = "IN_HAND" /\ cheque'[c].amount = n
           /\ \A d \in Cheque : d # c => cheque'[d] = cheque[d]
           /\ book'.CHEQUES = book.CHEQUES + n
  <2>1. c \notin Counted
    BY <1>3, CountedIs
  <2>2. Counted' = Counted \cup {c}
    <3>1. \A d \in Cheque : Left(d)' <=> Left(d)
      BY DEF Left
    <3>2. \A d \in Cheque : d \in Counted' <=> d \in Counted \/ d = c
      BY <1>3, <3>1, CountedIs, CountedNext
    <3> QED BY <1>3, <3>2, CountedIs, CountedNext
  <2>3. \A d \in Cheque : cheque[d].status # "NONE" => cheque'[d] = cheque[d]
    BY <1>3
  <2>4. \A d \in Counted : cheque'[d].amount = cheque[d].amount
    BY <1>3, <2>1, CountedIs
  <2>5. ChequesReconcile'
    BY <1>3, <2>1, <2>2, <2>4, CountsOneMore DEF Held
  <2>6. \A d \in Cheque \ clashed' :
          cheque'[d].status \in {"NONE", "IN_HAND"} => ~ HasKey("deposit", d)'
    BY <1>3 DEF Held, HasKey
  <2> QED BY <1>1, <2>3, <2>5, <2>6, HeldOfCommit
<1> QED BY <1>2, <1>3

LEMMA HeldSell ==
  ASSUME Shape, Shape', Held, NEW i \in Invoice, NEW cash \in Nat, NEW byCheque \in Nat,
         NEW c \in Cheque \cup {NoCheque}, Sell(i, cash, c, byCheque)
  PROVE  Held'
<1>1. PICK n \in Int : n = due'[i]
  BY DEF Shape, TypeOK
<1>2. Book(n, byCheque) /\ UNCHANGED <<call, posted, clashed>>
  BY <1>1 DEF Sell
<1>3. book'.CHEQUES = book.CHEQUES + byCheque /\ book.CHEQUES \in Int
  BY <1>2, BookIs DEF Shape, TypeOK
<1>4. CASE byCheque = 0 /\ UNCHANGED cheque
  BY <1>2, <1>3, <1>4, HeldOfDocument
<1>5. CASE New(c) /\ cheque' = [cheque EXCEPT ![c] =
             NewCheque(byCheque, 0, TRUE, [Zero EXCEPT ![i] = byCheque])]
  <2>1. /\ c \in Cheque /\ cheque[c].status = "NONE"
        /\ cheque'[c].status = "IN_HAND" /\ cheque'[c].amount = byCheque
        /\ \A d \in Cheque : d # c => cheque'[d] = cheque[d]
    BY <1>5 DEF New, NewCheque, Shape, TypeOK
  <2> QED BY <1>2, <1>3, <2>1, HeldOfDocument
<1> QED BY <1>4, <1>5 DEF Sell

LEMMA HeldChangeDue ==
  ASSUME Shape, Shape', Held, NEW i \in Invoice, NEW d \in Int, ChangeDue(i, d)
  PROVE  Held'
<1>1. UNCHANGED <<call, cheque, posted, clashed>> /\ Book(d, 0)
  BY DEF ChangeDue
<1>2. book'.CHEQUES = book.CHEQUES
  BY <1>1, BookIs DEF Shape, TypeOK
<1> QED BY <1>1, <1>2, HeldOfDocument

LEMMA HeldReceive ==
  ASSUME Shape, Shape', Keys, Held, NEW h \in Handler, Receive(h)
  PROVE  Held'
<1> DEFINE k == call[h]
<1>1. k \in Calls /\ Receiving(h) /\ Become(h, Idle) /\ UNCHANGED <<posted, clashed>>
  BY CallIs DEF Receive, Receiving, Settle
<1>2. \A g \in Handler : call'[g] = call[g] \/ call'[g] = Idle
  BY <1>1, BecomeIs DEF Shape, TypeOK
<1>3. -k.amount \in Int /\ k.charge - k.amount \in Int /\ k.amount \in Int
  BY <1>1 DEF Calls
<1>4. CASE k.cheque = NoCheque
  <2>1. Book(-k.amount, 0) /\ cheque' = cheque
    BY <1>4 DEF Receive
  <2>2. book'.CHEQUES = book.CHEQUES
    BY <1>3, <2>1, BookIs DEF Shape, TypeOK
  <2> QED BY <1>1, <1>2, <2>1, <2>2, HeldOfDocument
<1>5. CASE k.cheque # NoCheque
  <2>1. /\ Book(k.charge - k.amount, k.amount)
        /\ cheque' = [cheque EXCEPT ![k.cheque] =
             NewCheque(k.amount, k.charge, FALSE, [i \in Invoice |-> -k.moved[i]])]
    BY <1>5 DEF Receive
  <2>2. book'.CHEQUES = book.CHEQUES + k.amount
    BY <1>3, <2>1, BookIs DEF Shape, TypeOK
  <2>3. k.cheque \in Cheque /\ cheque[k.cheque].status = "NONE"
    BY <1>1, <1>5 DEF Keys, Brings, Calls
  <2> HIDE DEF k
  <2>4. /\ cheque'[k.cheque].status = "IN_HAND" /\ cheque'[k.cheque].amount = k.amount
        /\ \A d \in Cheque : d # k.cheque => cheque'[d] = cheque[d]
    BY <2>1, <2>3 DEF NewCheque, Shape, TypeOK
  <2> QED BY <1>1, <1>2, <2>2, <2>3, <2>4, HeldOfDocument
<1> QED BY <1>4, <1>5

LEMMA HeldPayOut ==
  ASSUME Shape, Shape', Held, NEW h \in Handler, PayOut(h)
  PROVE  Held'
<1>1. /\ Become(h, Idle) /\ UNCHANGED <<cheque, posted, clashed>> /\ call[h].amount \in Nat
      /\ Book(call[h].amount, 0)
  BY CallIs DEF PayOut, Calls
<1>2. book'.CHEQUES = book.CHEQUES
  BY <1>1, BookIs DEF Shape, TypeOK
<1>3. \A g \in Handler : call'[g] = call[g] \/ call'[g] = Idle
  BY <1>1, BecomeIs DEF Shape, TypeOK
<1> QED BY <1>1, <1>2, <1>3, HeldOfDocument

(* A cheque's call commits, with a voucher or without: what of the cheque  *)
(* counts afterwards, and by how much the account has to have moved.       *)
LEMMA HeldOfStamp ==
  ASSUME Shape, Shape', Keys, Held, NEW h \in Handler, NEW kind \in DOMAIN Accepted,
         NEW status \in Statuses \ {"IN_HAND"},
         NEW c, c = call[h].cheque, Stamp(h, kind, status),
         \/ posted' = posted
         \/ \E account \in {"CHEQUES", "BANK"} :
              ~ HasKey(kind, c) /\ posted' = posted \cup {<<<<kind, c>>, account>>},
         c \notin clashed =>
           \/ /\ c \in Counted /\ ~ (status = "CASHED" /\ Left(c)')
              /\ book'.CHEQUES = book.CHEQUES + (-call[h].amount)
           \/ /\ c \notin Counted /\ status = "CASHED" /\ Left(c)'
              /\ book'.CHEQUES = book.CHEQUES + call[h].amount
           \/ /\ c \notin Counted /\ ~ (status = "CASHED" /\ Left(c)')
              /\ book'.CHEQUES = book.CHEQUES
  PROVE  Held'
<1>1. /\ c \in Cheque /\ Working(h) /\ Become(h, Idle)
      /\ cheque' = [cheque EXCEPT ![c].status = status] /\ Clashes(h, c)
  BY CallIs DEF Stamp, Shaped, Working, Settle
<1>2. \A g \in Handler : call'[g] = call[g] \/ call'[g] = Idle
  BY <1>1, BecomeIs DEF Shape, TypeOK
<1>3. /\ cheque'[c].status = status
      /\ \A d \in Cheque : d # c => cheque'[d] = cheque[d]
      /\ \A d \in Cheque : cheque'[d].amount = cheque[d].amount
  BY <1>1, StampedIs DEF Shape, TypeOK
<1>4. clashed \subseteq clashed' /\ (clashed' = {} => clashed = {})
  BY <1>1 DEF Clashes
<1>5. \A v, w \in posted' : v[1] = w[1] => v = w
  BY DEF Held, HasKey
<1>6. \A d \in Cheque : d # c => /\ HasKey("deposit", d)' <=> HasKey("deposit", d)
                                 /\ Left(d)' <=> Left(d)
  BY DEF HasKey, Left
<1>7. ASSUME NEW d \in Cheque \ clashed', cheque'[d].status \in {"NONE", "IN_HAND"}
      PROVE  ~ HasKey("deposit", d)'
  <2>1. CASE d = c
    <3>1. status \in {"NONE", "IN_HAND"}
      BY <1>3, <1>7, <2>1
    <3> QED BY <3>1 DEF Statuses
  <2>2. CASE d # c
    BY <1>3, <1>4, <1>6, <1>7, <2>2 DEF Held
  <2> QED BY <2>1, <2>2
<1>8. CASE clashed' # {}
  <2>1. ChequesReconcile'
    BY <1>8 DEF ChequesReconcile
  <2> QED BY <1>2, <1>3, <1>5, <1>7, <2>1, HeldOfCommit
<1>9. CASE clashed' = {}
  <2>1. call[h].amount = cheque[c].amount /\ call[h].amount = cheque'[c].amount
    BY <1>1, <1>3 DEF Held
  <2>2. \A d \in Cheque : d # c => (d \in Counted' <=> d \in Counted)
    BY <1>3, <1>6, CountedIs, CountedNext
  <2>3. c \in Counted' <=> status = "CASHED" /\ Left(c)'
    BY <1>1, <1>3, CountedNext
  <2>4. Counted \in SUBSET Cheque /\ Counted' \in SUBSET Cheque
    BY CountedIs, CountedNext
  <2>5. c \notin clashed
    BY <1>4, <1>9
  <2>6. ChequesReconcile'
    <3>1. CASE /\ c \in Counted /\ ~ (status = "CASHED" /\ Left(c)')
               /\ book'.CHEQUES = book.CHEQUES + (-call[h].amount)
      <4>1. Counted' = Counted \ {c}
        BY <2>2, <2>3, <2>4, <3>1
      <4>2. \A d \in Counted' : cheque'[d].amount = cheque[d].amount
        BY <1>3, <2>4
      <4> QED BY <1>4, <2>1, <3>1, <4>1, <4>2, CountsOneLess DEF Held
    <3>2. CASE /\ c \notin Counted /\ status = "CASHED" /\ Left(c)'
               /\ book'.CHEQUES = book.CHEQUES + call[h].amount
      <4>1. Counted' = Counted \cup {c}
        BY <1>1, <2>2, <2>3, <2>4, <3>2
      <4>2. \A d \in Counted : cheque'[d].amount = cheque[d].amount
        BY <1>3, <2>4
      <4> QED BY <1>1, <1>4, <2>1, <3>2, <4>1, <4>2, CountsOneMore DEF Held
    <3>3. CASE /\ c \notin Counted /\ ~ (status = "CASHED" /\ Left(c)')
               /\ book'.CHEQUES = book.CHEQUES
      <4>1. Counted' = Counted
        BY <2>2, <2>3, <2>4, <3>3
      <4>2. \A d \in Counted : cheque'[d].amount = cheque[d].amount
        BY <1>3, <2>4
      <4> QED BY <1>4, <3>3, <4>1, <4>2, CountsSame DEF Held
    <3> QED BY <2>5, <3>1, <3>2, <3>3
  <2> QED BY <1>2, <1>3, <1>5, <1>7, <2>6, HeldOfCommit
<1> QED BY <1>8, <1>9

(* A voucher that is posted has a new key, and moves the account.          *)
LEMMA PostMoves ==
  ASSUME Shape, NEW kind \in {"deposit", "cash", "bounce"}, NEW c \in Cheque,
         NEW account \in {"CHEQUES", "BANK"}, NEW x \in Int, NEW y \in Int,
         Post(<<kind, c>>, account, x, y)
  PROVE  /\ \/ posted' = posted
            \/ ~ HasKey(kind, c) /\ posted' = posted \cup {<<<<kind, c>>, account>>}
         /\ ~ HasKey(kind, c) => /\ book'.CHEQUES = book.CHEQUES + y
                                 /\ posted' = posted \cup {<<<<kind, c>>, account>>}
<1>1. CASE HasKey(kind, c)
  BY <1>1 DEF Post, HasKey
<1>2. CASE ~ HasKey(kind, c)
  BY <1>2, PostIs
<1> QED BY <1>1, <1>2

LEMMA HeldDeposit ==
  ASSUME Shape, Shape', Keys, Held, NEW h \in Handler, Deposit(h)
  PROVE  Held'
<1>0. PICK c : c = call[h].cheque
  OBVIOUS
<1>1. /\ Stamp(h, "deposit", "DEPOSITED") /\ c \in Cheque
      /\ Working(h) /\ call[h].status = "IN_HAND" /\ call[h].amount \in Nat
  BY <1>0, CallIs DEF Deposit, Stamp, Shaped, Working, Accepted, Calls
<1>2. PICK n \in Int : n = -call[h].amount
  BY <1>1
<1>3. Post(<<"deposit", c>>, "CHEQUES", 0, n)
  BY <1>0, <1>2 DEF Deposit
<1>4. c \notin clashed => c \in Counted /\ ~ HasKey("deposit", c)
  BY <1>0, <1>1, CountedIs DEF Keys, Known, Held
<1>5. "deposit" \in DOMAIN Accepted /\ "DEPOSITED" \in Statuses \ {"IN_HAND"}
  BY DEF Accepted, Statuses
<1>6. /\ \/ posted' = posted
         \/ ~ HasKey("deposit", c) /\ posted' = posted \cup {<<<<"deposit", c>>, "CHEQUES">>}
      /\ ~ HasKey("deposit", c) => book'.CHEQUES = book.CHEQUES + n
  BY <1>1, <1>3, PostMoves
<1> QED BY <1>0, <1>1, <1>2, <1>4, <1>5, <1>6, HeldOfStamp

LEMMA HeldBounce ==
  ASSUME Shape, Shape', Keys, Held, NEW h \in Handler, Bounce(h)
  PROVE  Held'
<1>0. PICK c : c = call[h].cheque
  OBVIOUS
<1>1. /\ Stamp(h, "bounce", "BOUNCED") /\ c \in Cheque
      /\ Working(h) /\ call[h].status \in {"IN_HAND", "DEPOSITED"} /\ call[h].amount \in Nat
  BY <1>0, CallIs DEF Bounce, Stamp, Shaped, Working, Accepted, Calls
<1>2. PICK account \in {"CHEQUES", "BANK"} :
        account = IF call[h].status = "DEPOSITED" THEN "BANK" ELSE "CHEQUES"
  OBVIOUS
<1>3. PICK n \in Int : n = OnCheques(account, -call[h].amount)
  BY <1>1 DEF OnCheques
<1>4. Post(<<"bounce", c>>, account, call[h].amount, n)
  BY <1>0, <1>2, <1>3 DEF Bounce
<1>5. c \notin clashed => cheque[c].status = call[h].status /\ ~ HasKey("bounce", c)
  BY <1>0, <1>1 DEF Keys, Known, Keyed
<1>6. "bounce" \in DOMAIN Accepted /\ "BOUNCED" \in Statuses \ {"IN_HAND"}
  BY DEF Accepted, Statuses
<1>7. /\ \/ posted' = posted
         \/ ~ HasKey("bounce", c) /\ posted' = posted \cup {<<<<"bounce", c>>, account>>}
      /\ ~ HasKey("bounce", c) => book'.CHEQUES = book.CHEQUES + n
  BY <1>1, <1>4, PostMoves
<1>8. c \notin clashed => \/ c \in Counted /\ n = -call[h].amount
                          \/ c \notin Counted /\ n = 0
  BY <1>1, <1>2, <1>3, <1>5, CountedIs DEF OnCheques
<1>9. c \notin clashed => \/ /\ c \in Counted
                             /\ book'.CHEQUES = book.CHEQUES + (-call[h].amount)
                          \/ c \notin Counted /\ book'.CHEQUES = book.CHEQUES
  <2>1. book.CHEQUES \in Int
    BY DEF Shape, TypeOK
  <2> QED BY <1>5, <1>7, <1>8, <2>1
<1> QED BY <1>0, <1>1, <1>6, <1>7, <1>9, HeldOfStamp

LEMMA HeldCash ==
  ASSUME Shape, Shape', Keys, Held, NEW h \in Handler, Cash(h)
  PROVE  Held'
<1>0. PICK c : c = call[h].cheque
  OBVIOUS
<1>1. /\ Stamp(h, "cash", "CASHED") /\ c \in Cheque
      /\ Working(h) /\ call[h].status \in {"IN_HAND", "DEPOSITED"} /\ call[h].amount \in Nat
  BY <1>0, CallIs DEF Cash, Stamp, Shaped, Working, Accepted, Calls
<1>2. PICK n \in Int : n = -call[h].amount
  BY <1>1
<1>3. c \notin clashed => /\ cheque[c].status = call[h].status
                          /\ ~ HasKey("bounce", c) /\ ~ HasKey("cash", c)
  BY <1>0, <1>1 DEF Keys, Known, Keyed
<1>4. "cash" \in DOMAIN Accepted /\ "CASHED" \in Statuses \ {"IN_HAND"}
  BY DEF Accepted, Statuses
<1>5. ~ HasKey("bounce", c) => ~ Left(c)
  BY DEF HasKey, Left
<1>6. CASE call[h].status = "IN_HAND"
  <2>1. Post(<<"cash", c>>, "CHEQUES", 0, n)
    BY <1>0, <1>2, <1>6 DEF Cash
  <2>2. /\ \/ posted' = posted
           \/ ~ HasKey("cash", c) /\ posted' = posted \cup {<<<<"cash", c>>, "CHEQUES">>}
        /\ ~ HasKey("cash", c) => book'.CHEQUES = book.CHEQUES + n
    BY <1>1, <2>1, PostMoves
  <2>3. Left(c)' <=> Left(c)
    BY <2>2 DEF Left
  <2>4. c \notin clashed => /\ c \in Counted /\ ~ Left(c)'
                            /\ book'.CHEQUES = book.CHEQUES + (-call[h].amount)
    BY <1>1, <1>2, <1>3, <1>5, <1>6, <2>2, <2>3, CountedIs
  <2> QED BY <1>0, <1>1, <1>4, <2>2, <2>4, HeldOfStamp
<1>7. CASE call[h].status # "IN_HAND"
  <2>1. UNCHANGED <<book, posted>> /\ call[h].status = "DEPOSITED"
    BY <1>1, <1>7 DEF Cash
  <2>2. Left(c)' <=> Left(c)
    BY <2>1 DEF Left
  <2>3. c \notin clashed => c \notin Counted /\ ~ Left(c)' /\ book'.CHEQUES = book.CHEQUES
    BY <1>1, <1>3, <1>5, <2>1, <2>2, CountedIs
  <2> QED BY <1>0, <1>1, <1>4, <2>1, <2>3, HeldOfStamp
<1> QED BY <1>6, <1>7

(* The voucher of the bounce says whether the cheque was in hand then: it  *)
(* counts again, on an account that nobody can take it from.               *)
LEMMA HeldCashBounced ==
  ASSUME Shape, Shape', Keys, Held, NEW h \in Handler, CashBounced(h)
  PROVE  Held'
<1>0. PICK c : c = call[h].cheque
  OBVIOUS
<1>1. /\ Stamp(h, "cash", "CASHED") /\ c \in Cheque
      /\ Working(h) /\ call[h].status = "BOUNCED" /\ call[h].amount \in Nat
  BY <1>0, CallIs DEF CashBounced, Stamp, Shaped, Working, Calls
<1>2. PICK v \in posted : /\ v[1] = <<"bounce", c>>
                          /\ Post(<<"cash", c>>, v[2], -call[h].amount,
                                  OnCheques(v[2], call[h].amount))
  BY <1>0 DEF CashBounced
<1>3. v[2] \in {"CHEQUES", "BANK"} /\ v = <<v[1], v[2]>>
  BY DEF Shape, TypeOK
<1>4. PICK account \in {"CHEQUES", "BANK"} : account = v[2] /\ v = <<<<"bounce", c>>, account>>
  BY <1>2, <1>3
<1>5. PICK n \in Int : n = OnCheques(account, call[h].amount)
  BY <1>1 DEF OnCheques
<1>6. PICK x \in Int : Post(<<"cash", c>>, account, x, n)
  <2>1. -call[h].amount \in Int
    BY <1>1
  <2> QED BY <1>2, <1>4, <1>5, <2>1
<1>7. c \notin clashed => cheque[c].status = "BOUNCED" /\ ~ HasKey("cash", c)
  BY <1>0, <1>1 DEF Keys, Known, Keyed
<1>8. "cash" \in DOMAIN Accepted /\ "CASHED" \in Statuses \ {"IN_HAND"}
  BY DEF Accepted, Statuses
<1>9. /\ \/ posted' = posted
         \/ ~ HasKey("cash", c) /\ posted' = posted \cup {<<<<"cash", c>>, account>>}
      /\ ~ HasKey("cash", c) => book'.CHEQUES = book.CHEQUES + n
  BY <1>1, <1>6, PostMoves
<1>10. Left(c)' <=> Left(c)
  BY <1>9 DEF Left
<1>11. Left(c) <=> account = "CHEQUES"
  <2>1. account = "CHEQUES" => Left(c)
    BY <1>4 DEF Left
  <2>2. ASSUME Left(c) PROVE account = "CHEQUES"
    <3>1. PICK w \in posted : w = <<<<"bounce", c>>, "CHEQUES">>
      BY <2>2 DEF Left
    <3>2. v = w
      BY <1>2, <3>1 DEF Held
    <3> QED BY <1>4, <3>1, <3>2
  <2> QED BY <2>1, <2>2
<1>12. c \notin clashed => c \notin Counted
  BY <1>1, <1>7, CountedIs
<1>13. CASE account = "CHEQUES"
  <2>1. c \notin clashed => book'.CHEQUES = book.CHEQUES + call[h].amount
    BY <1>5, <1>7, <1>9, <1>13 DEF OnCheques
  <2> QED BY <1>0, <1>1, <1>8, <1>9, <1>10, <1>11, <1>12, <1>13, <2>1, HeldOfStamp
<1>14. CASE account # "CHEQUES"
  <2>1. c \notin clashed => book'.CHEQUES = book.CHEQUES
    <3>1. n = 0 /\ book.CHEQUES \in Int
      BY <1>5, <1>14 DEF OnCheques, Shape, TypeOK
    <3> QED BY <1>7, <1>9, <3>1
  <2> QED BY <1>0, <1>1, <1>8, <1>9, <1>10, <1>11, <1>12, <1>14, <2>1, HeldOfStamp
<1> QED BY <1>13, <1>14

LEMMA HeldStep ==
  ASSUME Shape, Shape', Keys, Held, Next
  PROVE  Held'
<1>1. ASSUME NEW i \in Invoice, NEW n \in Nat, Reverse(i, n) \/ Recompose(i, n)
      PROVE  Held'
  <2>1. \E d \in Int : ChangeDue(i, d)
    BY <1>1, DebtChanges
  <2> QED BY <2>1, HeldChangeDue
<1>2. ASSUME NEW h \in Handler, NEW base \in Nat, NEW charge \in Nat,
             NEW c \in Cheque \cup {NoCheque}, NEW free \in BOOLEAN,
             AskReceipt(h, base, charge, c, free)
      PROVE  Held'
  <2>1. UNCHANGED <<rows, clashed>>
    BY <1>2 DEF AskReceipt
  <2>2. Become(h, call'[h]) /\ ~ Working(h)'
    BY <1>2, AskReceiptIs DEF Working
  <2> QED BY <2>1, <2>2, HeldOfCall
<1>3. ASSUME NEW h \in Handler, NEW kind \in DOMAIN Accepted, NEW c \in Cheque, Load(h, kind, c)
      PROVE  Held'
  <2>1. UNCHANGED <<rows, clashed>>
    BY <1>3 DEF Load
  <2>2. Become(h, call'[h]) /\ call'[h].amount = cheque[call'[h].cheque].amount
    BY <1>3, LoadIs
  <2> QED BY <2>1, <2>2, HeldOfCall
<1>4. ASSUME NEW h \in Handler, NEW amount \in Nat, NEW free \in BOOLEAN,
             LockCustomer(h, amount, free)
      PROVE  Held'
  <2>1. UNCHANGED <<rows, clashed>>
    BY <1>4 DEF LockCustomer
  <2>2. Become(h, call'[h]) /\ ~ Working(h)'
    BY <1>4, LockCustomerIs DEF Working
  <2> QED BY <2>1, <2>2, HeldOfCall
<1>5. ASSUME NEW h \in Handler, ReadDebts(h) \/ Accept(h)
      PROVE  Held'
  <2>1. UNCHANGED <<rows, clashed>>
    BY <1>5 DEF ReadDebts, Accept, history
  <2>2. Become(h, call'[h]) /\ ~ Working(h)'
    BY <1>5, ReadDebtsIs, AcceptIs DEF Working
  <2> QED BY <2>1, <2>2, HeldOfCall
<1>6. ASSUME NEW h \in Handler, ReadRooms(h)
      PROVE  Held'
  <2>1. UNCHANGED <<rows, clashed>>
    BY <1>6 DEF ReadRooms, history
  <2>2. /\ Become(h, call'[h]) /\ call[h].at = "rooms" /\ call'[h].amount = call[h].amount
        /\ call'[h].cheque = call[h].cheque
    BY <1>6, ReadRoomsIs
  <2>3. call'[h].amount = cheque[call'[h].cheque].amount
    BY <2>2 DEF Held, Working
  <2> QED BY <2>1, <2>2, <2>3, HeldOfCall
<1>7. ASSUME NEW h \in Handler, NEW i \in Invoice, Allocate(h, i)
      PROVE  Held'
  <2>1. UNCHANGED <<rows, clashed>> /\ call[h].at = "allocating"
    BY <1>7 DEF Allocate, history
  <2>2. Become(h, call'[h]) /\ ~ Working(h)'
    BY <1>7, <2>1, AllocateIs DEF Working
  <2> QED BY <2>1, <2>2, HeldOfCall
<1>8. ASSUME NEW h \in Handler, NEW i \in Invoice, Shift(h, i)
      PROVE  Held'
  <2>1. UNCHANGED <<rows, clashed>> /\ call[h].at = "shifting"
    BY <1>8 DEF Shift, history
  <2>2. /\ Become(h, call'[h]) /\ call'[h].amount = call[h].amount
        /\ call'[h].cheque = call[h].cheque
    BY <1>8, ShiftIs
  <2>3. call'[h].amount = cheque[call'[h].cheque].amount
    BY <2>1, <2>2 DEF Held, Working
  <2> QED BY <2>1, <2>2, <2>3, HeldOfCall
<1>9. ASSUME NEW h \in Handler, Rollback(h)
      PROVE  Held'
  <2>1. UNCHANGED <<rows, clashed>> /\ Become(h, Idle)
    BY <1>9 DEF Rollback
  <2>2. ~ Working(h)'
    BY <2>1, OverIs, IdleIs DEF Working
  <2> QED BY <2>1, <2>2, HeldOfCall
<1> QED
  BY <1>1, <1>2, <1>3, <1>4, <1>5, <1>6, <1>7, <1>8, <1>9, Steps, HeldSell, HeldReceive,
     HeldPayOut, HeldDeposit, HeldBounce, HeldCash, HeldCashBounced

(* The account of cheques is the sum of the cheques in hand and of those   *)
(* that bounced in hand and were cashed after all, for any finite number   *)
(* of cheques, as long as no two calls work on one cheque at a time.       *)
THEOREM ChequeAccountIsInHand == Spec => []ChequesReconcile
<1>1. Init => Shape /\ Keys /\ Held
  BY ShapeInit, KeysInit, HeldInit
<1>2. Shape /\ Keys /\ Held /\ [Next]_vars => (Shape /\ Keys /\ Held)'
  <2> SUFFICES ASSUME Shape, Keys, Held, [Next]_vars PROVE (Shape /\ Keys /\ Held)'
    OBVIOUS
  <2>1. CASE Next
    <3>1. Shape'
      BY <2>1, ShapeStep
    <3> QED BY <2>1, <3>1, KeysStep, HeldStep
  <2>2. CASE UNCHANGED vars
    <3>1. Shape'
      BY <2>2 DEF Shape, TypeOK, Shaped, Receiving, Working, Paying, vars, rows, history
    <3>2. Keys'
      BY <2>2 DEF Keys, Keyed, HasKey, Working, Known, Brings, Receiving, LedgerReconciles,
                  vars, rows, history
    <3>3. Held'
      <4>1. UNCHANGED <<cheque, posted, book, clashed, call>>
        BY <2>2 DEF vars, rows, history
      <4>2. ChequesReconcile'
        <5>1. Counted' = Counted
          BY <4>1 DEF Counted, InHand, LeftBehind
        <5> QED BY <4>1, <5>1, CountedIs, CountedNext DEF Held
      <4> QED BY <4>1, <4>2 DEF Held, HasKey, Working
    <3> QED BY <3>1, <3>2, <3>3
  <2> QED BY <2>1, <2>2
<1>3. Held => ChequesReconcile
  BY DEF Held
<1> QED BY <1>1, <1>2, <1>3, PTL DEF Spec

-----------------------------------------------------------------------------
(* The credit of payouts.                                                  *)

LEMMA CreditInit == Init => Credit
BY IdleIs DEF Init, Credit, CreditCoversPayout, Paying

(* A step after which no other payout is being made, and which does not    *)
(* raise the debt, unless it tells so to the payouts.                      *)
LEMMA CreditOfStep ==
  ASSUME Shape, Shape', Credit, \A h \in Paying' : h \in Paying /\ call'[h] = call[h],
         \/ ledger' <= ledger /\ \A h \in Paying' : h \in raised => h \in raised'
         \/ Paying \subseteq raised'
  PROVE  Credit'
<1>1. \A h, g \in Paying' : h = g
  BY DEF Credit
<1>2. ASSUME NEW h \in Paying', h \notin raised'
      PROVE  call'[h].free \/ ledger' + call'[h].amount <= 0
  <2>1. /\ h \in Handler /\ h \in Paying /\ h \notin raised /\ call'[h] = call[h]
        /\ ledger' <= ledger
    BY <1>2 DEF Paying
  <2>2. call[h].free \/ ledger + call[h].amount <= 0
    BY <2>1 DEF Credit, CreditCoversPayout
  <2>3. ledger \in Int /\ ledger' \in Int /\ call[h].amount \in Nat
    BY <2>1, CallIs DEF Shape, TypeOK, Calls
  <2>4. CASE call[h].free
    BY <2>1, <2>4
  <2>5. CASE ledger + call[h].amount <= 0
    <3>1. ledger' + call[h].amount <= 0
      BY <2>1, <2>3, <2>5
    <3> QED BY <2>1, <3>1
  <2> QED BY <2>2, <2>4, <2>5
<1> QED BY <1>1, <1>2 DEF Credit, CreditCoversPayout

(* A call that is no payout goes on, or any call is over.                  *)
LEMMA PayingStays ==
  ASSUME Shape, NEW h \in Handler, NEW r, Become(h, r), r.at # "paying"
  PROVE  \A g \in Paying' : g \in Paying /\ call'[g] = call[g]
<1>1. call'[h] = r /\ \A g \in Handler : g # h => call'[g] = call[g]
  BY BecomeIs DEF Shape, TypeOK
<1> QED BY <1>1 DEF Paying

LEMMA CreditLockCustomer ==
  ASSUME Shape, Credit, NEW h \in Handler, NEW amount \in Nat, NEW free \in BOOLEAN,
         amount > 0, LockCustomer(h, amount, free)
  PROVE  Credit'
<1>1. Paying = {} /\ ledger' = ledger /\ (free \/ amount <= AtLeastZero(-ledger))
  BY DEF LockCustomer, rows
<1>2. Paying' = {h} /\ call'[h].amount = amount /\ call'[h].free = free
  <2>1. \A g \in Handler : g # h => call'[g] = call[g]
    BY LockCustomerIs, BecomeIs DEF Shape, TypeOK
  <2>2. call'[h].at = "paying" /\ call'[h].amount = amount /\ call'[h].free = free
    BY LockCustomerIs
  <2> QED BY <1>1, <2>1, <2>2 DEF Paying
<1>3. amount <= AtLeastZero(-ledger) => ledger' + amount <= 0
  <2>1. ledger \in Int /\ ledger' = ledger
    BY <1>1 DEF Shape, TypeOK
  <2> QED BY <2>1 DEF AtLeastZero
<1>4. free \/ ledger' + amount <= 0
  BY <1>1, <1>3, Zenon
<1>5. CreditCoversPayout'
  BY <1>2, <1>4, Zenon DEF CreditCoversPayout
<1> QED BY <1>2, <1>5 DEF Credit

LEMMA CreditStep ==
  ASSUME Shape, Shape', Credit, Next
  PROVE  Credit'
<1>1. ASSUME NEW n \in Int, UNCHANGED call, ledger' = ledger + n, Raises(n)
      PROVE  Credit'
  <2>1. \A h \in Paying' : h \in Paying /\ call'[h] = call[h]
    BY <1>1 DEF Paying
  <2>2. CASE n > 0
    BY <1>1, <2>1, <2>2, CreditOfStep DEF Raises
  <2>3. CASE ~ (n > 0)
    BY <1>1, <2>1, <2>3, CreditOfStep DEF Raises, Shape, TypeOK
  <2> QED BY <2>2, <2>3
<1>2. ASSUME NEW i \in Invoice, NEW n \in Nat, Reverse(i, n) \/ Recompose(i, n)
      PROVE  Credit'
  <2>1. \E d \in Int : ChangeDue(i, d)
    BY <1>2, DebtChanges
  <2> QED BY <1>1, <2>1 DEF ChangeDue
<1>3. ASSUME NEW i \in Invoice, NEW cash \in Nat, NEW byCheque \in Nat,
             NEW c \in Cheque \cup {NoCheque}, Sell(i, cash, c, byCheque)
      PROVE  Credit'
  <2>1. due'[i] \in Int
    BY DEF Shape, TypeOK
  <2> QED BY <1>1, <1>3, <2>1 DEF Sell
<1>4. ASSUME NEW h \in Handler, NEW r, Become(h, r), r.at # "paying", ledger' = ledger,
             raised' = raised
      PROVE  Credit'
  <2>1. ledger' <= ledger
    BY <1>4 DEF Shape, TypeOK
  <2> QED BY <1>4, <2>1, PayingStays, CreditOfStep
<1>5. ASSUME NEW h \in Handler, NEW base \in Nat, NEW charge \in Nat,
             NEW c \in Cheque \cup {NoCheque}, NEW free \in BOOLEAN,
             AskReceipt(h, base, charge, c, free)
      PROVE  Credit'
  <2>1. ledger' = ledger /\ raised' = raised
    BY <1>5 DEF AskReceipt, rows
  <2> QED BY <1>4, <1>5, <2>1, AskReceiptIs
<1>6. ASSUME NEW h \in Handler, NEW kind \in DOMAIN Accepted, NEW c \in Cheque, Load(h, kind, c)
      PROVE  Credit'
  <2>1. ledger' = ledger /\ raised' = raised
    BY <1>6 DEF Load, rows
  <2> QED BY <1>4, <1>6, <2>1, LoadIs
<1>7. ASSUME NEW h \in Handler, ReadDebts(h) \/ Accept(h) \/ ReadRooms(h)
      PROVE  Credit'
  <2>1. ledger' = ledger /\ raised' = raised
    BY <1>7 DEF ReadDebts, Accept, ReadRooms, rows, history
  <2>2. \E r : Become(h, r) /\ r.at # "paying"
    BY <1>7, ReadDebtsIs, AcceptIs, ReadRoomsIs
  <2> QED BY <1>4, <2>1, <2>2
<1>8. ASSUME NEW h \in Handler, NEW i \in Invoice, Allocate(h, i) \/ Shift(h, i)
      PROVE  Credit'
  <2>1. ledger' = ledger /\ raised' = raised /\ call[h].at # "paying"
    BY <1>8 DEF Allocate, Shift, rows, history
  <2>2. Become(h, call'[h]) /\ call'[h].at = call[h].at
    BY <1>8, AllocateIs, ShiftIs
  <2> QED BY <1>4, <2>1, <2>2
<1>9. ASSUME NEW h \in Handler, Receive(h) \/ Deposit(h) \/ Cash(h) \/ CashBounced(h)
      PROVE  Credit'
  <2>1. Become(h, Idle) /\ raised' = raised
    BY <1>9 DEF Receive, Deposit, Cash, CashBounced, Stamp, Settle
  <2>2. /\ ledger \in Int /\ call[h].amount \in Nat /\ call[h].charge \in Nat
        /\ Receive(h) => call[h].charge <= call[h].amount
    BY CallIs DEF Receive, Shaped, Receiving, Shape, TypeOK, Calls
  <2>3. \/ ledger' = ledger \/ ledger' = ledger - call[h].amount
        \/ ledger' = ledger + call[h].charge - call[h].amount /\ Receive(h)
    BY <1>9 DEF Receive, Deposit, Cash, CashBounced
  <2>4. ledger' <= ledger
    BY <2>2, <2>3
  <2> QED BY <2>1, <2>4, IdleIs, PayingStays, CreditOfStep
<1>10. ASSUME NEW h \in Handler, Bounce(h)
       PROVE  Credit'
  <2>1. /\ Become(h, Idle) /\ ledger' = ledger + call[h].amount /\ Raises(call[h].amount)
        /\ call[h].amount \in Nat
    BY <1>10, CallIs DEF Bounce, Stamp, Settle, Calls
  <2>2. CASE call[h].amount > 0
    BY <2>1, <2>2, IdleIs, PayingStays, CreditOfStep DEF Raises
  <2>3. CASE ~ (call[h].amount > 0)
    <3>1. ledger' <= ledger /\ raised' = raised
      BY <2>1, <2>3 DEF Raises, Shape, TypeOK
    <3> QED BY <2>1, <3>1, IdleIs, PayingStays, CreditOfStep
  <2> QED BY <2>2, <2>3
<1>11. ASSUME NEW h \in Handler, PayOut(h)
       PROVE  Credit'
  <2>1. Paying' = {}
    <3>1. Become(h, Idle) /\ h \in Paying
      BY <1>11 DEF PayOut, Paying
    <3> QED BY <3>1, OverIs DEF Credit
  <2> QED BY <2>1 DEF Credit, CreditCoversPayout
<1>12. ASSUME NEW h \in Handler, Rollback(h)
       PROVE  Credit'
  <2>1. Become(h, Idle) /\ raised' = raised \ {h} /\ ledger' <= ledger
    BY <1>12 DEF Rollback, rows, Shape, TypeOK
  <2>2. h \notin Paying'
    BY <2>1, OverIs
  <2> QED BY <2>1, <2>2, IdleIs, PayingStays, CreditOfStep
<1> QED
  BY <1>2, <1>3, <1>5, <1>6, <1>7, <1>8, <1>9, <1>10, <1>11, <1>12, Steps, CreditLockCustomer

(* No credit is paid out twice: payouts lock the customer, so what one has *)
(* found is there when it pays, unless a document raised the debt.         *)
THEOREM CreditIsSpentOnce == Spec => []CreditCoversPayout
<1>1. Init => Shape /\ Credit
  BY ShapeInit, CreditInit
<1>2. Shape /\ Credit /\ [Next]_vars => (Shape /\ Credit)'
  <2> SUFFICES ASSUME Shape, Credit, [Next]_vars PROVE (Shape /\ Credit)'
    OBVIOUS
  <2>1. CASE Next
    BY <2>1, ShapeStep, CreditStep
  <2>2. CASE UNCHANGED vars
    <3>1. Shape'
      BY <2>2 DEF Shape, TypeOK, Shaped, Receiving, Working, Paying, vars, rows, history
    <3>2. Credit'
      BY <2>2 DEF Credit, CreditCoversPayout, Paying, vars, rows, history
    <3> QED BY <3>1, <3>2
  <2> QED BY <2>1, <2>2
<1>3. Credit => CreditCoversPayout
  BY DEF Credit
<1> QED BY <1>1, <1>2, <1>3, PTL DEF Spec
=============================================================================
