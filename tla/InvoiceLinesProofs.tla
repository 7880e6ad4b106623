------------------------- MODULE InvoiceLinesProofs -------------------------
(***************************************************************************)
(* Proofs about InvoiceLines, for every sale, every set of requests and    *)
(* keys, any number of requests at a time and any number of repetitions.   *)
(***************************************************************************)
EXTENDS InvoiceLines, TLAPS

(* What holds of an invoice between two documents. *)
LineOK(line, live) ==
  /\ Balance(line) >= 0
  /\ live => Balance(line) = Held(line) + line.grown

MoneyOK(m, customer) ==
  /\ m \in Money
  /\ m.due >= m.ledger
  /\ m.total - m.paid >= m.ledger
  /\ ~customer => m.total = m.paid /\ m.due = 0

InvoiceOK(i) ==
  /\ i \in Invoice
  /\ \A l \in Log : LineOK(i.line[l], Open(i))
  /\ MoneyOK(i.money, i.customer)

(* A process that writes holds the lock, and what it has read is still so. *)
LockOK ==
  \A p \in Proc :
    /\ at[p] # "idle" => key[p] \in Key /\ sent[key[p]] \in Requests
    /\ at[p] = "write" => lock = p /\ seen[p] = inv

IInv == TypeOK /\ InvoiceOK(inv) /\ LockOK

-----------------------------------------------------------------------------
(* Amounts. *)

LEMMA ProductIsNat == \A a, b \in Nat : a * b \in Nat
BY SMT

LEMMA CreditedBackIsOK ==
  ASSUME NEW m, MoneyOK(m, TRUE), NEW refund \in Nat
  PROVE  MoneyOK(CreditedBack(m, refund), TRUE)
<1> DEFINE m1 == [m EXCEPT !.due = @ - Least(refund, m.due)]
            m2 == [m1 EXCEPT !.total = @ - AtLeastZero(Least(refund, m.total))]
            m3 == [m2 EXCEPT !.ledger = @ - refund]
<1>1. /\ m1 \in Money
      /\ m1.subtotal = m.subtotal /\ m1.total = m.total /\ m1.paid = m.paid
      /\ m1.due = m.due - Least(refund, m.due) /\ m1.ledger = m.ledger /\ m1.refunded = m.refunded
  BY DEF MoneyOK, Money, Least, AtLeastZero
<1>2. /\ m2 \in Money
      /\ m2.subtotal = m.subtotal /\ m2.total = m.total - AtLeastZero(Least(refund, m.total)) /\ m2.paid = m.paid
      /\ m2.due = m.due - Least(refund, m.due) /\ m2.ledger = m.ledger /\ m2.refunded = m.refunded
  <2> HIDE DEF m1
  <2> QED BY <1>1 DEF MoneyOK, Money, Least, AtLeastZero
<1>3. /\ m3 \in Money
      /\ m3.subtotal = m.subtotal /\ m3.total = m.total - AtLeastZero(Least(refund, m.total)) /\ m3.paid = m.paid
      /\ m3.due = m.due - Least(refund, m.due) /\ m3.ledger = m.ledger - refund /\ m3.refunded = m.refunded
  <2> HIDE DEF m2
  <2> QED BY <1>2 DEF MoneyOK, Money, Least, AtLeastZero
<1>4. CreditedBack(m, refund) = m3
  BY DEF CreditedBack, MoneyOK, Money
<1>5. MoneyOK(m3, TRUE)
  <2> HIDE DEF m3
  <2> QED BY <1>3 DEF MoneyOK, Money, Least, AtLeastZero
<1> QED BY <1>4, <1>5

LEMMA PaidBackIsOK ==
  ASSUME NEW m, NEW customer \in BOOLEAN, MoneyOK(m, customer), NEW refund \in Nat
  PROVE  MoneyOK(PaidBack(m, refund), customer)
<1> DEFINE m1 == [m EXCEPT !.refunded = @ + refund]
<1>1. /\ m1 \in Money
      /\ m1.subtotal = m.subtotal /\ m1.total = m.total /\ m1.paid = m.paid
      /\ m1.due = m.due /\ m1.ledger = m.ledger /\ m1.refunded = m.refunded + refund
  BY DEF MoneyOK, Money
<1>2. PaidBack(m, refund) = m1
  BY DEF PaidBack, MoneyOK, Money
<1>3. MoneyOK(m1, customer)
  <2> HIDE DEF m1
  <2> QED BY <1>1 DEF MoneyOK, Money
<1> QED BY <1>2, <1>3

LEMMA OnAccountIsOK ==
  ASSUME NEW m, MoneyOK(m, TRUE), NEW amount \in Int
  PROVE  MoneyOK(OnAccount(m, amount), TRUE)
<1> DEFINE m1 == [m EXCEPT !.subtotal = @ + amount]
            m2 == [m1 EXCEPT !.total = @ + amount]
            m3 == [m2 EXCEPT !.due = AtLeastZero(@ + amount)]
            m4 == [m3 EXCEPT !.ledger = @ + amount]
<1>1. /\ m1 \in Money
      /\ m1.subtotal = m.subtotal + amount /\ m1.total = m.total /\ m1.paid = m.paid
      /\ m1.due = m.due /\ m1.ledger = m.ledger /\ m1.refunded = m.refunded
  BY DEF MoneyOK, Money, AtLeastZero
<1>2. /\ m2 \in Money
      /\ m2.subtotal = m.subtotal + amount /\ m2.total = m.total + amount /\ m2.paid = m.paid
      /\ m2.due = m.due /\ m2.ledger = m.ledger /\ m2.refunded = m.refunded
  <2> HIDE DEF m1
  <2> QED BY <1>1 DEF MoneyOK, Money, AtLeastZero
<1>3. /\ m3 \in Money
      /\ m3.subtotal = m.subtotal + amount /\ m3.total = m.total + amount /\ m3.paid = m.paid
      /\ m3.due = AtLeastZero(m.due + amount) /\ m3.ledger = m.ledger /\ m3.refunded = m.refunded
  <2> HIDE DEF m2
  <2> QED BY <1>2 DEF MoneyOK, Money, AtLeastZero
<1>4. /\ m4 \in Money
      /\ m4.subtotal = m.subtotal + amount /\ m4.total = m.total + amount /\ m4.paid = m.paid
      /\ m4.due = AtLeastZero(m.due + amount) /\ m4.ledger = m.ledger + amount /\ m4.refunded = m.refunded
  <2> HIDE DEF m3
  <2> QED BY <1>3 DEF MoneyOK, Money, AtLeastZero
<1>5. OnAccount(m, amount) = m4
  BY DEF OnAccount, MoneyOK, Money
<1>6. MoneyOK(m4, TRUE)
  <2> HIDE DEF m4
  <2> QED BY <1>4 DEF MoneyOK, Money, AtLeastZero
<1> QED BY <1>5, <1>6

LEMMA OnTheSpotIsOK ==
  ASSUME NEW m, NEW customer \in BOOLEAN, MoneyOK(m, customer), NEW amount \in Int
  PROVE  MoneyOK(OnTheSpot(m, amount), customer)
<1> DEFINE m1 == [m EXCEPT !.subtotal = @ + amount]
            m2 == [m1 EXCEPT !.total = @ + amount]
            m3 == [m2 EXCEPT !.paid = @ + amount]
            m4 == [m3 EXCEPT !.due = AtLeastZero((m.total + amount) - (m.paid + amount))]
<1>1. /\ m1 \in Money
      /\ m1.subtotal = m.subtotal + amount /\ m1.total = m.total /\ m1.paid = m.paid
      /\ m1.due = m.due /\ m1.ledger = m.ledger /\ m1.refunded = m.refunded
  BY DEF MoneyOK, Money, AtLeastZero
<1>2. /\ m2 \in Money
      /\ m2.subtotal = m.subtotal + amount /\ m2.total = m.total + amount /\ m2.paid = m.paid
      /\ m2.due = m.due /\ m2.ledger = m.ledger /\ m2.refunded = m.refunded
  <2> HIDE DEF m1
  <2> QED BY <1>1 DEF MoneyOK, Money, AtLeastZero
<1>3. /\ m3 \in Money
      /\ m3.subtotal = m.subtotal + amount /\ m3.total = m.total + amount /\ m3.paid = m.paid + amount
      /\ m3.due = m.due /\ m3.ledger = m.ledger /\ m3.refunded = m.refunded
  <2> HIDE DEF m2
  <2> QED BY <1>2 DEF MoneyOK, Money, AtLeastZero
<1>4. /\ m4 \in Money
      /\ m4.subtotal = m.subtotal + amount /\ m4.total = m.total + amount /\ m4.paid = m.paid + amount
      /\ m4.due = AtLeastZero((m.total + amount) - (m.paid + amount)) /\ m4.ledger = m.ledger /\ m4.refunded = m.refunded
  <2> HIDE DEF m3
  <2> QED BY <1>3 DEF MoneyOK, Money, AtLeastZero
<1>5. OnTheSpot(m, amount) = m4
  BY DEF OnTheSpot, MoneyOK, Money
<1>6. MoneyOK(m4, customer)
  <2> HIDE DEF m4
  <2> QED BY <1>4 DEF MoneyOK, Money, AtLeastZero
<1> QED BY <1>5, <1>6

LEMMA ReceivedIsOK ==
  ASSUME NEW m, MoneyOK(m, TRUE), NEW amount \in Nat
  PROVE  MoneyOK(Received(m, amount), TRUE)
<1> DEFINE m1 == [m EXCEPT !.paid = @ + Least(amount, m.due)]
            m2 == [m1 EXCEPT !.due = @ - Least(amount, m.due)]
            m3 == [m2 EXCEPT !.ledger = @ - amount]
<1>1. /\ m1 \in Money
      /\ m1.subtotal = m.subtotal /\ m1.total = m.total /\ m1.paid = m.paid + Least(amount, m.due)
      /\ m1.due = m.due /\ m1.ledger = m.ledger /\ m1.refunded = m.refunded
  BY DEF MoneyOK, Money, Least
<1>2. /\ m2 \in Money
      /\ m2.subtotal = m.subtotal /\ m2.total = m.total /\ m2.paid = m.paid + Least(amount, m.due)
      /\ m2.due = m.due - Least(amount, m.due) /\ m2.ledger = m.ledger /\ m2.refunded = m.refunded
  <2> HIDE DEF m1
  <2> QED BY <1>1 DEF MoneyOK, Money, Least
<1>3. /\ m3 \in Money
      /\ m3.subtotal = m.subtotal /\ m3.total = m.total /\ m3.paid = m.paid + Least(amount, m.due)
      /\ m3.due = m.due - Least(amount, m.due) /\ m3.ledger = m.ledger - amount /\ m3.refunded = m.refunded
  <2> HIDE DEF m2
  <2> QED BY <1>2 DEF MoneyOK, Money, Least
<1>4. Received(m, amount) = m3
  BY DEF Received, MoneyOK, Money
<1>5. MoneyOK(m3, TRUE)
  <2> HIDE DEF m3
  <2> QED BY <1>3 DEF MoneyOK, Money, Least
<1> QED BY <1>4, <1>5

LEMMA WrittenOffIsOK ==
  ASSUME NEW m, NEW customer \in BOOLEAN, MoneyOK(m, customer)
  PROVE  MoneyOK(WrittenOff(m, customer), customer)
<1> DEFINE m1 == [m EXCEPT !.due = 0]
            m2 == [m1 EXCEPT !.ledger = @ - m.due]
<1>1. /\ m1 \in Money
      /\ m1.total = m.total /\ m1.paid = m.paid /\ m1.due = 0 /\ m1.ledger = m.ledger
  BY DEF MoneyOK, Money
<1>2. /\ m2 \in Money
      /\ m2.total = m.total /\ m2.paid = m.paid /\ m2.due = 0
      /\ m2.ledger = m.ledger - m.due
  <2> HIDE DEF m1
  <2> QED BY <1>1 DEF MoneyOK, Money
<1>3. WrittenOff(m, customer) = IF customer /\ m.due > 0 THEN m2 ELSE m
  BY DEF WrittenOff, MoneyOK, Money
<1>4. MoneyOK(m2, customer)
  <2> HIDE DEF m2
  <2> QED BY <1>2 DEF MoneyOK, Money
<1> QED BY <1>3, <1>4

-----------------------------------------------------------------------------
(* Documents. *)

LEMMA BalanceIsInt ==
  ASSUME NEW line \in Line
  PROVE  Balance(line) \in Int /\ Held(line) \in Int /\ Outstanding(line) \in Nat
BY DEF Line, Balance, Held, Outstanding, AtLeastZero

LEMMA SaleLogIsOK ==
  ASSUME NEW kind \in {"none", "sold", "added", "more"}, NEW quantity \in Nat, NEW price \in Nat
  PROVE  /\ SaleLog(kind, quantity, price) \in Line
         /\ LineOK(SaleLog(kind, quantity, price), TRUE)
         /\ LineOK(SaleLog(kind, quantity, price), FALSE)
BY DEF SaleLog, Line, LineOK, Balance, Held

LEMMA NewIsOK == ASSUME NEW i, IsNew(i) PROVE InvoiceOK(i)
<1>1. i \in Invoice /\ Open(i) \in BOOLEAN
  BY DEF IsNew, Open
<1>2. i.money \in Money /\ i.customer \in BOOLEAN
  BY <1>1 DEF Invoice
<1>3. MoneyOK(i.money, i.customer)
  BY <1>2 DEF IsNew, Billed, MoneyOK, Money
<1>4. ASSUME NEW l \in Log PROVE LineOK(i.line[l], Open(i))
  <2>1. i.line[l] \in Line
    BY <1>1 DEF Invoice
  <2> DEFINE new == SaleLog(i.line[l].kind, i.line[l].sold, i.line[l].price)
  <2>2. i.line[l] = new
    BY DEF IsNew
  <2>3. LineOK(new, TRUE) /\ LineOK(new, FALSE)
    BY <2>1, SaleLogIsOK DEF Line
  <2>4. LineOK(i.line[l], TRUE) /\ LineOK(i.line[l], FALSE)
    <3> HIDE DEF new
    <3> QED BY <2>2, <2>3
  <2> QED BY <1>1, <2>4
<1> QED BY <1>1, <1>3, <1>4 DEF InvoiceOK

LEMMA CameBackIsOK ==
  ASSUME NEW line \in Line, NEW quantity \in Nat, NEW restock \in BOOLEAN,
         NEW live \in BOOLEAN, LineOK(line, live), quantity <= Outstanding(line)
  PROVE  /\ CameBack(line, quantity, restock) \in Line
         /\ LineOK(CameBack(line, quantity, restock), live)
<1> DEFINE l1 == [line EXCEPT !.returned = @ + quantity]
           l2 == [l1 EXCEPT !.restocked = @ + quantity]
           l3 == [l2 EXCEPT !.out = @ - quantity]
<1>1. /\ l1 \in Line /\ l1.sold = line.sold /\ l1.grown = line.grown
      /\ l1.shrunk = line.shrunk /\ l1.returned = line.returned + quantity
      /\ l1.restocked = line.restocked /\ l1.out = line.out
  BY DEF Line
<1>2. /\ l2 \in Line /\ l2.sold = line.sold /\ l2.grown = line.grown
      /\ l2.shrunk = line.shrunk /\ l2.returned = line.returned + quantity
      /\ l2.restocked = line.restocked + quantity /\ l2.out = line.out
  <2> HIDE DEF l1
  <2> QED BY <1>1 DEF Line
<1>3. /\ l3 \in Line /\ l3.sold = line.sold /\ l3.grown = line.grown
      /\ l3.shrunk = line.shrunk /\ l3.returned = line.returned + quantity
      /\ l3.restocked = line.restocked + quantity /\ l3.out = line.out - quantity
  <2> HIDE DEF l2
  <2> QED BY <1>2 DEF Line
<1>4. CameBack(line, quantity, restock) = IF restock THEN l3 ELSE l1
  BY DEF CameBack, Line
<1>5. LineOK(l1, live) /\ LineOK(l3, live)
  <2> HIDE DEF l1, l3
  <2> QED BY <1>1, <1>3 DEF LineOK, Line, Balance, Held, Outstanding, AtLeastZero
<1> QED BY <1>1, <1>3, <1>4, <1>5

LEMMA ResizedIsOK ==
  ASSUME NEW line \in Line, NEW quantity \in Nat, NEW price \in Nat,
         NEW live \in BOOLEAN, LineOK(line, live)
  PROVE  LET d == quantity - Outstanding(line)
         IN  Resized(line, d, price) \in Line /\ LineOK(Resized(line, d, price), live)
<1> DEFINE d == quantity - Outstanding(line)
           new == Resized(line, d, price)
<1>1. CASE d > 0
  <2> DEFINE l1 == [line EXCEPT !.grown = @ + d]
             l2 == [l1 EXCEPT !.last = price]
  <2>1. d \in Nat
    BY <1>1, BalanceIsInt
  <2>2. /\ l1 \in Line /\ l1.sold = line.sold /\ l1.grown = line.grown + d
        /\ l1.shrunk = line.shrunk /\ l1.returned = line.returned
        /\ l1.restocked = line.restocked /\ l1.out = line.out
    <3> HIDE DEF d
    <3> QED BY <2>1 DEF Line
  <2>3. /\ l2 \in Line /\ l2.sold = line.sold /\ l2.grown = line.grown + d
        /\ l2.shrunk = line.shrunk /\ l2.returned = line.returned
        /\ l2.restocked = line.restocked /\ l2.out = line.out
    <3> HIDE DEF d, l1
    <3> QED BY <2>2 DEF Line
  <2>4. new = l2
    BY <1>1 DEF Resized, Line
  <2>5. LineOK(l2, live)
    <3> HIDE DEF d, l2
    <3> QED BY <2>1, <2>3 DEF LineOK, Line, Balance, Held
  <2> QED BY <2>3, <2>4, <2>5
<1>2. CASE ~(d > 0)
  <2> DEFINE l1 == [line EXCEPT !.shrunk = @ - d]
             l2 == [l1 EXCEPT !.out = @ + d]
             l3 == [l2 EXCEPT !.last = price]
  <2>1. d \in Int /\ -d \in Nat /\ -d <= Outstanding(line) /\ Outstanding(line) \in Nat
    BY <1>2, BalanceIsInt
  <2>2. /\ l1 \in Line /\ l1.sold = line.sold /\ l1.grown = line.grown
        /\ l1.shrunk = line.shrunk - d /\ l1.returned = line.returned
        /\ l1.restocked = line.restocked /\ l1.out = line.out
    <3> HIDE DEF d
    <3> QED BY <2>1 DEF Line
  <2>3. /\ l2 \in Line /\ l2.sold = line.sold /\ l2.grown = line.grown
        /\ l2.shrunk = line.shrunk - d /\ l2.returned = line.returned
        /\ l2.restocked = line.restocked /\ l2.out = line.out + d
    <3> HIDE DEF d, l1
    <3> QED BY <2>1, <2>2 DEF Line
  <2>4. /\ l3 \in Line /\ l3.sold = line.sold /\ l3.grown = line.grown
        /\ l3.shrunk = line.shrunk - d /\ l3.returned = line.returned
        /\ l3.restocked = line.restocked /\ l3.out = line.out + d
    <3> HIDE DEF d, l2
    <3> QED BY <2>3 DEF Line
  <2>5. new = l3
    BY <1>2 DEF Resized, Line
  <2>6. LineOK(l3, live)
    <3> HIDE DEF d, l3
    <3> QED BY <2>1, <2>4 DEF LineOK, Line, Balance, Held, Outstanding, AtLeastZero
  <2> QED BY <2>4, <2>5, <2>6
<1> QED BY <1>1, <1>2

LEMMA PutBackIsOK ==
  ASSUME NEW line \in Line, NEW live \in BOOLEAN, LineOK(line, live)
  PROVE  PutBack(line) \in Line /\ LineOK(PutBack(line), FALSE)
<1> DEFINE new == PutBack(line)
<1>1. /\ new \in Line /\ new.sold = line.sold /\ new.grown = line.grown
      /\ new.shrunk = line.shrunk /\ new.returned = line.returned
  BY DEF PutBack, Line, AtLeastZero
<1>2. LineOK(new, FALSE)
  <2> HIDE DEF new
  <2> QED BY <1>1 DEF LineOK, Balance
<1> QED BY <1>1, <1>2

-----------------------------------------------------------------------------
(* Documents: what stays as it was between the parts of one. *)

Same(i, j) == j.status = i.status /\ j.customer = i.customer

LEMMA OpenIsBoolean == \A i : Open(i) \in BOOLEAN
BY DEF Open

LEMMA WithLineIsOK ==
  ASSUME NEW i, InvoiceOK(i), NEW l \in Log, NEW line \in Line, LineOK(line, Open(i))
  PROVE  LET j == [i EXCEPT !.line[l] = line]
         IN  InvoiceOK(j) /\ Same(i, j) /\ j.money = i.money /\ j.count = i.count
<1> DEFINE j == [i EXCEPT !.line[l] = line]
<1>1. i \in Invoice
  BY DEF InvoiceOK
<1>2. /\ j \in Invoice /\ Same(i, j) /\ j.money = i.money /\ j.count = i.count
      /\ j.line = [i.line EXCEPT ![l] = line]
  BY <1>1 DEF Invoice, Same
<1> HIDE DEF j
<1>3. Open(j) = Open(i)
  BY <1>2 DEF Open, Same
<1>4. \A k \in Log : LineOK(j.line[k], Open(j))
  BY <1>1, <1>2, <1>3 DEF InvoiceOK, Invoice
<1>5. MoneyOK(j.money, j.customer)
  BY <1>2 DEF InvoiceOK, Same
<1>6. InvoiceOK(j)
  BY <1>2, <1>4, <1>5 DEF InvoiceOK
<1> QED BY <1>2, <1>6 DEF j

LEMMA WithMoneyIsOK ==
  ASSUME NEW i, InvoiceOK(i), NEW m, MoneyOK(m, i.customer)
  PROVE  LET j == [i EXCEPT !.money = m]
         IN  InvoiceOK(j) /\ Same(i, j)
<1> DEFINE j == [i EXCEPT !.money = m]
<1>1. i \in Invoice /\ m \in Money
  BY DEF InvoiceOK, MoneyOK
<1>2. j \in Invoice /\ Same(i, j) /\ j.money = m /\ j.line = i.line
  BY <1>1 DEF Invoice, Same
<1> HIDE DEF j
<1>3. InvoiceOK(j)
  BY <1>2 DEF InvoiceOK, Same, Open
<1> QED BY <1>2, <1>3 DEF j

LEMMA WithLogIsOK ==
  ASSUME NEW i, InvoiceOK(i), i.count < MaxLogs,
         NEW log \in Line, LineOK(log, Open(i))
  PROVE  LET j == WithLog(i, log)
         IN  InvoiceOK(j) /\ Same(i, j) /\ j.money = i.money /\ j.count = i.count + 1
<1> DEFINE l == i.count + 1
           k == [i EXCEPT !.line[l] = log]
           j == [k EXCEPT !.count = l]
<1>1. l \in Log /\ l \in 0..MaxLogs
  BY MaxLogsAssumption DEF InvoiceOK, Invoice, Log
<1>2. InvoiceOK(k) /\ Same(i, k) /\ k.money = i.money /\ k.count = i.count
  <2> HIDE DEF l
  <2> QED BY <1>1, WithLineIsOK
<1>3. k \in Invoice
  BY <1>2 DEF InvoiceOK
<1>4. /\ j \in Invoice /\ Same(k, j) /\ j.money = k.money /\ j.count = l
      /\ j.line = k.line
  <2> HIDE DEF l, k
  <2> QED BY <1>1, <1>3 DEF Invoice, Same
<1>5. InvoiceOK(j)
  <2> HIDE DEF j, k
  <2> QED BY <1>2, <1>4 DEF InvoiceOK, Same, Open
<1>6. WithLog(i, log) = j
  BY DEF WithLog, InvoiceOK, Invoice
<1>7. Same(i, j)
  <2> HIDE DEF j, k
  <2> QED BY <1>2, <1>4 DEF Same
<1> QED BY <1>2, <1>4, <1>5, <1>6, <1>7

-----------------------------------------------------------------------------
(* Each document leaves an invoice of which the same holds. *)

ReturnPart == [log : Log \cup {NoLog}, quantity : Nat, restock : BOOLEAN]
ChangePart == [log : Log \cup {NoLog}, quantity : Nat, price : Nat]
AddedPart == [quantity : Nat, price : Nat]

LEMMA RefundIsNat ==
  ASSUME NEW i \in Invoice, NEW r \in ReturnPart, r.log \in Log
  PROVE  Refund(i, r) \in Nat
<1>1. i.line[r.log].price \in Nat /\ r.quantity \in Nat
  BY DEF Invoice, Line, ReturnPart
<1> QED BY <1>1, ProductIsNat DEF Refund

LEMMA ReturnedIsOK ==
  ASSUME NEW i, InvoiceOK(i), NEW r \in ReturnPart, NEW method, NEW allow,
         Returnable(i, r, method, allow)
  PROVE  InvoiceOK(Returned(i, r, method)) /\ Same(i, Returned(i, r, method))
<1> DEFINE line == CameBack(i.line[r.log], r.quantity, r.restock)
           j == [i EXCEPT !.line[r.log] = line]
           m == IF method = "CREDIT" THEN CreditedBack(i.money, Refund(i, r))
                                     ELSE PaidBack(i.money, Refund(i, r))
           k == [j EXCEPT !.money = m]
<1>1. /\ i \in Invoice /\ i.customer \in BOOLEAN /\ MoneyOK(i.money, i.customer)
      /\ r.log \in Log /\ i.line[r.log] \in Line /\ LineOK(i.line[r.log], Open(i))
      /\ r.quantity \in Nat /\ r.restock \in BOOLEAN
      /\ r.quantity <= Outstanding(i.line[r.log])
      /\ method = "CREDIT" => i.customer
  BY DEF InvoiceOK, Invoice, ReturnPart, Returnable, Booked
<1>2. line \in Line /\ LineOK(line, Open(i))
  BY <1>1, OpenIsBoolean, CameBackIsOK
<1>3. InvoiceOK(j) /\ Same(i, j) /\ j.money = i.money
  <2> HIDE DEF line
  <2> QED BY <1>1, <1>2, WithLineIsOK
<1>4. MoneyOK(m, i.customer)
  <2>1. Refund(i, r) \in Nat
    BY <1>1, RefundIsNat
  <2>2. CASE method = "CREDIT"
    <3>1. i.customer = TRUE
      BY <1>1, <2>2
    <3> QED BY <1>1, <2>1, <2>2, <3>1, CreditedBackIsOK
  <2>3. CASE method # "CREDIT"
    BY <1>1, <2>1, <2>3, PaidBackIsOK
  <2> QED BY <2>2, <2>3
<1>5. InvoiceOK(k) /\ Same(j, k)
  <2> HIDE DEF j, m
  <2>1. MoneyOK(m, j.customer)
    BY <1>3, <1>4 DEF Same
  <2> QED BY <1>3, <2>1, WithMoneyIsOK
<1>6. Returned(i, r, method) = k
  BY <1>1 DEF Returned, Invoice
<1>7. Same(i, k)
  <2> HIDE DEF j, k
  <2> QED BY <1>3, <1>5 DEF Same
<1> QED BY <1>5, <1>6, <1>7

LEMMA ChangedIsOK ==
  ASSUME NEW i, InvoiceOK(i), Open(i), NEW c \in ChangePart,
         c.log # NoLog => c.log \in Booked(i),
         NEW logs \in Nat, logs = (IF c.log # NoLog /\ Difference(i, c) > 0 THEN 1 ELSE 0),
         i.count + logs <= MaxLogs
  PROVE  /\ InvoiceOK(Changed(i, c)) /\ Same(i, Changed(i, c))
         /\ Changed(i, c).money = i.money
         /\ Changed(i, c).count = i.count + logs
<1>0. i.count \in Nat
  BY DEF InvoiceOK, Invoice
<1>1. CASE c.log = NoLog
  BY <1>0, <1>1 DEF Changed, Same
<1>2. CASE c.log # NoLog
  <2> DEFINE d == Difference(i, c)
             line == Resized(i.line[c.log], d, c.price)
             j == [i EXCEPT !.line[c.log] = line]
             log == SaleLog("more", d, c.price)
  <2>1. c.log \in Log /\ i.line[c.log] \in Line /\ LineOK(i.line[c.log], Open(i))
        /\ c.quantity \in Nat /\ c.price \in Nat /\ i \in Invoice
    BY <1>2 DEF InvoiceOK, Invoice, ChangePart, Booked
  <2>2. d = c.quantity - Outstanding(i.line[c.log]) /\ d \in Int
    BY <2>1, BalanceIsInt DEF Difference
  <2>3. line \in Line /\ LineOK(line, Open(i))
    BY <2>1, <2>2, OpenIsBoolean, ResizedIsOK
  <2>4. InvoiceOK(j) /\ Same(i, j) /\ j.money = i.money /\ j.count = i.count
    <3> HIDE DEF line
    <3> QED BY <2>1, <2>3, WithLineIsOK
  <2>5. CASE d > 0
    <3>1. log \in Line /\ LineOK(log, TRUE)
      <4>1. d \in Nat
        BY <2>2, <2>5
      <4> HIDE DEF d
      <4> QED BY <4>1, <2>1, SaleLogIsOK
    <3>2. Open(j) = TRUE /\ j.count < MaxLogs
      <4>1. logs = 1
        BY <1>2, <2>5
      <4> HIDE DEF j
      <4> QED BY <2>4, <4>1, <1>0, MaxLogsAssumption DEF Same, Open
    <3>3. /\ InvoiceOK(WithLog(j, log)) /\ Same(j, WithLog(j, log))
          /\ WithLog(j, log).money = j.money /\ WithLog(j, log).count = j.count + 1
      <4> HIDE DEF j, log
      <4> QED BY <2>4, <3>1, <3>2, WithLogIsOK
    <3>4. Changed(i, c) = WithLog(j, log)
      BY <1>2, <2>1, <2>5 DEF Changed, Invoice
    <3>5. logs = 1
      BY <1>2, <2>5
    <3> HIDE DEF j, log
    <3> QED BY <2>4, <3>3, <3>4, <3>5 DEF Same
  <2>6. CASE ~(d > 0)
    <3>1. Changed(i, c) = j
      BY <1>2, <2>1, <2>6 DEF Changed, Invoice
    <3>2. logs = 0
      BY <1>2, <2>6
    <3> HIDE DEF j
    <3> QED BY <1>0, <2>4, <3>1, <3>2
  <2> QED BY <2>5, <2>6
<1> QED BY <1>1, <1>2

LEMMA ExtendedIsOK ==
  ASSUME NEW i, InvoiceOK(i), Open(i), NEW a \in AddedPart,
         a.quantity > 0 => i.count + 1 <= MaxLogs
  PROVE  /\ InvoiceOK(Extended(i, a)) /\ Same(i, Extended(i, a))
         /\ Extended(i, a).money = i.money
<1>1. CASE a.quantity = 0
  BY <1>1 DEF Extended, Same
<1>2. CASE a.quantity # 0
  <2> DEFINE log == SaleLog("added", a.quantity, a.price)
  <2>1. a.quantity \in Nat /\ a.price \in Nat /\ i.count \in Nat
    BY DEF AddedPart, InvoiceOK, Invoice
  <2>2. log \in Line /\ LineOK(log, TRUE)
    BY <2>1, SaleLogIsOK
  <2>3. i.count < MaxLogs /\ Open(i) = TRUE
    BY <1>2, <2>1, OpenIsBoolean, MaxLogsAssumption
  <2>4. Extended(i, a) = WithLog(i, log)
    BY <1>2 DEF Extended
  <2> HIDE DEF log
  <2> QED BY <2>2, <2>3, <2>4, WithLogIsOK
<1> QED BY <1>1, <1>2

LEMMA AmountAdjustIsInt ==
  ASSUME NEW i \in Invoice, NEW c \in ChangePart, NEW a \in AddedPart, NEW manual \in Int
  PROVE  AmountAdjust(i, c, a, manual) \in Int
<1>1. a.quantity * a.price \in Nat
  BY ProductIsNat DEF AddedPart
<1>2. ChangeAmount(i, c) \in Int
  <2>1. CASE c.log = NoLog
    BY <2>1 DEF ChangeAmount
  <2>2. CASE c.log # NoLog
    <3>1. i.line[c.log] \in Line /\ c.quantity \in Nat /\ c.price \in Nat
      BY <2>2 DEF Invoice, ChangePart
    <3>2. i.line[c.log].last \in Nat /\ Outstanding(i.line[c.log]) \in Nat
      BY <3>1, BalanceIsInt DEF Line
    <3>3. /\ c.quantity * c.price \in Nat
          /\ Outstanding(i.line[c.log]) * i.line[c.log].last \in Nat
      BY <3>1, <3>2, ProductIsNat
    <3> QED BY <2>2, <3>3 DEF ChangeAmount
  <2> QED BY <2>1, <2>2
<1> QED BY <1>1, <1>2 DEF AmountAdjust

LEMMA CorrectedIsOK ==
  ASSUME NEW i, InvoiceOK(i), NEW c \in ChangePart, NEW a \in AddedPart,
         NEW manual \in Int, NEW onTheSpot \in BOOLEAN, Correctable(i, c, a, manual)
  PROVE  LET j == Corrected(i, c, a, manual, onTheSpot)
         IN  InvoiceOK(j) /\ Same(i, j)
<1> DEFINE j == Changed(i, c)
           k == Extended(j, a)
           amount == AmountAdjust(i, c, a, manual)
           m == IF amount = 0 THEN k.money
                ELSE IF k.customer /\ ~onTheSpot THEN OnAccount(k.money, amount)
                ELSE OnTheSpot(k.money, amount)
           n == [k EXCEPT !.money = m]
           logs == IF c.log # NoLog /\ Difference(i, c) > 0 THEN 1 ELSE 0
           more == IF a.quantity > 0 THEN 1 ELSE 0
<1>1. /\ Open(i) /\ i.count \in Nat /\ (c.log # NoLog => c.log \in Booked(i))
      /\ i.count + (logs + more) <= MaxLogs
  BY DEF Correctable, LogsOf, InvoiceOK, Invoice
<1>2. logs \in Nat /\ i.count + logs <= MaxLogs
      /\ (a.quantity > 0 => (i.count + logs) + 1 <= MaxLogs)
  BY <1>1, MaxLogsAssumption
<1>3. InvoiceOK(j) /\ Same(i, j) /\ j.money = i.money /\ j.count = i.count + logs
  BY <1>1, <1>2, ChangedIsOK
<1>4. InvoiceOK(k) /\ Same(j, k) /\ k.money = j.money
  <2> HIDE DEF j, logs
  <2>1. Open(j)
    BY <1>1, <1>3 DEF Same, Open
  <2> QED BY <1>2, <1>3, <2>1, ExtendedIsOK
<1>5. MoneyOK(m, k.customer)
  <2>1. amount \in Int
    BY AmountAdjustIsInt DEF InvoiceOK
  <2>2. MoneyOK(k.money, k.customer) /\ k.customer \in BOOLEAN
    BY <1>4 DEF InvoiceOK, Invoice
  <2> HIDE DEF amount, k
  <2>3. CASE amount # 0 /\ k.customer /\ ~onTheSpot
    <3>1. k.customer = TRUE
      BY <2>2, <2>3
    <3> QED BY <2>1, <2>2, <2>3, <3>1, OnAccountIsOK
  <2>4. CASE amount # 0 /\ ~(k.customer /\ ~onTheSpot)
    BY <2>1, <2>2, <2>4, OnTheSpotIsOK
  <2>5. CASE amount = 0
    BY <2>2, <2>5
  <2> QED BY <2>3, <2>4, <2>5
<1>6. InvoiceOK(n) /\ Same(k, n)
  <2> HIDE DEF k, m
  <2> QED BY <1>4, <1>5, WithMoneyIsOK
<1>7. Corrected(i, c, a, manual, onTheSpot) = n
  <2>1. k.customer = i.customer
    <3> HIDE DEF j, k
    <3> QED BY <1>3, <1>4 DEF Same
  <2> QED BY <1>4, <2>1 DEF Corrected, InvoiceOK, Invoice
<1>8. Same(i, n)
  <2> HIDE DEF j, k, n
  <2> QED BY <1>3, <1>4, <1>6 DEF Same
<1> QED BY <1>6, <1>7, <1>8

LEMMA AfterReturnIsOK ==
  ASSUME NEW i, InvoiceOK(i), NEW r \in ReturnPart, NEW method, NEW allow,
         r.quantity > 0 => Returnable(i, r, method, allow)
  PROVE  InvoiceOK(AfterReturn(i, r, method)) /\ Same(i, AfterReturn(i, r, method))
<1>1. CASE r.quantity = 0
  BY <1>1 DEF AfterReturn, Same
<1>2. CASE r.quantity # 0
  <2>1. Returnable(i, r, method, allow)
    BY <1>2 DEF ReturnPart
  <2> QED BY <1>2, <2>1, ReturnedIsOK DEF AfterReturn
<1> QED BY <1>1, <1>2

LEMMA RequestParts ==
  ASSUME NEW r \in Request
  PROVE  /\ r.ret \in ReturnPart /\ r.chg \in ChangePart /\ r.add \in AddedPart
         /\ r.manual \in Int
BY DEF Request, ReturnPart, ChangePart, AddedPart

LEMMA NetIsInt ==
  ASSUME NEW i, InvoiceOK(i), i.customer, NEW r \in Request, Adjustable(i, r)
  PROVE  Net(i, r) \in Int
<1> DEFINE j == AfterReturn(i, r.ret, "CREDIT")
<1>1. InvoiceOK(j)
  <2>1. r.ret.quantity > 0 => Returnable(i, r.ret, "CREDIT", TRUE)
    BY DEF Adjustable, Returnable
  <2> QED BY <2>1, RequestParts, AfterReturnIsOK
<1>2. AmountAdjust(j, r.chg, r.add, r.manual) \in Int
  <2> HIDE DEF j
  <2> QED BY <1>1, RequestParts, AmountAdjustIsInt DEF InvoiceOK
<1>3. Refund(i, r.ret) \in Int
  <2>1. CASE r.ret.quantity = 0
    BY <2>1 DEF Refund
  <2>2. CASE r.ret.quantity # 0
    <3>1. r.ret.log \in Log
      BY <2>2, RequestParts DEF Adjustable, Returnable, Booked, ReturnPart
    <3> QED BY <3>1, RequestParts, RefundIsNat DEF InvoiceOK
  <2> QED BY <2>1, <2>2
<1> QED BY <1>2, <1>3 DEF Net

LEMMA AdjustedIsOK ==
  ASSUME NEW i, InvoiceOK(i), NEW r \in Request, Adjustable(i, r)
  PROVE  InvoiceOK(Adjusted(i, r)) /\ Same(i, Adjusted(i, r))
<1> DEFINE j == AdjustReturned(i, r)
           k == AdjustCorrected(i, r)
           m == Received(k.money, Net(i, r))
           n == [k EXCEPT !.money = m]
<1>1. InvoiceOK(j) /\ Same(i, j)
  BY RequestParts, AfterReturnIsOK DEF AdjustReturned, Adjustable
<1>2. InvoiceOK(k) /\ Same(i, k)
  <2>1. CASE WantsCorrection(r)
    <3>1. k = Corrected(j, r.chg, r.add, r.manual, OnTheSpotFor(i, r))
      BY <2>1 DEF AdjustCorrected
    <3>2. OnTheSpotFor(i, r) \in BOOLEAN /\ Correctable(j, r.chg, r.add, r.manual)
      BY <2>1 DEF OnTheSpotFor, Adjustable, InvoiceOK, Invoice
    <3>3. InvoiceOK(k) /\ Same(j, k)
      <4> HIDE DEF j, k
      <4> QED BY <1>1, <3>1, <3>2, RequestParts, CorrectedIsOK
    <3> HIDE DEF j, k
    <3> QED BY <1>1, <3>3 DEF Same
  <2>2. CASE ~WantsCorrection(r)
    BY <1>1, <2>2 DEF AdjustCorrected
  <2> QED BY <2>1, <2>2
<1>3. CASE ByReceipt(i, r)
  <2>1. i.customer /\ k.customer = TRUE
    <3> HIDE DEF k
    <3> QED BY <1>2, <1>3 DEF ByReceipt, Same, InvoiceOK, Invoice
  <2>2. Net(i, r) \in Nat
    BY <1>3, <2>1, NetIsInt DEF ByReceipt
  <2>3. MoneyOK(m, k.customer)
    <3> HIDE DEF k
    <3> QED BY <1>2, <2>1, <2>2, ReceivedIsOK DEF InvoiceOK
  <2>4. InvoiceOK(n) /\ Same(k, n)
    <3> HIDE DEF k, m
    <3> QED BY <1>2, <2>3, WithMoneyIsOK
  <2>5. Adjusted(i, r) = n
    BY <1>2, <1>3 DEF Adjusted, InvoiceOK, Invoice
  <2> HIDE DEF k, n
  <2> QED BY <1>2, <2>4, <2>5 DEF Same
<1>4. CASE ~ByReceipt(i, r)
  BY <1>2, <1>4 DEF Adjusted
<1> QED BY <1>3, <1>4

LEMMA CancelledIsOK ==
  ASSUME NEW i, InvoiceOK(i)
  PROVE  InvoiceOK(Cancelled(i))
<1> DEFINE lines == [l \in Log |-> PutBack(i.line[l])]
           m == WrittenOff(i.money, i.customer)
           j1 == [i EXCEPT !.status = "CANCELLED"]
           j2 == [j1 EXCEPT !.line = lines]
           j3 == [j2 EXCEPT !.money = m]
<1>1. i \in Invoice /\ MoneyOK(m, i.customer)
  BY WrittenOffIsOK DEF InvoiceOK, Invoice
<1>2. ASSUME NEW l \in Log PROVE lines[l] \in Line /\ LineOK(lines[l], FALSE)
  <2>1. i.line[l] \in Line /\ LineOK(i.line[l], Open(i))
    BY DEF InvoiceOK, Invoice
  <2> QED BY <2>1, OpenIsBoolean, PutBackIsOK
<1>3. lines \in [Log -> Line]
  BY <1>2
<1>4. m \in Money
  BY <1>1 DEF MoneyOK
<1> HIDE DEF lines, m
<1>5. j1 \in Invoice /\ j1.status = "CANCELLED" /\ j1.customer = i.customer
  BY <1>1 DEF Invoice
<1>6. /\ j2 \in Invoice /\ j2.status = "CANCELLED" /\ j2.customer = i.customer
      /\ j2.line = lines
  <2> HIDE DEF j1
  <2> QED BY <1>3, <1>5 DEF Invoice
<1>7. /\ j3 \in Invoice /\ j3.status = "CANCELLED" /\ j3.customer = i.customer
      /\ j3.line = lines /\ j3.money = m
  <2> HIDE DEF j2
  <2> QED BY <1>4, <1>6 DEF Invoice
<1>8. InvoiceOK(j3)
  <2> HIDE DEF j3
  <2>1. Open(j3) = FALSE
    BY <1>7 DEF Open
  <2> QED BY <1>1, <1>2, <1>7, <2>1 DEF InvoiceOK
<1>9. Cancelled(i) = j3
  BY <1>1 DEF Cancelled, Invoice, lines, m
<1> QED BY <1>8, <1>9

LEMMA AppliedIsOK ==
  ASSUME NEW i, InvoiceOK(i), NEW r \in Request, Acceptable(i, r)
  PROVE  InvoiceOK(Applied(i, r)) /\ Open(i)
<1>1. CASE r.kind = "return"
  <2>1. Returnable(i, r.ret, r.method, FALSE)
    BY <1>1 DEF Acceptable
  <2>2. InvoiceOK(Returned(i, r.ret, r.method)) /\ Open(i)
    BY <2>1, RequestParts, ReturnedIsOK DEF Returnable
  <2> QED BY <1>1, <2>2 DEF Applied
<1>2. CASE r.kind = "correct"
  <2>1. Correctable(i, r.chg, r.add, r.manual)
    BY <1>2 DEF Acceptable
  <2>2. InvoiceOK(Corrected(i, r.chg, r.add, r.manual, FALSE)) /\ Open(i)
    BY <2>1, RequestParts, CorrectedIsOK DEF Correctable
  <2> QED BY <1>2, <2>2 DEF Applied
<1>3. CASE r.kind = "adjust"
  <2>1. Adjustable(i, r)
    BY <1>3 DEF Acceptable
  <2>2. InvoiceOK(Adjusted(i, r)) /\ Open(i)
    BY <2>1, AdjustedIsOK DEF Adjustable
  <2> QED BY <1>3, <2>2 DEF Applied
<1>4. CASE r.kind = "cancel"
  BY <1>4, CancelledIsOK DEF Acceptable, Applied, Cancellable, Open
<1> QED BY <1>1, <1>2, <1>3, <1>4 DEF Request

(* What happens to the invoice besides its documents. *)
LEMMA SettledIsOK ==
  ASSUME NEW i, InvoiceOK(i), i.status = "OPEN"
  PROVE  InvoiceOK([i EXCEPT !.status = "CONFIRMED"])
<1> DEFINE j == [i EXCEPT !.status = "CONFIRMED"]
<1>1. /\ j \in Invoice /\ j.status = "CONFIRMED" /\ j.line = i.line
      /\ j.money = i.money /\ j.customer = i.customer
  BY DEF InvoiceOK, Invoice
<1>2. InvoiceOK(j)
  <2> HIDE DEF j
  <2> QED BY <1>1 DEF InvoiceOK, Open
<1> QED BY <1>2

LEMMA PaidIsOK ==
  ASSUME NEW i, InvoiceOK(i), i.customer
  PROVE  LET j == [i EXCEPT !.money = Received(@, 1)]
         IN  InvoiceOK(j) /\ Same(i, j) /\ j.line = i.line /\ j.money.total = i.money.total
<1> DEFINE m == Received(i.money, 1)
           j == [i EXCEPT !.money = m]
<1>1. MoneyOK(m, i.customer) /\ m.total = i.money.total /\ i \in Invoice
  <2>1. i.customer = TRUE /\ i.money \in Money
    BY DEF InvoiceOK, Invoice
  <2> QED BY <2>1, ReceivedIsOK DEF InvoiceOK, Received, Money
<1>2. InvoiceOK(j) /\ Same(i, j) /\ j.money = m /\ j.line = i.line
  <2> HIDE DEF m
  <2> QED BY <1>1, WithMoneyIsOK DEF Invoice
<1> QED BY <1>1, <1>2

-----------------------------------------------------------------------------
(* The requests. *)

LEMMA InitIsOK == Init => IInv
<1> SUFFICES ASSUME Init PROVE IInv
  OBVIOUS
<1>1. InvoiceOK(inv)
  BY InitialAssumption, NewIsOK DEF Init, AInit
<1>2. TypeOK
  BY <1>1 DEF Init, AInit, TypeOK, InvoiceOK, Steps
<1>3. LockOK
  BY DEF Init, AInit, LockOK
<1> QED BY <1>1, <1>2, <1>3 DEF IInv

(* A step of p that leaves the invoice alone. *)
LEMMA OthersStay ==
  ASSUME IInv, NEW p \in Proc, UNCHANGED inv,
         TypeOK',
         at'[p] # "idle" => key'[p] \in Key /\ sent'[key'[p]] \in Requests,
         at'[p] = "write" => lock' = p /\ seen'[p] = inv,
         \A q \in Proc \ {p} :
           at'[q] = at[q] /\ key'[q] = key[q] /\ seen'[q] = seen[q],
         \A k \in Key : sent[k] \in Requests => sent'[k] \in Requests,
         \A q \in Proc \ {p} : lock = q => lock' = q
  PROVE  IInv'
<1>1. InvoiceOK(inv)'
  BY DEF IInv
<1>2. LockOK'
  BY DEF IInv, LockOK
<1> QED BY <1>1, <1>2 DEF IInv

LEMMA NextIsOK == IInv /\ [Next]_vars => IInv'
<1> SUFFICES ASSUME IInv, [Next]_vars PROVE IInv'
  OBVIOUS
<1> USE DEF Go
<1>1. ASSUME NEW p \in Proc, NEW k \in Key, NEW r \in Requests, Arrive(p, k, r) PROVE IInv'
  <2>1. TypeOK'
    BY <1>1 DEF IInv, TypeOK, Arrive, Ask, Steps
  <2> QED BY <1>1, <2>1, OthersStay DEF IInv, TypeOK, Arrive, Ask
<1>2. ASSUME NEW p \in Proc, AnswerExisting(p) PROVE IInv'
  <2>1. TypeOK'
    BY <1>2 DEF IInv, TypeOK, AnswerExisting, Steps
  <2> QED BY <1>2, <2>1, OthersStay DEF IInv, TypeOK, AnswerExisting
<1>3. ASSUME NEW p \in Proc, NotYetThere(p) PROVE IInv'
  <2>1. TypeOK'
    BY <1>3 DEF IInv, TypeOK, NotYetThere, Steps
  <2> QED BY <1>3, <2>1, OthersStay DEF IInv, TypeOK, LockOK, NotYetThere
<1>4. ASSUME NEW p \in Proc, LockInvoice(p) PROVE IInv'
  <2>1. TypeOK'
    BY <1>4 DEF IInv, TypeOK, LockInvoice, Steps
  <2> QED BY <1>4, <2>1, NoProcAssumption, OthersStay
      DEF IInv, TypeOK, LockOK, LockInvoice
<1>5. ASSUME NEW p \in Proc, Commit(p) PROVE IInv'
  <2>1. seen[p] = inv /\ lock = p /\ key[p] \in Key /\ Wanted(p) \in Request
    BY <1>5, RequestsAssumption DEF IInv, LockOK, Commit, Release, Wanted
  <2>2. InvoiceOK(inv')
    <3>1. Acceptable(inv, Wanted(p)) /\ inv' = Applied(inv, Wanted(p))
      BY <1>5, <2>1 DEF Commit
    <3> QED BY <2>1, <3>1, AppliedIsOK DEF IInv
  <2>3. TypeOK'
    BY <1>5, <2>1, <2>2 DEF IInv, TypeOK, InvoiceOK, Commit, Release, Steps
  <2>4. LockOK'
    BY <1>5, <2>1 DEF IInv, TypeOK, LockOK, Commit, Release
  <2> QED BY <2>2, <2>3, <2>4 DEF IInv
<1>6. ASSUME NEW p \in Proc, Refuse(p) \/ AnswerDuplicate(p) PROVE IInv'
  <2>1. TypeOK'
    BY <1>6 DEF IInv, TypeOK, Refuse, AnswerDuplicate, Release, Steps
  <2> QED BY <1>6, <2>1, OthersStay
      DEF IInv, TypeOK, LockOK, Refuse, AnswerDuplicate, Release
<1>7. ASSUME lock = NoProc, UNCHANGED <<sent, done, requests>>, InvoiceOK(inv') PROVE IInv'
  <2>1. TypeOK'
    BY <1>7 DEF IInv, TypeOK, InvoiceOK, requests
  <2>2. LockOK'
    BY <1>7, NoProcAssumption DEF IInv, LockOK, requests
  <2> QED BY <1>7, <2>1, <2>2 DEF IInv
<1>8. CASE SettleAccount
  BY <1>7, <1>8, SettledIsOK DEF SettleAccount, AccountSettled, IInv
<1>9. CASE PayAtCounter
  BY <1>7, <1>9, PaidIsOK DEF PayAtCounter, PaidAtCounter, IInv
<1>10. CASE UNCHANGED vars
  BY <1>10 DEF vars, requests, IInv, TypeOK, LockOK
<1> QED BY <1>1, <1>2, <1>3, <1>4, <1>5, <1>6, <1>8, <1>9, <1>10 DEF Next, Serve

(* TypeOK and the facts about the invoice and its lock hold in every       *)
(* reachable state: a document is checked and written on the invoice as it *)
(* is when its transaction ends.                                           *)
THEOREM Invariance == Spec => []IInv
BY InitIsOK, NextIsOK, PTL DEF Spec

THEOREM TypeIsInvariant == Spec => []TypeOK
BY Invariance, PTL DEF IInv

(* No line of the invoice ever has more pieces taken back than it was sold *)
(* and corrected to.                                                       *)
THEOREM LinesStayAboveZero == Spec => []NoLineBelowZero
<1>1. IInv => NoLineBelowZero
  BY DEF IInv, InvoiceOK, LineOK, NoLineBelowZero
<1> QED BY <1>1, Invariance, PTL

(* Line by line, what a live invoice calls outstanding is what the         *)
(* customer has of it and the quantities by which corrections increased it.*)
THEOREM GoodsAreAccountedFor == Spec => []LinesAccountForGoods
<1>1. ASSUME IInv PROVE LinesAccountForGoods
  <2>1. ASSUME Open(inv), NEW l \in Log
        PROVE  Outstanding(inv.line[l]) = Held(inv.line[l]) + inv.line[l].grown
    <3>1. inv.line[l] \in Line /\ LineOK(inv.line[l], Open(inv))
      BY <1>1 DEF IInv, InvoiceOK, Invoice
    <3>2. Balance(inv.line[l]) >= 0 /\ Balance(inv.line[l]) \in Int
      BY <3>1, BalanceIsInt DEF LineOK
    <3>3. Outstanding(inv.line[l]) = Balance(inv.line[l])
      BY <3>2 DEF Outstanding, AtLeastZero
    <3> QED BY <2>1, <3>1, <3>3 DEF LineOK
  <2> QED BY <2>1 DEF LinesAccountForGoods
<1> QED BY <1>1, Invariance, PTL

(* The due amount of the invoice covers what it left on the ledger.        *)
THEOREM LedgerIsCovered == Spec => []DueCoversLedger
<1>1. IInv => DueCoversLedger
  BY DEF IInv, InvoiceOK, MoneyOK, DueCoversLedger
<1> QED BY <1>1, Invariance, PTL

(* A sale without a customer is settled after every document.              *)
THEOREM WalkInStaysSettled == Spec => []WalkInIsSettled
<1>1. IInv => WalkInIsSettled
  BY DEF IInv, InvoiceOK, MoneyOK, WalkInIsSettled
<1> QED BY <1>1, Invariance, PTL

-----------------------------------------------------------------------------

LEMMA CommitIsPerform ==
  ASSUME IInv, NEW p \in Proc, Commit(p)
  PROVE  /\ key[p] \in Key /\ Perform(key[p])
         /\ InvoiceOK(inv) /\ Open(inv)
<1>1. seen[p] = inv /\ key[p] \in Key /\ sent[key[p]] \in Requests
  BY DEF IInv, LockOK, Commit, Release
<1>2. Perform(key[p])
  <2>1. CASE sent[key[p]] = NoRequest
    BY <1>1, <2>1, RequestsAssumption DEF Request, NoRequest
  <2>2. CASE sent[key[p]] # NoRequest
    BY <1>1, <2>2 DEF Commit, Release, Wanted, Perform
  <2> QED BY <2>1, <2>2
<1>3. Open(inv)
  BY <1>1, RequestsAssumption, AppliedIsOK DEF IInv, Commit, Wanted
<1> QED BY <1>1, <1>2, <1>3 DEF IInv

(* Once cancelled, the invoice's lines, its goods and its total stay.      *)
THEOREM CancellationIsFinal == Spec => CancelledIsClosed
<1>1. ASSUME IInv, [Next]_vars, inv.status = "CANCELLED"
      PROVE  /\ inv'.status = "CANCELLED"
             /\ inv'.line = inv.line
             /\ inv'.money.total = inv.money.total
  <2>1. CASE UNCHANGED inv
    BY <1>1, <2>1
  <2>2. ASSUME NEW p \in Proc, Commit(p) PROVE FALSE
    BY <1>1, <2>2, CommitIsPerform DEF Open
  <2>3. CASE SettleAccount
    BY <1>1, <2>3 DEF SettleAccount, AccountSettled
  <2>4. CASE PayAtCounter
    BY <1>1, <2>4, PaidIsOK DEF PayAtCounter, PaidAtCounter, IInv, Same
  <2> QED BY <1>1, <2>1, <2>2, <2>3, <2>4
      DEF Next, vars, Serve, Arrive, Ask, AnswerExisting, NotYetThere, LockInvoice,
          Refuse, AnswerDuplicate
<1> QED BY <1>1, Invariance, PTL DEF Spec, CancelledIsClosed

(* The requests, their repetitions and the row lock implement documents    *)
(* that take effect at one instant, each at most once.                     *)
THEOREM Refinement == Spec => ImplementsAtomicInvoice
<1>1. Init => AInit
  BY DEF Init
<1>2. ASSUME IInv, [Next]_vars PROVE [ANext]_avars
  <2>1. ASSUME NEW p \in Proc, NEW k \in Key, NEW r \in Requests, Arrive(p, k, r) PROVE ANext
    BY <2>1 DEF Arrive, ANext
  <2>2. ASSUME NEW p \in Proc, Commit(p) PROVE ANext
    BY <1>2, <2>2, CommitIsPerform DEF ANext
  <2>3. CASE SettleAccount \/ PayAtCounter
    BY <2>3 DEF SettleAccount, PayAtCounter, ANext
  <2> QED BY <1>2, <2>1, <2>2, <2>3
      DEF Next, vars, avars, Serve, AnswerExisting, NotYetThere, LockInvoice,
          Refuse, AnswerDuplicate, Release
<1> QED BY <1>1, <1>2, Invariance, PTL DEF Spec, ASpec, ImplementsAtomicInvoice
=============================================================================
