-------------------------- MODULE StockLedgerProofs --------------------------
(***************************************************************************)
(* Proofs about StockLedger, for any products, locations, processes and    *)
(* number of requests: that stock and log agree, that only sales oversell, *)
(* and that transactions that lock their rows in one order, as the         *)
(* comment of common/lock-order.ts has it, never wait in a circle; and that *)
(* a transaction takes effect at one instant, as AtomicStock states it.     *)
(***************************************************************************)
EXTENDS StockLedger, TLAPS, FiniteSetTheorems, WellFoundedInduction, SequenceTheorems

(* The statements that are still in the passes of a transaction. *)
Remaining(passes) == UNION {passes[i] : i \in DOMAIN passes}

Passes == Seq(SUBSET Statement)

-----------------------------------------------------------------------------
(* What the executed statement leaves in the transaction: no new one. *)
LEMMA WithoutRemaining ==
  ASSUME NEW passes \in Passes, passes # << >>, NEW s
  PROVE  /\ Without(passes, s) \in Passes
         /\ Remaining(Without(passes, s)) \subseteq Remaining(passes)
<1> DEFINE rest == Head(passes) \ {s}
<1>1. /\ Head(passes) \in SUBSET Statement
      /\ Tail(passes) \in Passes
      /\ rest \in SUBSET Statement
      /\ rest \subseteq Head(passes)
  BY DEF Passes
<1>2. /\ Head(passes) = passes[1] /\ 1 \in DOMAIN passes
      /\ \A i \in DOMAIN Tail(passes) : Tail(passes)[i] = passes[i+1] /\ i + 1 \in DOMAIN passes
  BY DEF Passes
<1>3. CASE rest = {}
  BY <1>1, <1>2, <1>3 DEF Without, Remaining
<1>4. CASE rest # {}
  <2> DEFINE w == <<rest>> \o Tail(passes)
  <2>1. w \in Passes
    BY <1>1 DEF Passes
  <2>2. \A i \in DOMAIN w : w[i] \subseteq Remaining(passes)
    <3> SUFFICES ASSUME NEW i \in DOMAIN w PROVE w[i] \subseteq Remaining(passes)
      OBVIOUS
    <3>1. CASE i = 1
      BY <3>1, <1>1, <1>2 DEF Remaining, Passes
    <3>2. CASE i # 1
      <4>1. i - 1 \in DOMAIN Tail(passes) /\ w[i] = Tail(passes)[i - 1]
        BY <3>2, <1>1 DEF Passes
      <4>2. w[i] = passes[(i - 1) + 1] /\ (i - 1) + 1 \in DOMAIN passes
        BY <4>1, <1>2
      <4> QED BY <4>2 DEF Remaining
    <3> QED BY <3>1, <3>2
  <2>3. Without(passes, s) = w
    BY <1>4 DEF Without
  <2> HIDE DEF w
  <2> QED BY <2>1, <2>2, <2>3 DEF Remaining
<1> QED BY <1>3, <1>4

(* A pass put in front of a transaction. *)
LEMMA ConsRemaining ==
  ASSUME NEW passes \in Passes, NEW S \in SUBSET Statement
  PROVE  /\ <<S>> \o passes \in Passes
         /\ Remaining(<<S>> \o passes) \subseteq S \cup Remaining(passes)
<1> DEFINE w == <<S>> \o passes
<1>1. w \in Passes
  BY DEF Passes
<1>2. ASSUME NEW i \in DOMAIN w PROVE w[i] \subseteq S \cup Remaining(passes)
  <2>1. CASE i = 1
    BY <2>1 DEF Passes
  <2>2. CASE i # 1
    <3>1. i - 1 \in DOMAIN passes /\ w[i] = passes[i - 1]
      BY <2>2 DEF Passes
    <3> QED BY <3>1 DEF Remaining
  <2> QED BY <2>1, <2>2
<1> HIDE DEF w
<1>3. Remaining(w) \subseteq S \cup Remaining(passes)
  BY <1>2 DEF Remaining
<1> QED BY <1>1, <1>3 DEF w

(* The head of a transaction holds statements that remain. *)
LEMMA HeadRemaining ==
  ASSUME NEW passes \in Passes, passes # << >>
  PROVE  Head(passes) \subseteq Remaining(passes)
BY DEF Passes, Remaining

-----------------------------------------------------------------------------
(* The signs that a transaction of a kind that may not oversell works with: *)
(* it adds, it does not subtract, and it sets rows to natural quantities.  *)
Harmless(s) == s.op \in {"add", "set", "read"} => s.n >= 0

(* A statement whose log row is the change it makes. *)
Delta(s) == s.op \in {"add", "take"}

(* The passes of a single statement. *)
LEMMA SinglePass ==
  ASSUME NEW S \in SUBSET Statement
  PROVE  <<S>> \in Passes /\ Remaining(<<S>>) = S
BY DEF Passes, Remaining

LEMMA TwoPasses ==
  ASSUME NEW S \in SUBSET Statement, NEW T \in SUBSET Statement
  PROVE  <<S, T>> \in Passes /\ Remaining(<<S, T>>) = S \cup T
BY DEF Passes, Remaining

(* The constructors build statements. *)
LEMMA StatementTypes ==
  ASSUME NEW c \in Cell, NEW n \in Int, NEW v \in Int
  PROVE  /\ Add(c, n) \in Statement
         /\ Take(c, n) \in Statement
         /\ Read(c, n) \in Statement
         /\ Negatives(c) \in Statement
         /\ Set(c, n, v) \in Statement
BY DEF Add, Take, Read, Negatives, Set, Statement

(* A line of a document is a positive number on a row of the table. *)
LEMMA DocumentLines ==
  ASSUME NEW d \in Documents
  PROVE  DOMAIN d \subseteq Cell /\ \A c \in DOMAIN d : d[c] \in Int /\ d[c] > 0
BY MaxQuantityAssumption DEF Documents, Quantity

(* What the transactions of each kind consist of. *)
LEMMA RequestStatements ==
  ASSUME NEW k, NEW r, <<k, r>> \in Requests
  PROVE  /\ r \in Passes
         /\ k \notin {"IN", "ADJUST"} => \A s \in Remaining(r) : Delta(s)
         /\ k \notin MaySellUnregistered => \A s \in Remaining(r) : Harmless(s)
         /\ k \in {"RECEIVE", "SALE", "OUT"} => Len(r) = 1 /\ r[1] # {}
<1>1. \/ k = "IN" /\ r \in ClearingReceipts
      \/ k = "RECEIVE" /\ r \in PlainReceipts
      \/ k = "SALE" /\ r \in Invoices
      \/ k = "OUT" /\ r \in Withdrawals
      \/ k = "TRANSFER" /\ r \in Transfers
      \/ k = "ADJUST" /\ r \in Adjustments
      \/ k = "AMEND" /\ r \in Amendments
  BY DEF Requests
<1>2. CASE k = "IN" /\ r \in ClearingReceipts
  <2>1. PICK c \in Cell, q \in Quantity : r = <<{Negatives(c)}, {Add(c, q)}>>
    BY <1>2 DEF ClearingReceipts, Count
  <2>2. q \in Int /\ q > 0
    BY MaxQuantityAssumption DEF Quantity
  <2>3. {Negatives(c)} \in SUBSET Statement /\ {Add(c, q)} \in SUBSET Statement
    BY <2>2, StatementTypes
  <2>4. r \in Passes /\ Remaining(r) = {Negatives(c), Add(c, q)}
    BY <2>1, <2>3, TwoPasses
  <2> QED BY <2>2, <2>4, <1>2 DEF Harmless, Negatives, Add
<1>3. CASE k = "RECEIVE" /\ r \in PlainReceipts
  <2>1. PICK d \in Documents : r = <<{Add(c, d[c]) : c \in DOMAIN d}>>
    BY <1>3 DEF PlainReceipts, Receipt
  <2>2. {Add(c, d[c]) : c \in DOMAIN d} \in SUBSET Statement
    BY DocumentLines, StatementTypes
  <2>3. r \in Passes /\ Remaining(r) = {Add(c, d[c]) : c \in DOMAIN d}
    BY <2>1, <2>2, SinglePass
  <2>4. \A s \in Remaining(r) : Delta(s) /\ Harmless(s)
    BY <2>3, DocumentLines DEF Delta, Harmless, Add
  <2>5. Len(r) = 1 /\ r[1] # {}
    BY <2>1 DEF Documents
  <2> QED BY <2>3, <2>4, <2>5
<1>4. CASE k = "SALE" /\ r \in Invoices
  <2>1. PICK d \in Documents : r = <<{Add(c, -d[c]) : c \in DOMAIN d}>>
    BY <1>4 DEF Invoices, Invoice
  <2>2. {Add(c, -d[c]) : c \in DOMAIN d} \in SUBSET Statement
    BY DocumentLines, StatementTypes
  <2>3. r \in Passes /\ Remaining(r) = {Add(c, -d[c]) : c \in DOMAIN d}
    BY <2>1, <2>2, SinglePass
  <2>4. \A s \in Remaining(r) : Delta(s)
    BY <2>3 DEF Delta, Add
  <2>5. Len(r) = 1 /\ r[1] # {}
    BY <2>1 DEF Documents
  <2> QED BY <2>3, <2>4, <2>5, <1>4 DEF MaySellUnregistered
<1>5. CASE k = "OUT" /\ r \in Withdrawals
  <2>1. PICK d \in Documents : r = <<{Take(c, d[c]) : c \in DOMAIN d}>>
    BY <1>5 DEF Withdrawals, Withdrawal
  <2>2. {Take(c, d[c]) : c \in DOMAIN d} \in SUBSET Statement
    BY DocumentLines, StatementTypes
  <2>3. r \in Passes /\ Remaining(r) = {Take(c, d[c]) : c \in DOMAIN d}
    BY <2>1, <2>2, SinglePass
  <2>4. \A s \in Remaining(r) : Delta(s) /\ Harmless(s)
    BY <2>3 DEF Delta, Harmless, Take
  <2>5. Len(r) = 1 /\ r[1] # {}
    BY <2>1 DEF Documents
  <2> QED BY <2>3, <2>4, <2>5
<1>6. CASE k = "TRANSFER" /\ r \in Transfers
  <2>1. PICK e \in Cell \X Cell, q \in Quantity : r = <<{Take(e[1], q)}, {Add(e[2], q)}>>
    BY <1>6 DEF Transfers, Transfer
  <2>2. e[1] \in Cell /\ e[2] \in Cell /\ q \in Int /\ q > 0
    BY MaxQuantityAssumption DEF Quantity
  <2>3. {Take(e[1], q)} \in SUBSET Statement /\ {Add(e[2], q)} \in SUBSET Statement
    BY <2>2, StatementTypes
  <2>4. r \in Passes /\ Remaining(r) = {Take(e[1], q), Add(e[2], q)}
    BY <2>1, <2>3, TwoPasses
  <2> QED BY <2>2, <2>4, <1>6 DEF Delta, Harmless, Take, Add
<1>7. CASE k = "ADJUST" /\ r \in Adjustments
  <2>1. PICK c \in Cell, n \in Target : r = <<{Read(c, n)}>>
    BY <1>7 DEF Adjustments, Adjustment
  <2>2. n \in Int /\ n >= 0
    BY MaxQuantityAssumption DEF Target
  <2>3. {Read(c, n)} \in SUBSET Statement
    BY <2>2, StatementTypes
  <2>4. r \in Passes /\ Remaining(r) = {Read(c, n)}
    BY <2>1, <2>3, SinglePass
  <2> QED BY <2>2, <2>4, <1>7 DEF Harmless, Read
<1>8. CASE k = "AMEND" /\ r \in Amendments
  <2>1. PICK a \in Cell, n \in Difference, b \in Cell : r = <<{Add(a, n)}, {Add(b, -1)}>>
    BY <1>8 DEF Amendments, Amendment
  <2>2. n \in Int
    BY MaxQuantityAssumption DEF Difference
  <2>3. {Add(a, n)} \in SUBSET Statement /\ {Add(b, -1)} \in SUBSET Statement
    BY <2>2, StatementTypes
  <2>4. r \in Passes /\ Remaining(r) = {Add(a, n), Add(b, -1)}
    BY <2>1, <2>3, TwoPasses
  <2> QED BY <2>4, <1>8 DEF Delta, MaySellUnregistered, Add
<1> QED BY <1>1, <1>2, <1>3, <1>4, <1>5, <1>6, <1>7, <1>8

-----------------------------------------------------------------------------
(* A request being served is of an enabled kind, and is not Idle. *)
LEMMA ServedRequest ==
  ASSUME NEW r \in Served
  PROVE  /\ r = <<r[1], r[2]>> /\ <<r[1], r[2]>> \in Requests
         /\ r[1] \in Kinds /\ r[1] # "idle"
<1>1. r \in Requests /\ r[1] \in Kinds
  BY DEF Served
<1>2. r = <<r[1], r[2]>>
  BY <1>1 DEF Requests
<1>3. r[1] # "idle"
  BY <1>1, KindsAssumption DEF KindNames
<1> QED BY <1>1, <1>2, <1>3

(* Type correctness.  The steps that write a row and the steps that end a  *)
(* transaction are dealt with first.                                       *)
LEMMA NextStatement ==
  ASSUME TypeOK, NEW p \in Proc, NEW s, IsNext(p, s)
  PROVE  /\ request[p][1] # "idle"
         /\ s \in Statement
         /\ s.cell \in Cell /\ s.n \in Int /\ s.seen \in Int
         /\ s \in Remaining(todo[p])
         /\ Without(todo[p], s) \in Passes
         /\ Remaining(Without(todo[p], s)) \subseteq Remaining(todo[p])
<1>1. todo[p] \in Passes /\ todo[p] # << >> /\ request[p][1] # "idle"
  BY DEF TypeOK, IsNext, Passes
<1>2. s \in Head(todo[p]) /\ Head(todo[p]) \subseteq Statement
  BY <1>1 DEF IsNext, Passes
<1>3. s \in Statement
  BY <1>2
<1>4. s.cell \in Cell /\ s.n \in Int /\ s.seen \in Int
  BY <1>3 DEF Statement
<1> QED BY <1>1, <1>2, <1>3, <1>4, HeadRemaining, WithoutRemaining

LEMMA VisibleType ==
  ASSUME TypeOK, NEW p \in Proc, NEW c \in Cell
  PROVE  Visible(p, c) \in Int /\ LoggedBy(p, c) \in Int
BY DEF TypeOK, Visible, LoggedBy

LEMMA WriteType ==
  ASSUME TypeOK, NEW p \in Proc, request[p][1] # "idle",
         NEW c \in Cell, NEW v \in Int, NEW n \in Int, Write(p, c, v, n),
         NEW t \in Passes, todo' = [todo EXCEPT ![p] = t]
  PROVE  TypeOK'
<1>1. LoggedBy(p, c) + n \in Int
  BY VisibleType
<1>2. /\ inventory' = inventory /\ ledger' = ledger /\ request' = request /\ served' = served
      /\ owner' = [owner EXCEPT ![c] = p]
      /\ dirty' = [dirty EXCEPT ![c] = v]
      /\ logged' = [logged EXCEPT ![c] = LoggedBy(p, c) + n]
  BY DEF Write
<1>3. Busy' = Busy
  BY <1>2 DEF Busy
<1>4. owner' \in [Cell -> Busy' \cup {NoProc}]
  BY <1>2, <1>3 DEF TypeOK, Busy
<1>5. dirty' \in [Cell -> Int] /\ logged' \in [Cell -> Int]
  BY <1>1, <1>2 DEF TypeOK
<1>6. todo' \in [Proc -> Seq(SUBSET Statement)]
  BY DEF TypeOK, Passes
<1>7. \A q \in Proc : request'[q][1] = "idle" => todo'[q] = << >>
  BY <1>2 DEF TypeOK
<1> QED BY <1>2, <1>4, <1>5, <1>6, <1>7 DEF TypeOK

LEMMA FinishType ==
  ASSUME TypeOK, NEW p \in Proc, Finish(p),
         inventory' \in [Cell -> Int], ledger' \in [Cell -> Int]
  PROVE  TypeOK'
<1>1. Busy' = Busy \ {p} /\ request' \in [Proc -> Served \cup {Idle}]
  <2>1. Idle[1] = "idle"
    BY DEF Idle
  <2> QED BY <2>1 DEF Finish, Busy, TypeOK
<1>2. owner' \in [Cell -> Busy' \cup {NoProc}]
  BY <1>1 DEF Finish, TypeOK
<1>3. dirty' \in [Cell -> Int] /\ logged' \in [Cell -> Int]
  BY DEF Finish, TypeOK
<1>4. todo' \in [Proc -> Seq(SUBSET Statement)]
  BY DEF Finish, TypeOK
<1>5. \A q \in Proc : request'[q][1] = "idle" => todo'[q] = << >>
  BY DEF Finish, TypeOK
<1> QED BY <1>1, <1>2, <1>3, <1>4, <1>5 DEF TypeOK, Finish

(* A statement that only reads: the rest of its transaction changes. *)
LEMMA ReadType ==
  ASSUME TypeOK, NEW p \in Proc, request[p][1] # "idle",
         NEW t \in Passes, todo' = [todo EXCEPT ![p] = t],
         UNCHANGED <<inventory, ledger, owner, dirty, logged, request, served>>
  PROVE  TypeOK'
<1>1. Busy' = Busy
  BY DEF Busy
<1>2. todo' \in [Proc -> Seq(SUBSET Statement)]
  BY DEF TypeOK, Passes
<1>3. \A q \in Proc : request'[q][1] = "idle" => todo'[q] = << >>
  BY DEF TypeOK
<1> QED BY <1>1, <1>2, <1>3 DEF TypeOK

(* What the reading statements put in front of the transaction. *)
ReadPasses(p, s) ==
  <<{Set(s.cell, s.n, Visible(p, s.cell))}>> \o Without(todo[p], s)

LEMMA ReadPassesType ==
  ASSUME TypeOK, NEW p \in Proc, NEW s, IsNext(p, s)
  PROVE  /\ ReadPasses(p, s) \in Passes
         /\ Remaining(ReadPasses(p, s)) \subseteq
              {Set(s.cell, s.n, Visible(p, s.cell))} \cup Remaining(todo[p])
<1>1. {Set(s.cell, s.n, Visible(p, s.cell))} \in SUBSET Statement
  BY NextStatement, VisibleType, StatementTypes
<1> QED BY <1>1, NextStatement, ConsRemaining DEF ReadPasses

Zeroes(p, c) == {Set(d, 0, Visible(p, d)) : d \in NegativeRows(p, c)}

ZeroPasses(p, s) ==
  IF Zeroes(p, s.cell) = {} THEN Without(todo[p], s)
                            ELSE <<Zeroes(p, s.cell)>> \o Without(todo[p], s)

LEMMA ZeroPassesType ==
  ASSUME TypeOK, NEW p \in Proc, NEW s, IsNext(p, s)
  PROVE  /\ ZeroPasses(p, s) \in Passes
         /\ Remaining(ZeroPasses(p, s)) \subseteq Zeroes(p, s.cell) \cup Remaining(todo[p])
<1>1. NegativeRows(p, s.cell) \subseteq Cell
  BY NextStatement DEF NegativeRows, Cell, SameWarehouse
<1>2. Zeroes(p, s.cell) \in SUBSET Statement
  BY <1>1, VisibleType, StatementTypes DEF Zeroes
<1> QED BY <1>2, NextStatement, ConsRemaining DEF ZeroPasses

LEMMA InitType == Init => TypeOK
BY InitialAssumption DEF Init, TypeOK, Busy

LEMMA BeginType ==
  ASSUME TypeOK, NEW p \in Proc, Begin(p)
  PROVE  TypeOK'
<1>1. PICK r \in Served : /\ request' = [request EXCEPT ![p] = r]
                            /\ todo' = [todo EXCEPT ![p] = r[2]]
  BY DEF Begin
<1>3. r[2] \in Passes
  BY ServedRequest, RequestStatements
<1>4. Busy \subseteq Busy'
  BY <1>1 DEF Begin, Busy, TypeOK
<1>5. r[1] # "idle"
  BY ServedRequest
<1>6. /\ request' \in [Proc -> Served \cup {Idle}]
      /\ todo' \in [Proc -> Seq(SUBSET Statement)]
  BY <1>1, <1>3 DEF TypeOK, Passes
<1>7. \A q \in Proc : request'[q][1] = "idle" => todo'[q] = << >>
  BY <1>1, <1>5 DEF TypeOK
<1>8. served' \in Nat
  BY DEF Begin, TypeOK
<1> QED BY <1>4, <1>6, <1>7, <1>8 DEF TypeOK, Begin

(* A statement of p: it writes a row, fails, or reads. *)
LEMMA ExecType ==
  ASSUME TypeOK, NEW p \in Proc, NEW s,
         \/ ExecAdd(p, s)  \/ ExecTake(p, s) \/ TakeFails(p, s)
         \/ ExecRead(p, s) \/ ExecNegatives(p, s) \/ ExecSet(p, s)
  PROVE  TypeOK'
<1>0. /\ IsNext(p, s)
      /\ request[p][1] # "idle" /\ s.cell \in Cell /\ s.n \in Int /\ s.seen \in Int
      /\ Visible(p, s.cell) \in Int /\ Without(todo[p], s) \in Passes
  <2>1. IsNext(p, s)
    BY DEF ExecAdd, ExecTake, TakeFails, ExecRead, ExecNegatives, ExecSet
  <2> QED BY <2>1, NextStatement, VisibleType
<1>1. CASE ExecAdd(p, s)
  <2>1. Visible(p, s.cell) + s.n \in Int
    BY <1>0
  <2>2. Write(p, s.cell, Visible(p, s.cell) + s.n, s.n)
    BY <1>1 DEF ExecAdd
  <2>3. todo' = [todo EXCEPT ![p] = Without(todo[p], s)]
    BY <1>1 DEF ExecAdd
  <2> QED BY <1>0, <2>1, <2>2, <2>3, WriteType
<1>2. CASE ExecTake(p, s)
  <2>1. Visible(p, s.cell) - s.n \in Int /\ - s.n \in Int
    BY <1>0
  <2>2. Write(p, s.cell, Visible(p, s.cell) - s.n, - s.n)
    BY <1>2 DEF ExecTake
  <2>3. todo' = [todo EXCEPT ![p] = Without(todo[p], s)]
    BY <1>2 DEF ExecTake
  <2> QED BY <1>0, <2>1, <2>2, <2>3, WriteType
<1>3. CASE TakeFails(p, s)
  BY <1>3, FinishType DEF TakeFails, Rollback, TypeOK
<1>4. CASE ExecRead(p, s)
  <2>1. ReadPasses(p, s) \in Passes /\ request[p][1] # "idle"
    BY <1>4, NextStatement, ReadPassesType DEF ExecRead
  <2> QED BY <1>4, <2>1, ReadType DEF ExecRead, ReadPasses
<1>5. CASE ExecNegatives(p, s)
  <2>1. ZeroPasses(p, s) \in Passes /\ request[p][1] # "idle"
    BY <1>5, NextStatement, ZeroPassesType DEF ExecNegatives
  <2> QED BY <1>5, <2>1, ReadType DEF ExecNegatives, ZeroPasses, Zeroes
<1>6. CASE ExecSet(p, s)
  <2>1. s.n - s.seen \in Int
    BY <1>0
  <2>2. Write(p, s.cell, s.n, s.n - s.seen)
    BY <1>6 DEF ExecSet
  <2>3. todo' = [todo EXCEPT ![p] = Without(todo[p], s)]
    BY <1>6 DEF ExecSet
  <2> QED BY <1>0, <2>1, <2>2, <2>3, WriteType
<1> QED BY <1>1, <1>2, <1>3, <1>4, <1>5, <1>6

LEMMA CommitType ==
  ASSUME TypeOK, NEW p \in Proc, Commit(p)
  PROVE  TypeOK'
<1>1. inventory' \in [Cell -> Int] /\ ledger' \in [Cell -> Int]
  BY VisibleType DEF Commit, TypeOK
<1> QED BY <1>1, FinishType DEF Commit

LEMMA RollbackType ==
  ASSUME TypeOK, NEW p \in Proc, Rollback(p)
  PROVE  TypeOK'
BY FinishType DEF Rollback, TypeOK

LEMMA StepType == TypeOK /\ [Next]_vars => TypeOK'
<1> SUFFICES ASSUME TypeOK, [Next]_vars PROVE TypeOK'
  OBVIOUS
<1>1. CASE UNCHANGED vars
  BY <1>1 DEF vars, TypeOK, Busy
<1>2. ASSUME NEW p \in Proc, Begin(p) PROVE TypeOK'
  BY <1>2, BeginType
<1>3. ASSUME NEW p \in Proc, Exec(p) PROVE TypeOK'
  BY <1>3, ExecType DEF Exec
<1>4. ASSUME NEW p \in Proc, Commit(p) PROVE TypeOK'
  BY <1>4, CommitType
<1>5. ASSUME NEW p \in Proc, Abort(p) \/ BreakDeadlock(p) PROVE TypeOK'
  BY <1>5, RollbackType DEF Abort, BreakDeadlock
<1> QED BY <1>1, <1>2, <1>3, <1>4, <1>5 DEF Next

(* Rows, locks and transactions always have the shapes TypeOK states; in   *)
(* particular only a request that is being served holds a lock.            *)
THEOREM TypeCorrect == Spec => []TypeOK
<1> QED BY InitType, StepType, PTL DEF Spec

-----------------------------------------------------------------------------
(* The books.  A transaction that overwrites nothing logs every change it  *)
(* makes, so the version of a row that it wrote differs from the committed *)
(* one by exactly what it logged; the row lock keeps the committed version *)
(* as it is until the transaction ends.                                    *)
Plain(p) == request[p][1] \notin Overwriting

Booking ==
  /\ \A p \in Proc : Plain(p) => \A s \in Remaining(todo[p]) : Delta(s)
  /\ \A p \in Proc, c \in Cell :
       Plain(p) /\ owner[c] = p => dirty[c] = inventory[c] + logged[c]

LEMMA VisibleBooking ==
  ASSUME TypeOK, Booking, NEW p \in Proc, Plain(p), NEW c \in Cell
  PROVE  Visible(p, c) = inventory[c] + LoggedBy(p, c)
BY DEF Booking, Visible, LoggedBy, TypeOK

LEMMA WriteBooking ==
  ASSUME TypeOK, Booking, NEW p \in Proc, NEW c \in Cell, NEW v \in Int, NEW n \in Int,
         Write(p, c, v, n), Plain(p) => v = Visible(p, c) + n,
         NEW t \in Passes, Remaining(t) \subseteq Remaining(todo[p]),
         todo' = [todo EXCEPT ![p] = t]
  PROVE  Booking'
<1>1. ASSUME NEW q \in Proc, Plain(q)', NEW s \in Remaining(todo'[q]) PROVE Delta(s)
  BY <1>1 DEF Booking, Plain, Write, TypeOK
<1>2. ASSUME NEW q \in Proc, NEW d \in Cell, Plain(q)', owner'[d] = q
      PROVE  dirty'[d] = inventory'[d] + logged'[d]
  <2>1. Plain(q) /\ inventory' = inventory
    BY <1>2 DEF Plain, Write
  <2>2. CASE d = c
    <3>1. q = p /\ dirty'[d] = v /\ logged'[d] = LoggedBy(p, c) + n
      BY <1>2, <2>2 DEF Write, TypeOK
    <3>2. Visible(p, c) = inventory[c] + LoggedBy(p, c) /\ v = Visible(p, c) + n
      BY <2>1, <3>1, VisibleBooking
    <3>3. inventory[c] \in Int /\ LoggedBy(p, c) \in Int
      BY VisibleType DEF TypeOK
    <3> QED BY <2>1, <2>2, <3>1, <3>2, <3>3
  <2>3. CASE d # c
    <3>1. owner[d] = q /\ dirty'[d] = dirty[d] /\ logged'[d] = logged[d]
      BY <1>2, <2>3 DEF Write, TypeOK
    <3> QED BY <2>1, <3>1 DEF Booking
  <2> QED BY <2>2, <2>3
<1> QED BY <1>1, <1>2 DEF Booking

LEMMA EmptyRemaining == Remaining(<< >>) = {}
BY DEF Remaining

LEMMA FinishBooking ==
  ASSUME TypeOK, Booking, NEW p \in Proc, Finish(p),
         \A c \in Cell : owner[c] # p => inventory'[c] = inventory[c]
  PROVE  Booking'
<1>1. ASSUME NEW q \in Proc, Plain(q)', NEW s \in Remaining(todo'[q]) PROVE Delta(s)
  <2>1. CASE q = p
    BY <1>1, <2>1, EmptyRemaining DEF Finish, TypeOK
  <2>2. CASE q # p
    BY <1>1, <2>2 DEF Finish, Booking, Plain, TypeOK
  <2> QED BY <2>1, <2>2
<1>2. ASSUME NEW q \in Proc, NEW c \in Cell, Plain(q)', owner'[c] = q
      PROVE  dirty'[c] = inventory'[c] + logged'[c]
  <2>1. owner[c] = q /\ q # p
    BY <1>2, NoProcAssumption DEF Finish
  <2>2. /\ Plain(q) /\ dirty'[c] = dirty[c] /\ logged'[c] = logged[c]
        /\ inventory'[c] = inventory[c]
    BY <1>2, <2>1 DEF Finish, Plain, TypeOK
  <2> QED BY <2>1, <2>2 DEF Booking
<1> QED BY <1>1, <1>2 DEF Booking

(* A reading statement belongs to a transaction that overwrites. *)
LEMMA ReadBooking ==
  ASSUME TypeOK, Booking, NEW p \in Proc, ~ Plain(p), NEW t,
         todo' = [todo EXCEPT ![p] = t],
         UNCHANGED <<inventory, ledger, owner, dirty, logged, request, served>>
  PROVE  Booking'
BY DEF Booking, Plain, TypeOK

LEMMA ExecBooking ==
  ASSUME TypeOK, Booking, NEW p \in Proc, NEW s,
         \/ ExecAdd(p, s)  \/ ExecTake(p, s) \/ TakeFails(p, s)
         \/ ExecRead(p, s) \/ ExecNegatives(p, s) \/ ExecSet(p, s)
  PROVE  Booking'
<1>1. IsNext(p, s)
  BY DEF ExecAdd, ExecTake, TakeFails, ExecRead, ExecNegatives, ExecSet
<1>2. /\ s.cell \in Cell /\ s.n \in Int /\ s.seen \in Int
      /\ Visible(p, s.cell) \in Int
      /\ Without(todo[p], s) \in Passes
      /\ Remaining(Without(todo[p], s)) \subseteq Remaining(todo[p])
  BY <1>1, NextStatement, VisibleType
<1>3. Plain(p) => Delta(s)
  BY <1>1, NextStatement DEF Booking
<1>4. CASE ExecAdd(p, s)
  <2>1. /\ Write(p, s.cell, Visible(p, s.cell) + s.n, s.n)
        /\ todo' = [todo EXCEPT ![p] = Without(todo[p], s)]
    BY <1>4 DEF ExecAdd
  <2>2. Visible(p, s.cell) + s.n \in Int
    BY <1>2
  <2> QED BY <1>2, <2>1, <2>2, WriteBooking
<1>5. CASE ExecTake(p, s)
  <2>1. /\ Write(p, s.cell, Visible(p, s.cell) - s.n, - s.n)
        /\ todo' = [todo EXCEPT ![p] = Without(todo[p], s)]
    BY <1>5 DEF ExecTake
  <2>2. /\ Visible(p, s.cell) - s.n \in Int /\ - s.n \in Int
        /\ Visible(p, s.cell) - s.n = Visible(p, s.cell) + (- s.n)
    BY <1>2
  <2> QED BY <1>2, <2>1, <2>2, WriteBooking
<1>6. CASE TakeFails(p, s)
  BY <1>6, FinishBooking DEF TakeFails, Rollback
<1>7. CASE ExecRead(p, s)
  <2>1. ~ Plain(p)
    BY <1>3, <1>7 DEF ExecRead, Delta
  <2> QED BY <1>7, <2>1, ReadBooking DEF ExecRead
<1>8. CASE ExecNegatives(p, s)
  <2>1. ~ Plain(p)
    BY <1>3, <1>8 DEF ExecNegatives, Delta
  <2> QED BY <1>8, <2>1, ReadBooking DEF ExecNegatives
<1>9. CASE ExecSet(p, s)
  <2>1. ~ Plain(p)
    BY <1>3, <1>9 DEF ExecSet, Delta
  <2>2. /\ Write(p, s.cell, s.n, s.n - s.seen)
        /\ todo' = [todo EXCEPT ![p] = Without(todo[p], s)]
    BY <1>9 DEF ExecSet
  <2>3. s.n - s.seen \in Int
    BY <1>2
  <2> QED BY <1>2, <2>1, <2>2, <2>3, WriteBooking
<1> QED BY <1>4, <1>5, <1>6, <1>7, <1>8, <1>9

LEMMA StepBooking == TypeOK /\ Booking /\ [Next]_vars => Booking'
<1> SUFFICES ASSUME TypeOK, Booking, [Next]_vars PROVE Booking'
  OBVIOUS
<1>1. CASE UNCHANGED vars
  BY <1>1 DEF vars, Booking, Plain
<1>2. ASSUME NEW p \in Proc, Begin(p) PROVE Booking'
  <2>1. PICK r \in Served : /\ request' = [request EXCEPT ![p] = r]
                              /\ todo' = [todo EXCEPT ![p] = r[2]]
    BY <1>2 DEF Begin
  <2>2. r[1] \notin Overwriting => \A s \in Remaining(r[2]) : Delta(s)
    BY ServedRequest, RequestStatements DEF Overwriting
  <2>3. \A c \in Cell : owner[c] # p
    BY <1>2, NoProcAssumption DEF Begin, TypeOK, Busy
  <2>4. \A q \in Proc : Plain(q)' => \A s \in Remaining(todo'[q]) : Delta(s)
    BY <2>1, <2>2 DEF Booking, Plain, TypeOK
  <2>5. \A q \in Proc, c \in Cell : Plain(q)' /\ owner'[c] = q =>
          dirty'[c] = inventory'[c] + logged'[c]
    BY <1>2, <2>1, <2>3 DEF Begin, Booking, Plain, TypeOK
  <2> QED BY <2>4, <2>5 DEF Booking
<1>3. ASSUME NEW p \in Proc, Exec(p) PROVE Booking'
  BY <1>3, ExecBooking DEF Exec
<1>4. ASSUME NEW p \in Proc, Commit(p) PROVE Booking'
  <2>1. \A c \in Cell : owner[c] # p => inventory'[c] = inventory[c]
    BY <1>4 DEF Commit, Visible
  <2> QED BY <1>4, <2>1, FinishBooking DEF Commit
<1>5. ASSUME NEW p \in Proc, Abort(p) \/ BreakDeadlock(p) PROVE Booking'
  BY <1>5, FinishBooking DEF Abort, BreakDeadlock, Rollback
<1> QED BY <1>1, <1>2, <1>3, <1>4, <1>5 DEF Next

(* Only a commit changes what is committed. *)
LEMMA OnlyCommits ==
  ASSUME [Next]_vars, inventory' # inventory \/ ledger' # ledger
  PROVE  \E p \in Proc : Commit(p)
<1>1. Next
  BY DEF vars
<1>2. PICK p \in Proc : \/ Begin(p) \/ Exec(p) \/ Commit(p) \/ Abort(p) \/ BreakDeadlock(p)
  BY <1>1 DEF Next
<1>3. ~ Begin(p)
  BY DEF Begin
<1>4. ~ Exec(p)
  BY DEF Exec, ExecAdd, ExecTake, TakeFails, ExecRead, ExecNegatives, ExecSet, Write, Rollback
<1>5. ~ Abort(p) /\ ~ BreakDeadlock(p)
  BY DEF Abort, BreakDeadlock, Rollback
<1> QED BY <1>2, <1>3, <1>4, <1>5

(* What a step does to the difference of a row and its log. *)
LEMMA StepParts ==
  ASSUME TypeOK, Booking, [Next]_vars, NEW c \in Cell,
         inventory'[c] - ledger'[c] # inventory[c] - ledger[c]
  PROVE  \E p \in Proc : owner[c] = p /\ request[p][1] \in Overwriting
<1>1. inventory' # inventory \/ ledger' # ledger
  OBVIOUS
<1>2. PICK p \in Proc : Commit(p)
  BY <1>1, OnlyCommits
<1>3. inventory'[c] = Visible(p, c) /\ ledger'[c] = ledger[c] + LoggedBy(p, c)
  BY <1>2 DEF Commit
<1>4. /\ inventory[c] \in Int /\ ledger[c] \in Int
      /\ Visible(p, c) \in Int /\ LoggedBy(p, c) \in Int
  BY VisibleType DEF TypeOK
<1>5. owner[c] = p
  <2>1. SUFFICES ASSUME owner[c] # p PROVE FALSE
    OBVIOUS
  <2>2. Visible(p, c) = inventory[c] /\ LoggedBy(p, c) = 0
    BY <2>1 DEF Visible, LoggedBy
  <2> QED BY <1>3, <1>4, <2>2
<1>6. ~ Plain(p)
  <2>1. SUFFICES ASSUME Plain(p) PROVE FALSE
    OBVIOUS
  <2>2. Visible(p, c) = inventory[c] + LoggedBy(p, c)
    BY <2>1, VisibleBooking
  <2> QED BY <1>3, <1>4, <2>2
<1> QED BY <1>5, <1>6 DEF Plain

LEMMA InitBooking == Init => Booking
BY EmptyRemaining, NoProcAssumption DEF Init, Booking

(* With requests of every kind, only the commit of an ADJUST or of a count *)
(* that clears negative rows can part the stock of a row from its log.     *)
THEOREM OnlyOverwritingParts == Spec => PartOnlyByOverwriting
<1>1. TypeOK /\ Booking /\ [Next]_vars =>
        [\A c \in Cell : inventory'[c] - ledger'[c] # inventory[c] - ledger[c]
           => \E p \in Proc : owner[c] = p /\ request[p][1] \in Overwriting]_vars
  BY StepParts
<1> QED BY <1>1, InitBooking, StepBooking, TypeCorrect, PTL DEF Spec, PartOnlyByOverwriting

(* As long as clients send no such request, the stock of every row is the  *)
(* sum of its log in every reachable state.                                *)
THEOREM LedgerCorrect ==
  ASSUME Kinds \cap Overwriting = {}
  PROVE  Spec => []LedgerMatchesStock
<1>1. Init => LedgerMatchesStock
  BY DEF Init, LedgerMatchesStock
<1>2. TypeOK /\ Booking /\ LedgerMatchesStock /\ [Next]_vars => LedgerMatchesStock'
  <2> SUFFICES ASSUME TypeOK, Booking, LedgerMatchesStock, [Next]_vars, NEW c \in Cell
               PROVE  inventory'[c] = ledger'[c]
    BY DEF LedgerMatchesStock
  <2>1. \A p \in Proc : owner[c] = p => request[p][1] \notin Overwriting
    <3> SUFFICES ASSUME NEW p \in Proc, owner[c] = p PROVE request[p][1] \notin Overwriting
      OBVIOUS
    <3>1. request[p][1] # "idle" /\ request[p] \in Served \cup {Idle}
      BY NoProcAssumption DEF TypeOK, Busy
    <3>2. Idle[1] = "idle"
      BY DEF Idle
    <3>3. request[p] \in Served
      BY <3>1, <3>2
    <3>4. request[p][1] \in Kinds
      BY <3>3, ServedRequest
    <3> QED BY <3>4
  <2>2. inventory'[c] - ledger'[c] = inventory[c] - ledger[c]
    BY <2>1, StepParts
  <2>3. inventory'[c] \in Int /\ ledger'[c] \in Int
    BY StepType DEF TypeOK
  <2>4. inventory[c] = ledger[c] /\ inventory[c] \in Int
    BY DEF TypeOK, LedgerMatchesStock
  <2> QED BY <2>2, <2>3, <2>4
<1> QED BY <1>1, <1>2, InitBooking, StepBooking, TypeCorrect, PTL DEF Spec

-----------------------------------------------------------------------------
(* Who may push a row below zero.  A transaction that may not oversell     *)
(* leaves every row it wrote either non-negative or no lower than it found *)
(* it; the lock keeps the committed row as it found it until it commits.   *)
Guarded(p) == request[p][1] \notin MaySellUnregistered

NoOversell ==
  /\ \A p \in Proc : Guarded(p) => \A s \in Remaining(todo[p]) : Harmless(s)
  /\ \A p \in Proc, c \in Cell :
       Guarded(p) /\ owner[c] = p => dirty[c] >= inventory[c] \/ dirty[c] >= 0

LEMMA WriteNoOversell ==
  ASSUME TypeOK, NoOversell, NEW p \in Proc, NEW c \in Cell, NEW v \in Int, NEW n \in Int,
         Write(p, c, v, n), Guarded(p) => v >= Visible(p, c) \/ v >= 0,
         NEW t \in Passes, Remaining(t) \subseteq Remaining(todo[p]),
         todo' = [todo EXCEPT ![p] = t]
  PROVE  NoOversell'
<1>1. ASSUME NEW q \in Proc, Guarded(q)', NEW s \in Remaining(todo'[q]) PROVE Harmless(s)
  BY <1>1 DEF NoOversell, Guarded, Write, TypeOK
<1>2. ASSUME NEW q \in Proc, NEW d \in Cell, Guarded(q)', owner'[d] = q
      PROVE  dirty'[d] >= inventory'[d] \/ dirty'[d] >= 0
  <2>1. Guarded(q) /\ inventory' = inventory
    BY <1>2 DEF Guarded, Write
  <2>2. CASE d = c
    <3>1. q = p /\ dirty'[d] = v
      BY <1>2, <2>2 DEF Write, TypeOK
    <3>2. v >= Visible(p, c) \/ v >= 0
      BY <2>1, <3>1
    <3>3. Visible(p, c) \in Int /\ inventory[c] \in Int
      BY VisibleType DEF TypeOK
    <3>4. Visible(p, c) >= inventory[c] \/ Visible(p, c) >= 0
      BY <2>1, <3>1, <3>3 DEF NoOversell, Visible, TypeOK
    <3> QED BY <2>1, <2>2, <3>1, <3>2, <3>3, <3>4
  <2>3. CASE d # c
    <3>1. owner[d] = q /\ dirty'[d] = dirty[d]
      BY <1>2, <2>3 DEF Write, TypeOK
    <3> QED BY <2>1, <3>1 DEF NoOversell
  <2> QED BY <2>2, <2>3
<1> QED BY <1>1, <1>2 DEF NoOversell

LEMMA FinishNoOversell ==
  ASSUME TypeOK, NoOversell, NEW p \in Proc, Finish(p),
         \A c \in Cell : owner[c] # p => inventory'[c] = inventory[c]
  PROVE  NoOversell'
<1>1. ASSUME NEW q \in Proc, Guarded(q)', NEW s \in Remaining(todo'[q]) PROVE Harmless(s)
  <2>1. CASE q = p
    BY <1>1, <2>1, EmptyRemaining DEF Finish, TypeOK
  <2>2. CASE q # p
    BY <1>1, <2>2 DEF Finish, NoOversell, Guarded, TypeOK
  <2> QED BY <2>1, <2>2
<1>2. ASSUME NEW q \in Proc, NEW c \in Cell, Guarded(q)', owner'[c] = q
      PROVE  dirty'[c] >= inventory'[c] \/ dirty'[c] >= 0
  <2>1. owner[c] = q /\ q # p
    BY <1>2, NoProcAssumption DEF Finish
  <2>2. Guarded(q) /\ dirty'[c] = dirty[c] /\ inventory'[c] = inventory[c]
    BY <1>2, <2>1 DEF Finish, Guarded, TypeOK
  <2> QED BY <2>1, <2>2 DEF NoOversell
<1> QED BY <1>1, <1>2 DEF NoOversell

(* A reading statement leaves the rows alone. *)
LEMMA ReadNoOversell ==
  ASSUME TypeOK, NoOversell, NEW p \in Proc,
         NEW t, Guarded(p) => \A s \in Remaining(t) : Harmless(s),
         todo' = [todo EXCEPT ![p] = t],
         UNCHANGED <<inventory, ledger, owner, dirty, logged, request, served>>
  PROVE  NoOversell'
BY DEF NoOversell, Guarded, TypeOK

LEMMA ExecNoOversell ==
  ASSUME TypeOK, NoOversell, NEW p \in Proc, NEW s,
         \/ ExecAdd(p, s)  \/ ExecTake(p, s) \/ TakeFails(p, s)
         \/ ExecRead(p, s) \/ ExecNegatives(p, s) \/ ExecSet(p, s)
  PROVE  NoOversell'
<1>1. IsNext(p, s)
  BY DEF ExecAdd, ExecTake, TakeFails, ExecRead, ExecNegatives, ExecSet
<1>2. /\ s.cell \in Cell /\ s.n \in Int /\ s.seen \in Int
      /\ Visible(p, s.cell) \in Int
      /\ Without(todo[p], s) \in Passes
      /\ Remaining(Without(todo[p], s)) \subseteq Remaining(todo[p])
  BY <1>1, NextStatement, VisibleType
<1>3. Guarded(p) => Harmless(s)
  BY <1>1, NextStatement DEF NoOversell
<1>4. CASE ExecAdd(p, s)
  <2>1. /\ Write(p, s.cell, Visible(p, s.cell) + s.n, s.n)
        /\ todo' = [todo EXCEPT ![p] = Without(todo[p], s)]
    BY <1>4 DEF ExecAdd
  <2>2. Guarded(p) => Visible(p, s.cell) + s.n >= Visible(p, s.cell)
    BY <1>2, <1>3, <1>4 DEF ExecAdd, Harmless
  <2>3. Visible(p, s.cell) + s.n \in Int
    BY <1>2
  <2> QED BY <1>2, <2>1, <2>2, <2>3, WriteNoOversell
<1>5. CASE ExecTake(p, s)
  <2>1. /\ Write(p, s.cell, Visible(p, s.cell) - s.n, - s.n)
        /\ todo' = [todo EXCEPT ![p] = Without(todo[p], s)]
    BY <1>5 DEF ExecTake
  <2>2. Visible(p, s.cell) - s.n >= 0
    BY <1>2, <1>5 DEF ExecTake
  <2>3. Visible(p, s.cell) - s.n \in Int /\ - s.n \in Int
    BY <1>2
  <2> QED BY <1>2, <2>1, <2>2, <2>3, WriteNoOversell
<1>6. CASE TakeFails(p, s)
  BY <1>6, FinishNoOversell DEF TakeFails, Rollback
<1>7. CASE ExecRead(p, s)
  <2>1. Guarded(p) => Harmless(Set(s.cell, s.n, Visible(p, s.cell)))
    BY <1>3, <1>7 DEF ExecRead, Harmless, Set
  <2>2. Guarded(p) => \A u \in Remaining(ReadPasses(p, s)) : Harmless(u)
    BY <1>1, <2>1, ReadPassesType DEF NoOversell
  <2> QED BY <1>7, <2>2, ReadNoOversell DEF ExecRead, ReadPasses
<1>8. CASE ExecNegatives(p, s)
  <2>1. \A u \in Zeroes(p, s.cell) : Harmless(u)
    BY DEF Zeroes, Harmless, Set
  <2>2. Guarded(p) => \A u \in Remaining(ZeroPasses(p, s)) : Harmless(u)
    BY <1>1, <2>1, ZeroPassesType DEF NoOversell
  <2> QED BY <1>8, <2>2, ReadNoOversell DEF ExecNegatives, ZeroPasses, Zeroes
<1>9. CASE ExecSet(p, s)
  <2>1. /\ Write(p, s.cell, s.n, s.n - s.seen)
        /\ todo' = [todo EXCEPT ![p] = Without(todo[p], s)]
    BY <1>9 DEF ExecSet
  <2>2. Guarded(p) => s.n >= 0
    BY <1>3, <1>9 DEF ExecSet, Harmless
  <2>3. s.n - s.seen \in Int
    BY <1>2
  <2> QED BY <1>2, <2>1, <2>2, <2>3, WriteNoOversell
<1> QED BY <1>4, <1>5, <1>6, <1>7, <1>8, <1>9

LEMMA StepNoOversell == TypeOK /\ NoOversell /\ [Next]_vars => NoOversell'
<1> SUFFICES ASSUME TypeOK, NoOversell, [Next]_vars PROVE NoOversell'
  OBVIOUS
<1>1. CASE UNCHANGED vars
  BY <1>1 DEF vars, NoOversell, Guarded
<1>2. ASSUME NEW p \in Proc, Begin(p) PROVE NoOversell'
  <2>1. PICK r \in Served : /\ request' = [request EXCEPT ![p] = r]
                              /\ todo' = [todo EXCEPT ![p] = r[2]]
    BY <1>2 DEF Begin
  <2>2. /\ r = <<r[1], r[2]>> /\ <<r[1], r[2]>> \in Requests /\ r[1] \in Kinds
    BY ServedRequest
  <2>3. r[1] \notin MaySellUnregistered => \A s \in Remaining(r[2]) : Harmless(s)
    BY <2>2, RequestStatements
  <2>4. \A c \in Cell : owner[c] # p
    BY <1>2, NoProcAssumption DEF Begin, TypeOK, Busy
  <2>5. \A q \in Proc : Guarded(q)' => \A s \in Remaining(todo'[q]) : Harmless(s)
    BY <2>1, <2>3 DEF NoOversell, Guarded, TypeOK
  <2>6. \A q \in Proc, c \in Cell : Guarded(q)' /\ owner'[c] = q =>
          dirty'[c] >= inventory'[c] \/ dirty'[c] >= 0
    BY <1>2, <2>1, <2>4 DEF Begin, NoOversell, Guarded, TypeOK
  <2> QED BY <2>5, <2>6 DEF NoOversell
<1>3. ASSUME NEW p \in Proc, Exec(p) PROVE NoOversell'
  BY <1>3, ExecNoOversell DEF Exec
<1>4. ASSUME NEW p \in Proc, Commit(p) PROVE NoOversell'
  <2>1. \A c \in Cell : owner[c] # p => inventory'[c] = inventory[c]
    BY <1>4 DEF Commit, Visible
  <2> QED BY <1>4, <2>1, FinishNoOversell DEF Commit
<1>5. ASSUME NEW p \in Proc, Abort(p) \/ BreakDeadlock(p) PROVE NoOversell'
  BY <1>5, FinishNoOversell DEF Abort, BreakDeadlock, Rollback
<1> QED BY <1>1, <1>2, <1>3, <1>4, <1>5 DEF Next

(* What a step does to the committed rows, once NoOversell is known. *)
LEMMA StepLowers ==
  ASSUME TypeOK, NoOversell, [Next]_vars, NEW c \in Cell,
         inventory'[c] < inventory[c], inventory'[c] < 0
  PROVE  \E p \in Proc : owner[c] = p /\ request[p][1] \in MaySellUnregistered
<1>1. inventory[c] \in Int /\ dirty[c] \in Int
  BY DEF TypeOK
<1>2. inventory'[c] # inventory[c]
  <2>1. SUFFICES ASSUME inventory'[c] = inventory[c] PROVE FALSE
    OBVIOUS
  <2>2. inventory[c] < inventory[c]
    BY <2>1
  <2> QED BY <1>1, <2>2
<1>3. inventory' # inventory
  BY <1>2
<1>4. PICK p \in Proc : Commit(p)
  BY <1>3, OnlyCommits
<1>5. inventory'[c] = Visible(p, c)
  BY <1>4 DEF Commit
<1>6. owner[c] = p /\ inventory'[c] = dirty[c]
  BY <1>2, <1>5 DEF Visible
<1>7. dirty[c] < inventory[c] /\ dirty[c] < 0
  BY <1>6
<1>8. ~ (dirty[c] >= inventory[c] \/ dirty[c] >= 0)
  BY <1>1, <1>7
<1>9. ~ Guarded(p)
  BY <1>6, <1>8 DEF NoOversell
<1> QED BY <1>6, <1>9 DEF Guarded

(* Only a sale, or the amendment of one, ever commits a row that is lower  *)
(* than before and below zero: no withdrawal and no transfer oversells,    *)
(* however it interleaves with the requests that drain the same row.       *)
THEOREM NegativeOnlyBySaleHolds == Spec => NegativeOnlyBySale
<1>1. Init => NoOversell
  BY EmptyRemaining, NoProcAssumption DEF Init, NoOversell
<1>2. TypeOK /\ NoOversell /\ [Next]_vars => NoOversell'
  BY StepNoOversell
<1>3. TypeOK /\ NoOversell /\ [Next]_vars =>
        [\A c \in Cell : inventory'[c] < inventory[c] /\ inventory'[c] < 0
           => \E p \in Proc : owner[c] = p /\ request[p][1] \in MaySellUnregistered]_vars
  BY StepLowers
<1> QED BY <1>1, <1>2, <1>3, TypeCorrect, PTL DEF Spec, NegativeOnlyBySale

-----------------------------------------------------------------------------
(* p is on its only way through the lines of a document. *)
Walking(p) == request[p][1] \in LockOrdered /\ todo[p] # << >>

(* A walk is one pass of increments and decrements, and the rows it has    *)
(* locked do not come after the rows it still has to lock.                 *)
Ascending ==
  /\ \A p \in Proc : Walking(p) => Len(todo[p]) = 1
  /\ \A p \in Proc : Walking(p) => \A s \in Head(todo[p]) : Delta(s)
  /\ \A p \in Proc, c \in Cell : Walking(p) /\ owner[c] = p
       => \A s \in Head(todo[p]) : ~ Before(s.cell, c)

-----------------------------------------------------------------------------
LEMMA BeforeIsOrder ==
  ASSUME NEW a \in Cell, NEW b \in Cell, NEW c \in Cell
  PROVE  /\ ~ Before(a, a)
         /\ Before(a, b) => ~ Before(b, a)
         /\ Before(a, b) /\ Before(b, c) => Before(a, c)
         /\ a = b \/ Before(a, b) \/ Before(b, a)
<1>1. /\ a[1] \in Nat /\ a[2] \in Nat
      /\ b[1] \in Nat /\ b[2] \in Nat
      /\ c[1] \in Nat /\ c[2] \in Nat
  BY IdsAssumption DEF Cell
<1>5. a = <<a[1], a[2]>> /\ b = <<b[1], b[2]>>
  BY DEF Cell
<1>2. ~ Before(a, a) /\ (Before(a, b) => ~ Before(b, a))
  BY <1>1 DEF Before
<1>3. Before(a, b) /\ Before(b, c) => Before(a, c)
  BY <1>1 DEF Before
<1>4. (a[1] = b[1] /\ a[2] = b[2]) \/ Before(a, b) \/ Before(b, a)
  BY <1>1 DEF Before
<1> QED BY <1>2, <1>3, <1>4, <1>5

(* What is left of a transaction of one pass. *)
LEMMA WithoutSingle ==
  ASSUME NEW passes \in Passes, passes # << >>, Len(passes) = 1, NEW s
  PROVE  \/ Without(passes, s) = << >>
         \/ /\ Len(Without(passes, s)) = 1
            /\ Head(Without(passes, s)) = Head(passes) \ {s}
<1> DEFINE rest == Head(passes) \ {s}
<1>1. Tail(passes) = << >>
  <2>1. Tail(passes) \in Seq(SUBSET Statement) /\ Len(Tail(passes)) = 0
    BY DEF Passes
  <2> QED BY <2>1, EmptySeq
<1>2. rest \in SUBSET Statement
  BY DEF Passes
<1>3. <<rest>> \o << >> = <<rest>>
  BY <1>2
<1>4. Without(passes, s) = IF rest = {} THEN << >> ELSE <<rest>>
  BY <1>1, <1>3 DEF Without
<1> HIDE DEF rest
<1>5. Len(<<rest>>) = 1 /\ Head(<<rest>>) = rest
  OBVIOUS
<1> QED BY <1>4, <1>5 DEF rest

(* A step that leaves the locks alone and the walks of all but p. *)
LEMMA OthersAscending ==
  ASSUME TypeOK, Ascending, NEW p \in Proc, ~ Walking(p)',
         \A d \in Cell : owner'[d] \in {owner[d], p, NoProc},
         \A q \in Proc : q # p => todo'[q] = todo[q] /\ request'[q] = request[q]
  PROVE  Ascending'
<1>1. \A q \in Proc : Walking(q)' => q # p /\ Walking(q) /\ todo'[q] = todo[q]
  BY DEF Walking
<1>2. \A q \in Proc, d \in Cell : q # p /\ owner'[d] = q => owner[d] = q
  BY NoProcAssumption
<1> QED BY <1>1, <1>2 DEF Ascending

LEMMA WriteAscending ==
  ASSUME TypeOK, Ascending, NEW p \in Proc, NEW s, IsNext(p, s),
         NEW v, NEW n, Write(p, s.cell, v, n),
         todo' = [todo EXCEPT ![p] = Without(todo[p], s)]
  PROVE  Ascending'
<1>1. todo[p] \in Passes /\ todo[p] # << >> /\ s.cell \in Cell /\ request' = request
  BY NextStatement DEF IsNext, TypeOK, Passes, Write
<1>2. \A q \in Proc : q # p => todo'[q] = todo[q]
  BY DEF TypeOK
<1>3. CASE request[p][1] \notin LockOrdered
  <2>1. ~ Walking(p)'
    BY <1>1, <1>3 DEF Walking
  <2>2. \A d \in Cell : owner'[d] \in {owner[d], p}
    BY DEF Write, TypeOK
  <2> QED BY <1>1, <1>2, <2>1, <2>2, OthersAscending
<1>4. CASE request[p][1] \in LockOrdered
  <2>1. Walking(p) /\ Len(todo[p]) = 1
    BY <1>1, <1>4 DEF Walking, Ascending
  <2>2. \/ todo'[p] = << >>
        \/ Len(todo'[p]) = 1 /\ Head(todo'[p]) = Head(todo[p]) \ {s}
    BY <1>1, <2>1, WithoutSingle DEF TypeOK
  <2>3. \A q \in Proc : Walking(q)' => Walking(q)
    BY <1>1, <1>2, <2>1 DEF Walking
  <2>4. \A q \in Proc : Walking(q)' => Len(todo'[q]) = 1
    BY <1>2, <2>2, <2>3 DEF Ascending, Walking
  <2>5. \A q \in Proc : Walking(q)' => Head(todo'[q]) \subseteq Head(todo[q])
    BY <1>2, <2>2 DEF Walking
  <2>6. ASSUME NEW q \in Proc, NEW c \in Cell, Walking(q)', owner'[c] = q,
               NEW t \in Head(todo'[q])
        PROVE  ~ Before(t.cell, c)
    <3>1. CASE q = p /\ c = s.cell
      BY <2>5, <2>6, <3>1 DEF IsNext
    <3>2. CASE ~ (q = p /\ c = s.cell)
      <4>1. owner[c] = q
        BY <2>6, <3>2, NoProcAssumption DEF Write, TypeOK
      <4> QED BY <2>3, <2>5, <2>6, <4>1 DEF Ascending
    <3> QED BY <3>1, <3>2
  <2> QED BY <2>3, <2>4, <2>5, <2>6 DEF Ascending
<1> QED BY <1>3, <1>4

LEMMA FinishAscending ==
  ASSUME TypeOK, Ascending, NEW p \in Proc, Finish(p)
  PROVE  Ascending'
<1>1. todo'[p] = << >> /\ \A q \in Proc : q # p => todo'[q] = todo[q] /\ request'[q] = request[q]
  BY DEF Finish, TypeOK
<1>2. \A c \in Cell : owner'[c] \in {owner[c], NoProc}
  BY DEF Finish
<1> QED BY <1>1, <1>2, OthersAscending DEF Walking

(* The unlocked reads only change what their own transaction has to do. *)
LEMMA ReadAscending ==
  ASSUME TypeOK, Ascending, NEW p \in Proc, request[p][1] \notin LockOrdered,
         NEW t, todo' = [todo EXCEPT ![p] = t],
         UNCHANGED <<owner, request>>
  PROVE  Ascending'
<1>1. ~ Walking(p)' /\ \A q \in Proc : q # p => todo'[q] = todo[q]
  BY DEF Walking, TypeOK
<1> QED BY <1>1, OthersAscending

LEMMA StepAscending == TypeOK /\ Ascending /\ [Next]_vars => Ascending'
<1> SUFFICES ASSUME TypeOK, Ascending, [Next]_vars PROVE Ascending'
  OBVIOUS
<1>1. CASE UNCHANGED vars
  BY <1>1 DEF vars, Ascending, Walking
<1>2. ASSUME NEW p \in Proc, Begin(p) PROVE Ascending'
  <2>1. PICK r \in Served : todo' = [todo EXCEPT ![p] = r[2]] /\ request' = [request EXCEPT ![p] = r]
    BY <1>2 DEF Begin
  <2>2. /\ r = <<r[1], r[2]>> /\ <<r[1], r[2]>> \in Requests
    BY ServedRequest
  <2>3. r[1] \in LockOrdered => Len(r[2]) = 1 /\ \A s \in Remaining(r[2]) : Delta(s)
    BY <2>2, RequestStatements DEF LockOrdered
  <2>4. r[2] \in Passes
    BY <2>2, RequestStatements
  <2>5. \A c \in Cell : owner[c] # p
    BY <1>2, NoProcAssumption DEF Begin, TypeOK, Busy
  <2>6. /\ todo'[p] = r[2] /\ request'[p] = r /\ owner' = owner
        /\ \A q \in Proc : q # p => todo'[q] = todo[q] /\ request'[q] = request[q]
    BY <1>2, <2>1 DEF TypeOK, Begin
  <2>7. Walking(p)' => Len(todo'[p]) = 1 /\ \A s \in Head(todo'[p]) : Delta(s)
    BY <2>3, <2>4, <2>6, HeadRemaining DEF Walking
  <2>8. \A q \in Proc : q # p /\ Walking(q)' => Walking(q) /\ todo'[q] = todo[q]
    BY <2>6 DEF Walking
  <2> QED BY <2>5, <2>6, <2>7, <2>8 DEF Ascending
<1>3. ASSUME NEW p \in Proc, Exec(p) PROVE Ascending'
  <2>1. PICK s : \/ ExecAdd(p, s)  \/ ExecTake(p, s) \/ TakeFails(p, s)
                 \/ ExecRead(p, s) \/ ExecNegatives(p, s) \/ ExecSet(p, s)
    BY <1>3 DEF Exec
  <2>2. IsNext(p, s)
    BY <2>1 DEF ExecAdd, ExecTake, TakeFails, ExecRead, ExecNegatives, ExecSet
  <2>3. request[p][1] \in LockOrdered => Delta(s)
    BY <2>2 DEF Ascending, Walking, IsNext
  <2>4. CASE ExecAdd(p, s)
    BY <2>2, <2>4, WriteAscending DEF ExecAdd
  <2>5. CASE ExecTake(p, s)
    BY <2>2, <2>5, WriteAscending DEF ExecTake
  <2>6. CASE TakeFails(p, s)
    BY <2>6, FinishAscending DEF TakeFails, Rollback
  <2>7. CASE ExecRead(p, s)
    <3>1. request[p][1] \notin LockOrdered
      BY <2>3, <2>7 DEF ExecRead, Delta
    <3> QED BY <2>7, <3>1, ReadAscending DEF ExecRead
  <2>8. CASE ExecNegatives(p, s)
    <3>1. request[p][1] \notin LockOrdered
      BY <2>3, <2>8 DEF ExecNegatives, Delta
    <3> QED BY <2>8, <3>1, ReadAscending DEF ExecNegatives
  <2>9. CASE ExecSet(p, s)
    BY <2>2, <2>9, WriteAscending DEF ExecSet
  <2> QED BY <2>1, <2>4, <2>5, <2>6, <2>7, <2>8, <2>9
<1>4. ASSUME NEW p \in Proc, Commit(p) PROVE Ascending'
  BY <1>4, FinishAscending DEF Commit
<1>5. ASSUME NEW p \in Proc, Abort(p) \/ BreakDeadlock(p) PROVE Ascending'
  BY <1>5, FinishAscending DEF Abort, BreakDeadlock, Rollback
<1> QED BY <1>1, <1>2, <1>3, <1>4, <1>5 DEF Next

-----------------------------------------------------------------------------
(* The row a waiting process waits for. *)
WaitsAt(p, c) ==
  \E s \in Head(todo[p]) : IsNext(p, s) /\ s.cell = c /\ owner[c] # NoProc /\ owner[c] # p

(* Whoever waits at a row holds only rows that come before it. *)
LEMMA HoldsBefore ==
  ASSUME TypeOK, Ascending, NEW p \in Proc, Walking(p), NEW c \in Cell, WaitsAt(p, c),
         NEW d \in Cell, owner[d] = p
  PROVE  Before(d, c)
<1>1. PICK s \in Head(todo[p]) : IsNext(p, s) /\ s.cell = c /\ owner[c] # p
  BY DEF WaitsAt
<1>2. ~ Before(c, d)
  BY <1>1 DEF Ascending, IsNext
<1>3. c # d
  BY <1>1
<1> QED BY <1>2, <1>3, BeforeIsOrder

LEMMA WaitsForWaitsAt ==
  ASSUME TypeOK, NEW p \in Proc, NEW q \in Proc, WaitsFor(p, q)
  PROVE  (\E c \in Cell : WaitsAt(p, c) /\ owner[c] = q) /\ todo[p] # << >>
<1>1. PICK s : IsNext(p, s) /\ owner[s.cell] = q /\ q # p
  BY DEF WaitsFor
<1>2. s \in Head(todo[p]) /\ s.cell \in Cell /\ todo[p] # << >>
  BY <1>1, NextStatement DEF IsNext
<1>3. q # NoProc
  BY NoProcAssumption
<1> QED BY <1>1, <1>2, <1>3 DEF WaitsAt

(* Two waits of one process are at the same row. *)
LEMMA WaitsAtUnique ==
  ASSUME TypeOK, NEW p \in Proc, NEW c \in Cell, NEW d \in Cell,
         WaitsAt(p, c), WaitsAt(p, d)
  PROVE  c = d
BY BeforeIsOrder DEF WaitsAt, IsNext

(* Among processes that all wait for one another, follow the waits: the    *)
(* set of those that wait further down shrinks at every step, and cannot   *)
(* shrink for ever.                                                        *)
LEMMA AscendingNoDeadlock ==
  ASSUME IsFiniteSet(Proc), TypeOK, Ascending
  PROVE  LockOrderHolds
<1> SUFFICES ASSUME NEW S \in SUBSET {p \in Proc : request[p][1] \in LockOrdered},
                    Deadlocked(S)
             PROVE  FALSE
  BY DEF LockOrderHolds
<1>0. S \in SUBSET Proc
  OBVIOUS
<1> DEFINE Further(p) == {q \in S : \E c, d \in Cell : WaitsAt(p, c) /\ WaitsAt(q, d) /\ Before(c, d)}
           T == {Further(p) : p \in S}
<1>1. S # {} /\ \A p \in S : \E q \in S : WaitsFor(p, q)
  BY DEF Deadlocked
<1>2. IsFiniteSet(S)
  BY <1>0, FS_Subset
<1>3. IsWellFoundedOn(StrictSubsetOrdering(S), FiniteSubsetsOf(S))
  BY FS_StrictSubsetOrderingWellFounded
<1>4. T \subseteq FiniteSubsetsOf(S) /\ T # {}
  <2>1. ASSUME NEW p \in S PROVE Further(p) \in FiniteSubsetsOf(S)
    <3>1. Further(p) \in SUBSET S
      OBVIOUS
    <3> HIDE DEF Further
    <3>2. IsFiniteSet(Further(p))
      BY <1>2, <3>1, FS_Subset
    <3> QED BY <3>1, <3>2 DEF FiniteSubsetsOf
  <2> HIDE DEF Further
  <2>2. T # {}
    BY <1>1
  <2>3. T \subseteq FiniteSubsetsOf(S)
    BY <2>1
  <2> QED BY <2>2, <2>3
<1>5. PICK x \in T : \A y \in T : ~ (<<y, x>> \in StrictSubsetOrdering(S))
  <2> HIDE DEF T
  <2> QED BY <1>3, <1>4, WFMin
<1>6. PICK p \in S : x = Further(p)
  BY <1>5
<1>7. PICK q \in S : WaitsFor(p, q)
  BY <1>1
<1>8. PICK c \in Cell : WaitsAt(p, c) /\ owner[c] = q
  BY <1>7, WaitsForWaitsAt
<1>9. PICK r \in S : WaitsFor(q, r)
  BY <1>1
<1>10. PICK d \in Cell : WaitsAt(q, d)
  BY <1>9, WaitsForWaitsAt
<1>10a. Walking(q)
  BY <1>9, WaitsForWaitsAt DEF Walking
<1>11. Before(c, d)
  BY <1>8, <1>10, <1>10a, HoldsBefore
<1>12. q \in Further(p)
  BY <1>8, <1>10, <1>11
<1>13. q \notin Further(q)
  BY <1>10, WaitsAtUnique, BeforeIsOrder
<1>14. ASSUME NEW u \in Further(q) PROVE u \in Further(p)
  <2>1. PICK e \in Cell, f \in Cell : WaitsAt(q, e) /\ WaitsAt(u, f) /\ Before(e, f)
    BY <1>14
  <2>2. e = d
    BY <1>10, <2>1, WaitsAtUnique
  <2>3. Before(c, f)
    BY <1>11, <2>1, <2>2, BeforeIsOrder
  <2> QED BY <1>8, <2>1, <2>3
<1>15. Further(q) \in T /\ Further(q) \subseteq S /\ Further(p) \subseteq S
  OBVIOUS
<1> HIDE DEF Further, T
<1>16. <<Further(q), Further(p)>> \in StrictSubsetOrdering(S)
  BY <1>12, <1>13, <1>14, <1>15 DEF StrictSubsetOrdering
<1> QED BY <1>5, <1>6, <1>15, <1>16

(* Requests that walk once, in lock order, through their lines (invoices,  *)
(* returns, purchases and withdrawals) never deadlock among themselves,    *)
(* whatever rows they share, however many run at a time, and whatever the  *)
(* transfers, amendments, counts and corrections beside them do.           *)
THEOREM LockOrderPreventsDeadlock ==
  ASSUME IsFiniteSet(Proc)
  PROVE  Spec => []LockOrderHolds
<1>1. Init => Ascending
  BY DEF Init, Ascending, Walking
<1>2. TypeOK /\ Ascending /\ [Next]_vars => Ascending'
  BY StepAscending
<1>3. TypeOK /\ Ascending => LockOrderHolds
  BY AscendingNoDeadlock
<1> QED BY <1>1, <1>2, <1>3, TypeCorrect, PTL DEF Spec

-----------------------------------------------------------------------------
(***************************************************************************)
(* Transactions and atomic requests.  As long as a request overwrites      *)
(* nothing, its transaction has logged exactly the statements it has       *)
(* executed, so that at its commit it has logged all of them.              *)
(***************************************************************************)
Effect(s) == IF s.op = "take" THEN - s.n ELSE s.n
EffectOn(s, c) == IF s.cell = c THEN Effect(s) ELSE 0

(* The rest of a document of one pass. *)
Pass(S) == IF S = {} THEN << >> ELSE <<S>>

(* p has logged the lines of its document except those that are left. *)
HasLogged(p, lines, left) ==
  \A c \in Cell :
    /\ \A s \in lines : s.cell = c => LoggedBy(p, c) = IF s \in left THEN 0 ELSE Effect(s)
    /\ (\A s \in lines : s.cell # c) => LoggedBy(p, c) = 0

OnePass(p) ==
  \E left \in SUBSET request[p][2][1] :
    todo[p] = Pass(left) /\ HasLogged(p, request[p][2][1], left)

TwoSteps(p) ==
  \E s, t \in Statement :
    /\ request[p][2] = <<{s}, {t}>>
    /\ \/ todo[p] = <<{s}, {t}>> /\ \A c \in Cell : LoggedBy(p, c) = 0
       \/ todo[p] = <<{t}>> /\ \A c \in Cell : LoggedBy(p, c) = EffectOn(s, c)
       \/ todo[p] = << >> /\ \A c \in Cell : LoggedBy(p, c) = EffectOn(s, c) + EffectOn(t, c)

(* The kinds that check the rows they take from: what they have taken was  *)
(* there, so that the row they leave is not negative.                      *)
Checking == {"OUT", "TRANSFER"}

ProgressOf(p) ==
  /\ request[p][1] \in LockOrdered => OnePass(p)
  /\ request[p][1] \in {"TRANSFER", "AMEND"} => TwoSteps(p)
  /\ \A c \in Cell :
       request[p][1] \in Checking /\ owner[c] = p /\ logged[c] < 0 => dirty[c] >= 0

Progress == \A p \in Proc : ProgressOf(p)

(* The lines of a document are on different rows. *)
Distinct(S) == \A s, t \in S : s.cell = t.cell => s = t

(* The two shapes of a request that overwrites nothing: one pass, or two   *)
(* statements one after the other.                                         *)
LEMMA DocumentPass ==
  ASSUME NEW k, NEW r, <<k, r>> \in Requests, k \in LockOrdered
  PROVE  /\ r = <<r[1]>> /\ r[1] # {} /\ r[1] \subseteq Statement
         /\ Distinct(r[1])
<1>1. \/ k = "RECEIVE" /\ r \in PlainReceipts
      \/ k = "SALE" /\ r \in Invoices
      \/ k = "OUT" /\ r \in Withdrawals
  BY DEF Requests, LockOrdered
<1>2. PICK d \in Documents : r \in {Receipt(d), Invoice(d), Withdrawal(d)}
  BY <1>1 DEF PlainReceipts, Invoices, Withdrawals
<1>3. DOMAIN d \subseteq Cell /\ \A c \in DOMAIN d : d[c] \in Int
  BY DocumentLines
<1>4. DOMAIN d # {}
  BY DEF Documents
<1>5. CASE r = Receipt(d)
  <2> DEFINE S == {Add(c, d[c]) : c \in DOMAIN d}
  <2>1. \A c \in DOMAIN d : Add(c, d[c]) \in Statement /\ Add(c, d[c]).cell = c
    BY <1>3, StatementTypes DEF Add
  <2>2. S # {} /\ S \subseteq Statement /\ Distinct(S)
    BY <1>4, <2>1 DEF Distinct
  <2>3. r = <<S>>
    BY <1>5 DEF Receipt
  <2> HIDE DEF S
  <2> QED BY <2>2, <2>3
<1>6. CASE r = Invoice(d)
  <2> DEFINE S == {Add(c, -d[c]) : c \in DOMAIN d}
  <2>1. \A c \in DOMAIN d : Add(c, -d[c]) \in Statement /\ Add(c, -d[c]).cell = c
    BY <1>3, StatementTypes DEF Add
  <2>2. S # {} /\ S \subseteq Statement /\ Distinct(S)
    BY <1>4, <2>1 DEF Distinct
  <2>3. r = <<S>>
    BY <1>6 DEF Invoice
  <2> HIDE DEF S
  <2> QED BY <2>2, <2>3
<1>7. CASE r = Withdrawal(d)
  <2> DEFINE S == {Take(c, d[c]) : c \in DOMAIN d}
  <2>1. \A c \in DOMAIN d : Take(c, d[c]) \in Statement /\ Take(c, d[c]).cell = c
    BY <1>3, StatementTypes DEF Take
  <2>2. S # {} /\ S \subseteq Statement /\ Distinct(S)
    BY <1>4, <2>1 DEF Distinct
  <2>3. r = <<S>>
    BY <1>7 DEF Withdrawal
  <2> HIDE DEF S
  <2> QED BY <2>2, <2>3
<1> QED BY <1>2, <1>5, <1>6, <1>7

LEMMA StepPasses ==
  ASSUME NEW k, NEW r, <<k, r>> \in Requests, k \in {"TRANSFER", "AMEND"}
  PROVE  \E s, t \in Statement : r = <<{s}, {t}>>
<1>1. CASE k = "TRANSFER"
  <2>1. PICK a \in Cell, b \in Cell, q \in Quantity : r = Transfer(a, b, q)
    BY <1>1 DEF Requests, Transfers
  <2>2. Take(a, q) \in Statement /\ Add(b, q) \in Statement
    BY StatementTypes, MaxQuantityAssumption DEF Quantity
  <2> QED BY <2>1, <2>2 DEF Transfer
<1>2. CASE k = "AMEND"
  <2>1. PICK a \in Cell, b \in Cell, n \in Difference : r = Amendment(a, n, b)
    BY <1>2 DEF Requests, Amendments
  <2>2. Add(a, n) \in Statement /\ Add(b, -1) \in Statement
    BY StatementTypes, MaxQuantityAssumption DEF Difference
  <2> QED BY <2>1, <2>2 DEF Amendment
<1> QED BY <1>1, <1>2

(* What is left of a document when one of its statements is executed. *)
LEMMA WithoutPass ==
  ASSUME NEW S \in SUBSET Statement, NEW s \in S
  PROVE  /\ Pass(S) # << >> /\ Head(Pass(S)) = S
         /\ Without(Pass(S), s) = Pass(S \ {s})
<1>1. Pass(S) = <<S>> /\ <<S>> # << >> /\ Head(<<S>>) = S /\ Tail(<<S>>) = << >>
  BY DEF Pass
<1>2. <<S \ {s}>> \o << >> = <<S \ {s}>>
  OBVIOUS
<1> QED BY <1>1, <1>2 DEF Without, Pass

LEMMA WithoutSteps ==
  ASSUME NEW s \in Statement, NEW t \in Statement
  PROVE  /\ Head(<<{s}, {t}>>) = {s} /\ Head(<<{t}>>) = {t}
         /\ Without(<<{s}, {t}>>, s) = <<{t}>>
         /\ Without(<<{t}>>, t) = << >>
<1>1. Tail(<<{s}, {t}>>) = <<{t}>> /\ Tail(<<{t}>>) = << >>
  OBVIOUS
<1>2. {s} \ {s} = {} /\ {t} \ {t} = {}
  OBVIOUS
<1>3. Head(<<{s}, {t}>>) = {s} /\ Head(<<{t}>>) = {t}
  OBVIOUS
<1> QED BY <1>1, <1>2, <1>3 DEF Without

LEMMA InitProgress == Init => Progress
<1>1. Idle[1] = "idle"
  BY DEF Idle
<1> QED BY <1>1, NoProcAssumption DEF Init, Progress, ProgressOf, LockOrdered, Checking

(* What a process has logged changes by its own statements only. *)
LEMMA WriteLogged ==
  ASSUME TypeOK, NEW p \in Proc, NEW c \in Cell, NEW v, NEW n \in Int, Write(p, c, v, n)
  PROVE  /\ \A d \in Cell : LoggedBy(p, d)' = LoggedBy(p, d) + (IF d = c THEN n ELSE 0)
         /\ \A q \in Proc \ {p}, d \in Cell : LoggedBy(q, d)' = LoggedBy(q, d)
<1>1. \A d \in Cell : LoggedBy(p, d) \in Int
  BY VisibleType
<1>2. owner[c] \in {p, NoProc}
  BY DEF Write, Lockable
<1>3. owner' = [owner EXCEPT ![c] = p] /\ logged' = [logged EXCEPT ![c] = LoggedBy(p, c) + n]
  BY DEF Write
<1>4. /\ \A d \in Cell : owner'[d] = IF d = c THEN p ELSE owner[d]
      /\ \A d \in Cell : logged'[d] = IF d = c THEN LoggedBy(p, c) + n ELSE logged[d]
  BY <1>3 DEF TypeOK
<1> QED BY <1>1, <1>2, <1>4, NoProcAssumption DEF LoggedBy

(* The processes a step leaves alone. *)
Untouched(q) ==
  /\ request'[q] = request[q] /\ todo'[q] = todo[q]
  /\ \A c \in Cell : LoggedBy(q, c)' = LoggedBy(q, c)
  /\ \A c \in Cell : owner'[c] = q => owner[c] = q /\ dirty'[c] = dirty[c] /\ logged'[c] = logged[c]

LEMMA UntouchedProgress ==
  ASSUME NEW q \in Proc, ProgressOf(q), Untouched(q)
  PROVE  ProgressOf(q)'
<1>1. request[q][1] \in LockOrdered => OnePass(q)'
  BY DEF ProgressOf, Untouched, OnePass, HasLogged
<1>2. request[q][1] \in {"TRANSFER", "AMEND"} => TwoSteps(q)'
  BY DEF ProgressOf, Untouched, TwoSteps
<1> QED BY <1>1, <1>2 DEF ProgressOf, Untouched

LEMMA RequestOf ==
  ASSUME TypeOK, NEW p \in Proc, request[p][1] # "idle"
  PROVE  /\ request[p] = <<request[p][1], request[p][2]>>
         /\ <<request[p][1], request[p][2]>> \in Requests
         /\ request[p][1] \in Kinds
<1>1. request[p] \in Served
  BY DEF TypeOK, Idle
<1> QED BY <1>1, ServedRequest

(* A statement moves its line from those left to those logged. *)
LEMMA WriteProgress ==
  ASSUME TypeOK, Progress, NoOversell, NEW p \in Proc, NEW s, IsNext(p, s), Delta(s),
         Write(p, s.cell, Visible(p, s.cell) + Effect(s), Effect(s)),
         s.op = "take" => Visible(p, s.cell) >= s.n,
         todo' = [todo EXCEPT ![p] = Without(todo[p], s)]
  PROVE  Progress'
<1> DEFINE kind == request[p][1]
           lines == request[p][2][1]
<1>1. /\ kind # "idle" /\ s \in Statement /\ s.cell \in Cell /\ s.n \in Int
      /\ s \in Remaining(todo[p])
      /\ Effect(s) \in Int
  BY NextStatement DEF Effect
<1>2. /\ \A d \in Cell : LoggedBy(p, d)' = LoggedBy(p, d) + (IF d = s.cell THEN Effect(s) ELSE 0)
      /\ \A q \in Proc \ {p}, d \in Cell : LoggedBy(q, d)' = LoggedBy(q, d)
  BY <1>1, WriteLogged
<1>3. todo[p] # << >> /\ s \in Head(todo[p]) /\ todo'[p] = Without(todo[p], s)
  BY DEF IsNext, TypeOK
<1>4. request' = request
  BY DEF Write
<1>5. \A d \in Cell : LoggedBy(p, d) \in Int
  BY VisibleType
<1>6. <<kind, request[p][2]>> \in Requests
  BY <1>1, RequestOf
<1>7. ASSUME NEW q \in Proc \ {p} PROVE ProgressOf(q)'
  <2>1. Untouched(q)
    BY <1>1, <1>2, <1>4 DEF Untouched, Write, TypeOK
  <2> QED BY <2>1, UntouchedProgress DEF Progress
<1>8. ASSUME kind \in LockOrdered PROVE OnePass(p)'
  <2>1. lines \subseteq Statement /\ Distinct(lines)
    BY <1>6, <1>8, DocumentPass
  <2>2. PICK left \in SUBSET lines : todo[p] = Pass(left) /\ HasLogged(p, lines, left)
    BY <1>8 DEF Progress, ProgressOf, OnePass
  <2>3. left # {}
    BY <1>3, <2>2 DEF Pass
  <2>4. s \in left
    BY <1>3, <2>1, <2>2, <2>3, WithoutPass
  <2>5. todo'[p] = Pass(left \ {s})
    BY <1>3, <2>1, <2>2, <2>4, WithoutPass
  <2>6. HasLogged(p, lines, left \ {s})'
    <3> SUFFICES ASSUME NEW c \in Cell
                 PROVE  /\ \A t \in lines : t.cell = c =>
                             LoggedBy(p, c)' = IF t \in left \ {s} THEN 0 ELSE Effect(t)
                        /\ (\A t \in lines : t.cell # c) => LoggedBy(p, c)' = 0
      BY <1>4 DEF HasLogged
    <3>1. ASSUME NEW t \in lines, t.cell = c, t = s
          PROVE  LoggedBy(p, c)' = IF t \in left \ {s} THEN 0 ELSE Effect(t)
      <4>1. LoggedBy(p, c) = 0
        BY <2>2, <2>4, <3>1 DEF HasLogged
      <4>2. LoggedBy(p, c)' = LoggedBy(p, c) + Effect(s)
        BY <1>2, <3>1
      <4> QED BY <1>1, <3>1, <4>1, <4>2
    <3>2. ASSUME NEW t \in lines, t.cell = c, t # s
          PROVE  LoggedBy(p, c)' = IF t \in left \ {s} THEN 0 ELSE Effect(t)
      <4>1. s.cell # c
        BY <2>1, <2>4, <3>2 DEF Distinct
      <4>2. LoggedBy(p, c)' = LoggedBy(p, c)
        BY <1>2, <1>5, <4>1
      <4> QED BY <2>2, <3>2, <4>2 DEF HasLogged
    <3>3. ASSUME \A t \in lines : t.cell # c PROVE LoggedBy(p, c)' = 0
      <4>1. s.cell # c
        BY <2>4, <3>3
      <4> QED BY <1>2, <2>2, <3>3, <4>1 DEF HasLogged
    <3> QED BY <3>1, <3>2, <3>3
  <2> QED BY <1>4, <2>5, <2>6 DEF OnePass
<1>9. ASSUME kind \in {"TRANSFER", "AMEND"} PROVE TwoSteps(p)'
  <2>1. PICK a \in Statement, b \in Statement :
          /\ request[p][2] = <<{a}, {b}>>
          /\ \/ todo[p] = <<{a}, {b}>> /\ \A c \in Cell : LoggedBy(p, c) = 0
             \/ todo[p] = <<{b}>> /\ \A c \in Cell : LoggedBy(p, c) = EffectOn(a, c)
             \/ /\ todo[p] = << >>
                /\ \A c \in Cell : LoggedBy(p, c) = EffectOn(a, c) + EffectOn(b, c)
    BY <1>9 DEF Progress, ProgressOf, TwoSteps
  <2>2. CASE todo[p] = <<{a}, {b}>> /\ \A c \in Cell : LoggedBy(p, c) = 0
    <3>0. Head(<<{a}, {b}>>) = {a} /\ Without(<<{a}, {b}>>, a) = <<{b}>>
      BY WithoutSteps
    <3>1. s = a
      BY <1>3, <2>2, <3>0
    <3>1a. todo'[p] = <<{b}>>
      BY <1>3, <2>2, <3>0, <3>1
    <3>2. \A c \in Cell : LoggedBy(p, c)' = EffectOn(a, c)
      BY <1>1, <1>2, <2>2, <3>1 DEF EffectOn
    <3> QED BY <1>4, <2>1, <3>1a, <3>2 DEF TwoSteps, EffectOn, Effect
  <2>3. CASE todo[p] = <<{b}>> /\ \A c \in Cell : LoggedBy(p, c) = EffectOn(a, c)
    <3>0. Head(<<{b}>>) = {b} /\ Without(<<{b}>>, b) = << >>
      BY WithoutSteps
    <3>1. s = b
      BY <1>3, <2>3, <3>0
    <3>1a. todo'[p] = << >>
      BY <1>3, <2>3, <3>0, <3>1
    <3>2. \A c \in Cell : LoggedBy(p, c)' = EffectOn(a, c) + EffectOn(b, c)
      BY <1>1, <1>2, <2>3, <3>1 DEF EffectOn
    <3> QED BY <1>4, <2>1, <3>1a, <3>2 DEF TwoSteps, EffectOn, Effect
  <2> QED BY <1>3, <2>1, <2>2, <2>3
<1>10. ASSUME NEW c \in Cell, kind \in Checking, owner'[c] = p, logged'[c] < 0
       PROVE  dirty'[c] >= 0
  <2>1. CASE c # s.cell
    <3>1. owner[c] = p /\ logged[c] < 0 /\ dirty'[c] = dirty[c]
      BY <1>10, <2>1 DEF Write, TypeOK
    <3> QED BY <1>10, <3>1 DEF Progress, ProgressOf
  <2>2. CASE c = s.cell
    <3>1. /\ dirty'[c] = Visible(p, c) + Effect(s) /\ logged'[c] = LoggedBy(p, c) + Effect(s)
          /\ Visible(p, c) \in Int /\ LoggedBy(p, c) \in Int
      BY <1>1, <2>2, VisibleType DEF Write, TypeOK
    <3>2. CASE s.op = "take"
      BY <1>1, <2>2, <3>1, <3>2 DEF Effect
    <3>3. CASE s.op # "take"
      <4>1. s.op = "add" /\ Effect(s) = s.n
        BY <3>3 DEF Delta, Effect
      <4>2. s.n >= 0
        BY <1>1, <1>10, <4>1 DEF NoOversell, Guarded, Harmless, Checking, MaySellUnregistered
      <4>3. LoggedBy(p, c) < 0
        BY <1>1, <1>10, <3>1, <4>1, <4>2
      <4>4. owner[c] = p /\ logged[c] < 0 /\ Visible(p, c) = dirty[c]
        BY <4>3 DEF LoggedBy, Visible
      <4>5. dirty[c] >= 0
        BY <1>10, <4>4 DEF Progress, ProgressOf
      <4> QED BY <1>1, <3>1, <4>1, <4>2, <4>4, <4>5
    <3> QED BY <3>2, <3>3
  <2> QED BY <2>1, <2>2
<1>11. ProgressOf(p)'
  BY <1>4, <1>8, <1>9, <1>10 DEF ProgressOf
<1> QED BY <1>7, <1>11 DEF Progress

(* The end of a transaction leaves the others alone, and its process idle. *)
LEMMA FinishProgress ==
  ASSUME TypeOK, Progress, NEW p \in Proc, Finish(p)
  PROVE  Progress'
<1>1. ASSUME NEW q \in Proc \ {p} PROVE ProgressOf(q)'
  <2>1. request'[q] = request[q] /\ todo'[q] = todo[q]
    BY DEF Finish, TypeOK
  <2>2. \A c \in Cell : LoggedBy(q, c)' = LoggedBy(q, c)
    BY NoProcAssumption DEF Finish, LoggedBy, TypeOK
  <2>3. \A c \in Cell : owner'[c] = q =>
          owner[c] = q /\ dirty'[c] = dirty[c] /\ logged'[c] = logged[c]
    BY NoProcAssumption DEF Finish, TypeOK
  <2>4. Untouched(q)
    BY <2>1, <2>2, <2>3 DEF Untouched
  <2> QED BY <2>4, UntouchedProgress DEF Progress
<1>2. ProgressOf(p)'
  <2>1. Idle[1] = "idle" /\ request'[p] = Idle
    BY DEF Idle, Finish, TypeOK
  <2> QED BY <2>1 DEF ProgressOf, LockOrdered, Checking
<1> QED BY <1>1, <1>2 DEF Progress

(* A request that arrives holds no row yet, and has logged nothing. *)
LEMMA BeginProgress ==
  ASSUME TypeOK, Progress, NEW p \in Proc, Begin(p)
  PROVE  Progress'
<1>1. PICK r \in Served : /\ request' = [request EXCEPT ![p] = r]
                            /\ todo' = [todo EXCEPT ![p] = r[2]]
  BY DEF Begin
<1>2. request'[p] = r /\ todo'[p] = r[2] /\ <<r[1], r[2]>> \in Requests
  BY <1>1, ServedRequest DEF TypeOK
<1>3. UNCHANGED <<inventory, ledger, owner, dirty, logged>>
  BY DEF Begin
<1>4. \A c \in Cell : owner[c] # p
  BY NoProcAssumption DEF Begin, TypeOK, Busy
<1>5. \A c \in Cell : LoggedBy(p, c)' = 0
  BY <1>3, <1>4 DEF LoggedBy
<1>6. ASSUME NEW q \in Proc \ {p} PROVE ProgressOf(q)'
  <2>1. request'[q] = request[q] /\ todo'[q] = todo[q]
    BY <1>1 DEF TypeOK
  <2>2. Untouched(q)
    BY <1>3, <2>1 DEF Untouched, LoggedBy
  <2> QED BY <2>2, UntouchedProgress DEF Progress
<1>7. ASSUME r[1] \in LockOrdered PROVE OnePass(p)'
  <2> DEFINE lines == r[2][1]
  <2>1. r[2] = <<lines>> /\ lines # {}
    BY <1>2, <1>7, DocumentPass
  <2>2. todo'[p] = Pass(lines)
    BY <1>2, <2>1 DEF Pass
  <2>3. HasLogged(p, lines, lines)'
    BY <1>5 DEF HasLogged
  <2> QED BY <1>2, <2>2, <2>3 DEF OnePass
<1>8. ASSUME r[1] \in {"TRANSFER", "AMEND"} PROVE TwoSteps(p)'
  <2>1. PICK s \in Statement, t \in Statement : r[2] = <<{s}, {t}>>
    BY <1>2, <1>8, StepPasses
  <2> QED BY <1>2, <1>5, <2>1 DEF TwoSteps
<1>9. ProgressOf(p)'
  BY <1>2, <1>3, <1>4, <1>7, <1>8 DEF ProgressOf
<1> QED BY <1>6, <1>9 DEF Progress

(* With requests that overwrite nothing, every statement adds or takes. *)
LEMMA ServedPlain ==
  ASSUME Kinds \cap Overwriting = {}, TypeOK, NEW p \in Proc, request[p][1] # "idle"
  PROVE  Plain(p)
BY RequestOf DEF Plain

LEMMA ExecProgress ==
  ASSUME Kinds \cap Overwriting = {}, TypeOK, Booking, NoOversell, Progress,
         NEW p \in Proc, NEW s,
         \/ ExecAdd(p, s)  \/ ExecTake(p, s) \/ TakeFails(p, s)
         \/ ExecRead(p, s) \/ ExecNegatives(p, s) \/ ExecSet(p, s)
  PROVE  Progress'
<1>1. IsNext(p, s)
  BY DEF ExecAdd, ExecTake, TakeFails, ExecRead, ExecNegatives, ExecSet
<1>2. s \in Remaining(todo[p]) /\ request[p][1] # "idle" /\ s.n \in Int /\ s.cell \in Cell
  BY <1>1, NextStatement
<1>3. Delta(s)
  BY <1>2, ServedPlain DEF Booking
<1>4. Visible(p, s.cell) \in Int
  BY <1>2, VisibleType
<1>5. CASE ExecAdd(p, s)
  <2>1. Effect(s) = s.n /\ s.op # "take"
    BY <1>5 DEF ExecAdd, Effect
  <2>2. Write(p, s.cell, Visible(p, s.cell) + Effect(s), Effect(s))
    BY <1>5, <2>1 DEF ExecAdd
  <2>3. todo' = [todo EXCEPT ![p] = Without(todo[p], s)]
    BY <1>5 DEF ExecAdd
  <2> QED BY <1>1, <1>3, <2>1, <2>2, <2>3, WriteProgress
<1>6. CASE ExecTake(p, s)
  <2>1. Effect(s) = - s.n /\ Visible(p, s.cell) + Effect(s) = Visible(p, s.cell) - s.n
    BY <1>2, <1>4, <1>6 DEF ExecTake, Effect
  <2>2. Write(p, s.cell, Visible(p, s.cell) + Effect(s), Effect(s))
    BY <1>6, <2>1 DEF ExecTake
  <2>3. todo' = [todo EXCEPT ![p] = Without(todo[p], s)] /\ Visible(p, s.cell) >= s.n
    BY <1>6 DEF ExecTake
  <2> QED BY <1>1, <1>3, <2>2, <2>3, WriteProgress
<1>7. CASE TakeFails(p, s)
  BY <1>7, FinishProgress DEF TakeFails, Rollback
<1>8. ~ ExecRead(p, s) /\ ~ ExecNegatives(p, s) /\ ~ ExecSet(p, s)
  BY <1>3 DEF ExecRead, ExecNegatives, ExecSet, Delta
<1> QED BY <1>5, <1>6, <1>7, <1>8

LEMMA StepProgress ==
  ASSUME Kinds \cap Overwriting = {}, TypeOK, Booking, NoOversell, Progress, [Next]_vars
  PROVE  Progress'
<1>1. CASE UNCHANGED vars
  <2>1. \A q \in Proc : Untouched(q)
    BY <1>1 DEF vars, Untouched, LoggedBy
  <2> QED BY <2>1, UntouchedProgress DEF Progress
<1>2. ASSUME NEW p \in Proc, Begin(p) PROVE Progress'
  BY <1>2, BeginProgress
<1>3. ASSUME NEW p \in Proc, Exec(p) PROVE Progress'
  BY <1>3, ExecProgress DEF Exec
<1>4. ASSUME NEW p \in Proc, Commit(p) PROVE Progress'
  BY <1>4, FinishProgress DEF Commit
<1>5. ASSUME NEW p \in Proc, Abort(p) \/ BreakDeadlock(p) PROVE Progress'
  BY <1>5, FinishProgress DEF Abort, BreakDeadlock, Rollback
<1> QED BY <1>1, <1>2, <1>3, <1>4, <1>5 DEF Next

(* Both specifications speak of the same rows and requests. *)
LEMMA SameRequests ==
  /\ Atomic!Cell = Cell /\ Atomic!Idle = Idle /\ Atomic!Served = Served
  /\ Atomic!Documents = Documents
  /\ \A d : Atomic!Receipt(d) = Receipt(d) /\ Atomic!Invoice(d) = Invoice(d)
              /\ Atomic!Withdrawal(d) = Withdrawal(d)
  /\ \A a, b, q : Atomic!Transfer(a, b, q) = Transfer(a, b, q)
                    /\ Atomic!Amendment(a, q, b) = Amendment(a, q, b)
  /\ Atomic!Quantity = Quantity /\ Atomic!Difference = Difference
<1>1. Atomic!Cell = Cell
  BY DEF Atomic!Cell, Cell
<1>2. Atomic!Idle = Idle
  BY DEF Atomic!Idle, Idle
<1>3. Atomic!Documents = Documents
  BY DEF Atomic!Documents, Documents, Atomic!Quantity, Quantity, Atomic!Cell, Cell,
         Atomic!Cardinality, Cardinality
<1>4. \A d : Atomic!Receipt(d) = Receipt(d)
  BY DEF Atomic!Receipt, Receipt, Atomic!Add, Add
<1>5. \A d : Atomic!Invoice(d) = Invoice(d)
  BY DEF Atomic!Invoice, Invoice, Atomic!Add, Add
<1>6. \A d : Atomic!Withdrawal(d) = Withdrawal(d)
  BY DEF Atomic!Withdrawal, Withdrawal, Atomic!Take, Take
<1>7. /\ Atomic!PlainReceipts = PlainReceipts
      /\ Atomic!Invoices = Invoices
      /\ Atomic!Withdrawals = Withdrawals
  BY <1>3, <1>4, <1>5, <1>6
  DEF Atomic!PlainReceipts, PlainReceipts, Atomic!Invoices, Invoices,
      Atomic!Withdrawals, Withdrawals
<1>8. /\ Atomic!ClearingReceipts = ClearingReceipts
      /\ Atomic!Transfers = Transfers
      /\ Atomic!Adjustments = Adjustments
      /\ Atomic!Amendments = Amendments
  BY DEF Atomic!ClearingReceipts, ClearingReceipts, Atomic!Transfers, Transfers,
         Atomic!Adjustments, Adjustments, Atomic!Amendments, Amendments,
         Atomic!Count, Count, Atomic!Transfer, Transfer,
         Atomic!Adjustment, Adjustment, Atomic!Amendment, Amendment,
         Atomic!Add, Add, Atomic!Take, Take, Atomic!Read, Read, Atomic!Negatives, Negatives,
         Atomic!Quantity, Quantity, Atomic!Cell, Cell,
         Atomic!Target, Target, Atomic!Difference, Difference
<1>9. Atomic!Served = Served
  BY <1>7, <1>8 DEF Atomic!Served, Served, Atomic!Requests, Requests
<1>10. \A a, b, q : Atomic!Transfer(a, b, q) = Transfer(a, b, q)
                     /\ Atomic!Amendment(a, q, b) = Amendment(a, q, b)
  BY DEF Atomic!Transfer, Transfer, Atomic!Amendment, Amendment,
         Atomic!Add, Add, Atomic!Take, Take
<1>11. Atomic!Quantity = Quantity /\ Atomic!Difference = Difference
  BY DEF Atomic!Quantity, Quantity, Atomic!Difference, Difference
<1> QED BY <1>1, <1>2, <1>3, <1>4, <1>5, <1>6, <1>9, <1>10, <1>11

(* What a document of one pass has logged when it commits. *)
LEMMA DocumentLogged ==
  ASSUME Progress, TypeOK, NEW p \in Proc, request[p][1] \in LockOrdered, todo[p] = << >>,
         NEW c \in Cell
  PROVE  /\ \A s \in request[p][2][1] : s.cell = c => LoggedBy(p, c) = Effect(s)
         /\ (\A s \in request[p][2][1] : s.cell # c) => LoggedBy(p, c) = 0
<1>1. PICK left \in SUBSET request[p][2][1] :
        todo[p] = Pass(left) /\ HasLogged(p, request[p][2][1], left)
  BY DEF Progress, ProgressOf, OnePass
<1>2. left = {}
  BY <1>1 DEF Pass
<1> QED BY <1>1, <1>2 DEF HasLogged

(* A commit changes every row, and its log, by what was logged for it. *)
LEMMA CommitChanges ==
  ASSUME Kinds \cap Overwriting = {}, TypeOK, Booking, NEW p \in Proc, Commit(p)
  PROVE  /\ inventory' = [c \in Cell |-> inventory[c] + LoggedBy(p, c)]
         /\ ledger' = [c \in Cell |-> ledger[c] + LoggedBy(p, c)]
<1>1. \A c \in Cell : Visible(p, c) = inventory[c] + LoggedBy(p, c)
  BY ServedPlain, VisibleBooking DEF Commit
<1> QED BY <1>1 DEF Commit

(* A row from which a checking request took something held enough. *)
LEMMA CommitChecked ==
  ASSUME TypeOK, Booking, Progress, NEW p \in Proc, Plain(p), request[p][1] \in Checking,
         NEW c \in Cell, LoggedBy(p, c) < 0
  PROVE  inventory[c] >= - LoggedBy(p, c)
<1>1. owner[c] = p /\ LoggedBy(p, c) = logged[c]
  BY DEF LoggedBy
<1>2. dirty[c] >= 0
  BY <1>1 DEF Progress, ProgressOf
<1>3. dirty[c] = inventory[c] + logged[c]
  BY <1>1 DEF Booking
<1>4. inventory[c] \in Int /\ logged[c] \in Int
  BY DEF TypeOK
<1> QED BY <1>1, <1>2, <1>3, <1>4

(* A document of one pass changes its rows by what its lines say. *)
LEMMA DocumentCommits ==
  ASSUME Kinds \cap Overwriting = {}, TypeOK, Booking, Progress, NEW p \in Proc, Commit(p),
         request[p][1] \in LockOrdered, NEW d \in Documents, NEW sign \in Int,
         \A s \in request[p][2][1] : s.cell \in DOMAIN d,
         \A c \in DOMAIN d : \E s \in request[p][2][1] :
            s.cell = c /\ Effect(s) = sign * d[c]
  PROVE  /\ Atomic!Change(Atomic!On(d, sign))
         /\ \A c \in DOMAIN d : LoggedBy(p, c) = sign * d[c]
<1>1. todo[p] = << >> /\ DOMAIN d \subseteq Cell
  BY DocumentLines DEF Commit
<1>2. \A c \in DOMAIN d : LoggedBy(p, c) = sign * d[c]
  BY <1>1, DocumentLogged
<1>3. \A c \in Cell : c \notin DOMAIN d => LoggedBy(p, c) = 0
  BY <1>1, DocumentLogged
<1>4. \A c \in Cell : LoggedBy(p, c) = IF c \in DOMAIN d THEN sign * d[c] ELSE 0
  BY <1>2, <1>3
<1>5. Atomic!Change(Atomic!On(d, sign))
  BY <1>4, CommitChanges, SameRequests DEF Atomic!Change, Atomic!On
<1> QED BY <1>2, <1>5

(* The commit of each kind of request is its atomic effect. *)
LEMMA ReceiveCommits ==
  ASSUME Kinds \cap Overwriting = {}, TypeOK, Booking, Progress, NEW p \in Proc, Commit(p),
         request[p][1] = "RECEIVE"
  PROVE  Atomic!Receive(request[p])
<1>1. /\ request[p] = <<"RECEIVE", request[p][2]>>
      /\ <<"RECEIVE", request[p][2]>> \in Requests
  BY RequestOf
<1>2. PICK d \in Documents : request[p][2] = Receipt(d)
  BY <1>1 DEF Requests, PlainReceipts
<1>3. \A c \in DOMAIN d : d[c] \in Int /\ d[c] = 1 * d[c]
  BY DocumentLines
<1>4. request[p][2][1] = {Add(c, d[c]) : c \in DOMAIN d}
  BY <1>2 DEF Receipt
<1>5. \A c \in DOMAIN d : Add(c, d[c]).cell = c /\ Effect(Add(c, d[c])) = 1 * d[c]
  BY <1>3 DEF Add, Effect
<1>6. Atomic!Change(Atomic!On(d, 1))
  BY <1>4, <1>5, DocumentCommits DEF LockOrdered
<1> QED BY <1>1, <1>2, <1>6, SameRequests DEF Atomic!Receive

LEMMA SaleCommits ==
  ASSUME Kinds \cap Overwriting = {}, TypeOK, Booking, Progress, NEW p \in Proc, Commit(p),
         request[p][1] = "SALE"
  PROVE  Atomic!Sell(request[p])
<1>1. /\ request[p] = <<"SALE", request[p][2]>>
      /\ <<"SALE", request[p][2]>> \in Requests
  BY RequestOf
<1>2. PICK d \in Documents : request[p][2] = Invoice(d)
  BY <1>1 DEF Requests, Invoices
<1>3. \A c \in DOMAIN d : d[c] \in Int /\ -d[c] = (-1) * d[c]
  BY DocumentLines
<1>4. request[p][2][1] = {Add(c, -d[c]) : c \in DOMAIN d}
  BY <1>2 DEF Invoice
<1>5. \A c \in DOMAIN d : Add(c, -d[c]).cell = c /\ Effect(Add(c, -d[c])) = (-1) * d[c]
  BY <1>3 DEF Add, Effect
<1>6. Atomic!Change(Atomic!On(d, -1))
  BY <1>4, <1>5, DocumentCommits DEF LockOrdered
<1> QED BY <1>1, <1>2, <1>6, SameRequests DEF Atomic!Sell

LEMMA WithdrawalCommits ==
  ASSUME Kinds \cap Overwriting = {}, TypeOK, Booking, Progress, NEW p \in Proc, Commit(p),
         request[p][1] = "OUT"
  PROVE  Atomic!Withdraw(request[p])
<1>1. /\ request[p] = <<"OUT", request[p][2]>>
      /\ <<"OUT", request[p][2]>> \in Requests
  BY RequestOf
<1>2. PICK d \in Documents : request[p][2] = Withdrawal(d)
  BY <1>1 DEF Requests, Withdrawals
<1>3. \A c \in DOMAIN d : c \in Cell /\ d[c] \in Int /\ d[c] > 0 /\ -d[c] = (-1) * d[c]
  BY DocumentLines
<1>4. request[p][2][1] = {Take(c, d[c]) : c \in DOMAIN d}
  BY <1>2 DEF Withdrawal
<1>5. \A c \in DOMAIN d : Take(c, d[c]).cell = c /\ Effect(Take(c, d[c])) = (-1) * d[c]
  BY <1>3 DEF Take, Effect
<1>6. /\ Atomic!Change(Atomic!On(d, -1))
      /\ \A c \in DOMAIN d : LoggedBy(p, c) = (-1) * d[c]
  BY <1>4, <1>5, DocumentCommits DEF LockOrdered
<1>7. Plain(p)
  BY ServedPlain
<1>8. ASSUME NEW c \in DOMAIN d PROVE inventory[c] >= d[c]
  <2>1. LoggedBy(p, c) < 0 /\ - LoggedBy(p, c) = d[c]
    BY <1>3, <1>6
  <2> QED BY <1>3, <1>7, <2>1, CommitChecked DEF Checking
<1> QED BY <1>1, <1>2, <1>6, <1>8, SameRequests DEF Atomic!Withdraw

(* A request of two steps has logged both of them when it commits. *)
LEMMA StepsLogged ==
  ASSUME Progress, NEW p \in Proc, request[p][1] \in {"TRANSFER", "AMEND"}, todo[p] = << >>,
         NEW s, NEW t, request[p][2] = <<{s}, {t}>>
  PROVE  \A c \in Cell : LoggedBy(p, c) = EffectOn(s, c) + EffectOn(t, c)
<1>1. PICK a \in Statement, b \in Statement :
        /\ request[p][2] = <<{a}, {b}>>
        /\ \/ todo[p] = <<{a}, {b}>> /\ \A c \in Cell : LoggedBy(p, c) = 0
           \/ todo[p] = <<{b}>> /\ \A c \in Cell : LoggedBy(p, c) = EffectOn(a, c)
           \/ /\ todo[p] = << >>
              /\ \A c \in Cell : LoggedBy(p, c) = EffectOn(a, c) + EffectOn(b, c)
  BY DEF Progress, ProgressOf, TwoSteps
<1>2. a = s /\ b = t
  BY <1>1
<1>3. <<{a}, {b}>> # << >> /\ <<{b}>> # << >>
  OBVIOUS
<1> QED BY <1>1, <1>2, <1>3

LEMMA TransferCommits ==
  ASSUME Kinds \cap Overwriting = {}, TypeOK, Booking, Progress, NEW p \in Proc, Commit(p),
         request[p][1] = "TRANSFER"
  PROVE  Atomic!Move(request[p])
<1>1. /\ request[p] = <<"TRANSFER", request[p][2]>>
      /\ <<"TRANSFER", request[p][2]>> \in Requests
  BY RequestOf
<1>2. PICK from \in Cell, to \in Cell, q \in Quantity :
        from # to /\ request[p][2] = Transfer(from, to, q)
  BY <1>1 DEF Requests, Transfers
<1>3. q \in Int /\ q > 0
  BY MaxQuantityAssumption DEF Quantity
<1>4. todo[p] = << >> /\ Plain(p)
  BY ServedPlain DEF Commit
<1>5. \A c \in Cell :
        LoggedBy(p, c) = EffectOn(Take(from, q), c) + EffectOn(Add(to, q), c)
  BY <1>2, <1>4, StepsLogged DEF Transfer
<1>6. \A c \in Cell :
        LoggedBy(p, c) = IF c = from THEN -q ELSE IF c = to THEN q ELSE 0
  BY <1>2, <1>3, <1>5 DEF EffectOn, Effect, Take, Add
<1>7. Atomic!Change([c \in Atomic!Cell |->
                       IF c = from THEN -q ELSE IF c = to THEN q ELSE 0])
  BY <1>6, CommitChanges, SameRequests DEF Atomic!Change
<1>8. inventory[from] >= q
  <2>1. LoggedBy(p, from) < 0 /\ - LoggedBy(p, from) = q
    BY <1>3, <1>6
  <2> QED BY <1>3, <1>4, <2>1, CommitChecked DEF Checking
<1>9. /\ request[p] = <<"TRANSFER", Atomic!Transfer(from, to, q)>>
      /\ from \in Atomic!Cell /\ to \in Atomic!Cell /\ q \in Atomic!Quantity
  BY <1>1, <1>2, SameRequests
<1> QED BY <1>7, <1>8, <1>9 DEF Atomic!Move

LEMMA AmendmentCommits ==
  ASSUME Kinds \cap Overwriting = {}, TypeOK, Booking, Progress, NEW p \in Proc, Commit(p),
         request[p][1] = "AMEND"
  PROVE  Atomic!Amend(request[p])
<1>1. /\ request[p] = <<"AMEND", request[p][2]>>
      /\ <<"AMEND", request[p][2]>> \in Requests
  BY RequestOf
<1>2. PICK a \in Cell, n \in Difference, b \in Cell : request[p][2] = Amendment(a, n, b)
  BY <1>1 DEF Requests, Amendments
<1>3. n \in Int
  BY MaxQuantityAssumption DEF Difference
<1>4. todo[p] = << >>
  BY DEF Commit
<1>5. \A c \in Cell : LoggedBy(p, c) = EffectOn(Add(a, n), c) + EffectOn(Add(b, -1), c)
  BY <1>2, <1>4, StepsLogged DEF Amendment
<1>6. \A c \in Cell :
        LoggedBy(p, c) = (IF c = a THEN n ELSE 0) - (IF c = b THEN 1 ELSE 0)
  BY <1>3, <1>5 DEF EffectOn, Effect, Add
<1>7. Atomic!Change([c \in Cell |-> (IF c = a THEN n ELSE 0) - (IF c = b THEN 1 ELSE 0)])
  BY <1>6, CommitChanges, SameRequests DEF Atomic!Change
<1> QED BY <1>1, <1>2, <1>7, SameRequests DEF Atomic!Amend

(* Every step is one of the atomic specification, or stutters there. *)
LEMMA CommitPerforms ==
  ASSUME Kinds \cap Overwriting = {}, TypeOK, Booking, Progress, NEW p \in Proc, Commit(p)
  PROVE  Atomic!Perform(p)
<1>1. request' = [request EXCEPT ![p] = Atomic!Idle]
  BY SameRequests DEF Commit, Finish
<1>2. request[p][1] \in Kinds
  BY RequestOf DEF Commit
<1>3. request[p][1] \in {"RECEIVE", "SALE", "OUT", "TRANSFER", "AMEND"}
  BY <1>2, KindsAssumption DEF KindNames, Overwriting
<1>4. \/ Atomic!Receive(request[p]) \/ Atomic!Sell(request[p]) \/ Atomic!Withdraw(request[p])
      \/ Atomic!Move(request[p]) \/ Atomic!Amend(request[p])
  BY <1>3, ReceiveCommits, SaleCommits, WithdrawalCommits, TransferCommits, AmendmentCommits
<1> QED BY <1>1, <1>4 DEF Atomic!Perform

LEMMA RollbackRefuses ==
  ASSUME TypeOK, NEW p \in Proc, request[p][1] # "idle", Rollback(p)
  PROVE  Atomic!Refuse(p)
<1>1. request[p] # Idle
  BY DEF Idle
<1> QED BY <1>1, SameRequests DEF Atomic!Refuse, Rollback, Finish

LEMMA BeginAsks ==
  ASSUME TypeOK, NEW p \in Proc, Begin(p)
  PROVE  Atomic!Ask(p)
<1>1. request[p] = Idle
  BY ServedRequest DEF Begin, TypeOK
<1> QED BY <1>1, SameRequests DEF Atomic!Ask, Begin

LEMMA StepAtomic ==
  ASSUME Kinds \cap Overwriting = {}, TypeOK, Booking, Progress, [Next]_vars
  PROVE  [Atomic!ANext]_Atomic!avars
<1>1. CASE UNCHANGED vars
  BY <1>1 DEF vars, Atomic!avars
<1>2. ASSUME NEW p \in Proc, Begin(p) PROVE Atomic!ANext
  BY <1>2, BeginAsks DEF Atomic!ANext
<1>3. ASSUME NEW p \in Proc, Exec(p) PROVE Atomic!ANext \/ UNCHANGED Atomic!avars
  <2>1. PICK s : \/ ExecAdd(p, s)  \/ ExecTake(p, s) \/ TakeFails(p, s)
                 \/ ExecRead(p, s) \/ ExecNegatives(p, s) \/ ExecSet(p, s)
    BY <1>3 DEF Exec
  <2>2. CASE TakeFails(p, s)
    <3>1. request[p][1] # "idle" /\ Rollback(p)
      BY <2>2, NextStatement DEF TakeFails
    <3> QED BY <3>1, RollbackRefuses DEF Atomic!ANext
  <2>3. CASE ~ TakeFails(p, s)
    BY <2>1, <2>3 DEF ExecAdd, ExecTake, ExecRead, ExecNegatives, ExecSet, Write, Atomic!avars
  <2> QED BY <2>2, <2>3
<1>4. ASSUME NEW p \in Proc, Commit(p) PROVE Atomic!ANext
  BY <1>4, CommitPerforms DEF Atomic!ANext
<1>5. ASSUME NEW p \in Proc, Abort(p) \/ BreakDeadlock(p) PROVE Atomic!ANext
  <2>1. CASE Abort(p)
    BY <2>1, RollbackRefuses DEF Abort, Atomic!ANext
  <2>2. CASE BreakDeadlock(p)
    <3>1. PICK S \in SUBSET Proc : p \in S /\ Deadlocked(S)
      BY <2>2 DEF BreakDeadlock
    <3>2. PICK q \in S : WaitsFor(p, q)
      BY <3>1 DEF Deadlocked
    <3>3. request[p][1] # "idle"
      BY <3>1, <3>2, WaitsForWaitsAt DEF TypeOK
    <3> QED BY <2>2, <3>3, RollbackRefuses DEF BreakDeadlock, Atomic!ANext
  <2> QED BY <1>5, <2>1, <2>2
<1> QED BY <1>1, <1>2, <1>3, <1>4, <1>5 DEF Next

(* As long as clients send no request that overwrites, the transactions    *)
(* implement the atomic requests that the callers rely on.                 *)
THEOREM TransactionsAreAtomic ==
  ASSUME Kinds \cap Overwriting = {}
  PROVE  Spec => ImplementsAtomicStock
<1>1. Init => Atomic!AInit
  BY SameRequests DEF Init, Atomic!AInit
<1>2. TypeOK /\ Booking /\ Progress /\ [Next]_vars => [Atomic!ANext]_Atomic!avars
  BY StepAtomic
<1>3. TypeOK /\ Booking /\ NoOversell /\ Progress /\ [Next]_vars => Progress'
  BY StepProgress
<1>4. Init => NoOversell
  BY EmptyRemaining, NoProcAssumption DEF Init, NoOversell
<1> QED
  BY <1>1, <1>2, <1>3, <1>4, TypeCorrect, InitBooking, StepBooking, StepNoOversell,
     InitProgress, PTL DEF Spec, ImplementsAtomicStock, Atomic!ASpec
===============================================================================
