----------------------------- MODULE StockLedger -----------------------------
(***************************************************************************)
(* The single point through which stock changes, InventoryOperationService, *)
(* under concurrent requests.  Every request is one database transaction   *)
(* of PostgreSQL at READ COMMITTED: a statement sees what is committed when *)
(* it runs, plus what its own transaction wrote; a row that a transaction  *)
(* wrote is locked until that transaction ends.                            *)
(*                                                                         *)
(* `inventory' is the table of quantities, `ledger' the sum of the signed  *)
(* quantities of the InventoryLog rows of a cell.  A missing row of the    *)
(* table counts as zero, as every reader of the code has it.               *)
(***************************************************************************)
EXTENDS StockRequests

CONSTANTS
  NoProc,       \* not a Proc: the owner of an unlocked row
  MaxRequests,  \* bound: requests served in a behaviour
  InitialStock  \* the quantity of every row at the start, all of it logged

ASSUME NoProcAssumption == NoProc \notin Proc
ASSUME InitialAssumption == InitialStock \in [Cell -> Int]

VARIABLES
  inventory,  \* committed quantity of each row
  ledger,     \* committed sum of the log of each row
  owner,      \* the transaction that holds the row lock
  dirty,      \* the uncommitted quantity its owner wrote
  logged,     \* the sum of the log rows its owner inserted
  request,    \* the request each process is serving, or Idle
  todo,       \* the passes its transaction still has to execute
  served      \* number of requests started

vars == <<inventory, ledger, owner, dirty, logged, request, todo, served>>

-----------------------------------------------------------------------------
(* The row as a statement of p reads it at READ COMMITTED. *)
Visible(p, c) == IF owner[c] = p THEN dirty[c] ELSE inventory[c]
LoggedBy(p, c) == IF owner[c] = p THEN logged[c] ELSE 0

Lockable(p, c) == owner[c] \in {p, NoProc}

(* The statement p executes next: the first in lock order of its pass.     *)
IsNext(p, s) ==
  /\ todo[p] # << >>
  /\ s \in Head(todo[p])
  /\ \A t \in Head(todo[p]) : ~ Before(t.cell, s.cell)

(* What is left when s has been executed. *)
Without(passes, s) ==
  LET rest == Head(passes) \ {s}
  IN  IF rest = {} THEN Tail(passes) ELSE <<rest>> \o Tail(passes)

(* p writes quantity v to row c, and a log row of n. *)
Write(p, c, v, n) ==
  /\ Lockable(p, c)
  /\ owner' = [owner EXCEPT ![c] = p]
  /\ dirty' = [dirty EXCEPT ![c] = v]
  /\ logged' = [logged EXCEPT ![c] = LoggedBy(p, c) + n]
  /\ UNCHANGED <<inventory, ledger, request, served>>

(* The end of p's transaction: its locks are released, p answers.          *)
Finish(p) ==
  /\ owner' = [c \in Cell |-> IF owner[c] = p THEN NoProc ELSE owner[c]]
  /\ dirty' = [c \in Cell |-> IF owner[c] = p THEN 0 ELSE dirty[c]]
  /\ logged' = [c \in Cell |-> IF owner[c] = p THEN 0 ELSE logged[c]]
  /\ request' = [request EXCEPT ![p] = Idle]
  /\ todo' = [todo EXCEPT ![p] = << >>]
  /\ UNCHANGED served

(* p's transaction ends without effect. *)
Rollback(p) == Finish(p) /\ UNCHANGED <<inventory, ledger>>

-----------------------------------------------------------------------------
Init ==
  /\ inventory = InitialStock
  /\ ledger = InitialStock
  /\ owner = [c \in Cell |-> NoProc]
  /\ dirty = [c \in Cell |-> 0]
  /\ logged = [c \in Cell |-> 0]
  /\ request = [p \in Proc |-> Idle]
  /\ todo = [p \in Proc |-> << >>]
  /\ served = 0

(* A request arrives and opens its transaction. *)
Begin(p) ==
  /\ request[p][1] = "idle"
  /\ served < MaxRequests
  /\ \E r \in Served :
       /\ request' = [request EXCEPT ![p] = r]
       /\ todo' = [todo EXCEPT ![p] = r[2]]
  /\ served' = served + 1
  /\ UNCHANGED <<inventory, ledger, owner, dirty, logged>>

(* A variant that logs a sale with the sign of a receipt. *)
ExecAddUnsigned(p, s) ==
  /\ IsNext(p, s) /\ s.op = "add"
  /\ Write(p, s.cell, Visible(p, s.cell) + s.n, IF s.n < 0 THEN - s.n ELSE s.n)
  /\ todo' = [todo EXCEPT ![p] = Without(todo[p], s)]

(* upsert with increment or decrement, then the log row. *)
ExecAdd(p, s) ==
  /\ IsNext(p, s) /\ s.op = "add"
  /\ Write(p, s.cell, Visible(p, s.cell) + s.n, s.n)
  /\ todo' = [todo EXCEPT ![p] = Without(todo[p], s)]

(* A variant whose condition is off by one. *)
ExecTakeOffByOne(p, s) ==
  /\ IsNext(p, s) /\ s.op = "take"
  /\ Visible(p, s.cell) >= s.n - 1
  /\ Write(p, s.cell, Visible(p, s.cell) - s.n, - s.n)
  /\ todo' = [todo EXCEPT ![p] = Without(todo[p], s)]

(* updateMany ... where quantity >= n.  It waits for the row lock only when *)
(* the version it sees qualifies, and checks the row again afterwards.     *)
ExecTake(p, s) ==
  /\ IsNext(p, s) /\ s.op = "take"
  /\ Visible(p, s.cell) >= s.n
  /\ Write(p, s.cell, Visible(p, s.cell) - s.n, - s.n)
  /\ todo' = [todo EXCEPT ![p] = Without(todo[p], s)]

(* Variants for no row qualifies: one that goes on with the next line, and *)
(* one that tries again.                                                   *)
TakeSkips(p, s) ==
  /\ IsNext(p, s) /\ s.op = "take"
  /\ Visible(p, s.cell) < s.n
  /\ todo' = [todo EXCEPT ![p] = Without(todo[p], s)]
  /\ UNCHANGED <<inventory, ledger, owner, dirty, logged, request, served>>
TakeRetries(p, s) ==
  IsNext(p, s) /\ s.op = "take" /\ Visible(p, s.cell) < s.n /\ UNCHANGED vars

(* No row qualifies: INSUFFICIENT_STOCK, the transaction rolls back. *)
TakeFails(p, s) ==
  /\ IsNext(p, s) /\ s.op = "take"
  /\ Visible(p, s.cell) < s.n
  /\ Rollback(p)

(* ADJUST reads the row, without a lock, to compute the difference.        *)
ExecRead(p, s) ==
  /\ IsNext(p, s) /\ s.op = "read"
  /\ todo' = [todo EXCEPT ![p] =
                <<{Set(s.cell, s.n, Visible(p, s.cell))}>> \o Without(todo[p], s)]
  /\ UNCHANGED <<inventory, ledger, owner, dirty, logged, request, served>>

(* zeroOutNegatives reads the negative rows of the product in the          *)
(* warehouse, without a lock, and goes on to set each of them to zero.     *)
NegativeRows(p, c) ==
  {d \in {c[1]} \X SameWarehouse(c[2]) : Visible(p, d) < 0}

ExecNegatives(p, s) ==
  /\ IsNext(p, s) /\ s.op = "negatives"
  /\ LET zeroes == {Set(d, 0, Visible(p, d)) : d \in NegativeRows(p, s.cell)}
         rest   == Without(todo[p], s)
     IN  todo' = [todo EXCEPT ![p] = IF zeroes = {} THEN rest ELSE <<zeroes>> \o rest]
  /\ UNCHANGED <<inventory, ledger, owner, dirty, logged, request, served>>

(* The write that follows: it overwrites whatever the row holds by now.    *)
ExecSet(p, s) ==
  /\ IsNext(p, s) /\ s.op = "set"
  /\ Write(p, s.cell, s.n, s.n - s.seen)
  /\ todo' = [todo EXCEPT ![p] = Without(todo[p], s)]

Commit(p) ==
  /\ request[p][1] # "idle" /\ todo[p] = << >>
  /\ inventory' = [c \in Cell |-> Visible(p, c)]
  /\ ledger' = [c \in Cell |-> ledger[c] + LoggedBy(p, c)]
  /\ Finish(p)

(* The request fails for a reason of its own: a later step of the document *)
(* throws, the transaction times out, the API is stopped.                  *)
Abort(p) == request[p][1] # "idle" /\ Rollback(p)

-----------------------------------------------------------------------------
(* p waits for the lock that q holds. *)
WaitsFor(p, q) ==
  \E s \in IF todo[p] = << >> THEN {} ELSE Head(todo[p]) :
    /\ IsNext(p, s)
    /\ s.op \in {"add", "set"} \/ (s.op = "take" /\ Visible(p, s.cell) >= s.n)
    /\ owner[s.cell] = q /\ q # p

(* Processes all of which wait for one another: a cycle of waits.          *)
Deadlocked(S) == S # {} /\ \A p \in S : \E q \in S : WaitsFor(p, q)

(* PostgreSQL looks for a cycle of waits and rolls one of them back.       *)
BreakDeadlock(p) ==
  /\ \E S \in SUBSET Proc : p \in S /\ Deadlocked(S)
  /\ Rollback(p)

Exec(p) ==
  \E s \in IF todo[p] = << >> THEN {} ELSE Head(todo[p]) :
    \/ ExecAdd(p, s)
    \/ ExecTake(p, s)
    \/ TakeFails(p, s)
    \/ ExecRead(p, s)
    \/ ExecNegatives(p, s)
    \/ ExecSet(p, s)

Next ==
  \E p \in Proc :
    \/ Begin(p)
    \/ Exec(p)
    \/ Commit(p)
    \/ Abort(p)
    \/ BreakDeadlock(p)

Spec == Init /\ [][Next]_vars

(* A transaction that can move on does so, and the database breaks every   *)
(* deadlock.  Requests need not arrive, nor fail.                          *)
Fairness ==
  /\ \A p \in Proc : WF_vars(Exec(p)) /\ WF_vars(Commit(p))
  /\ WF_vars(\E p \in Proc : BreakDeadlock(p))

FairSpec == Spec /\ Fairness
-----------------------------------------------------------------------------
(* Rows are locked by requests being served only. *)
Busy == {p \in Proc : request[p][1] # "idle"}

Statement ==
  [op : {"add", "take", "read", "negatives", "set"},
   cell : Cell, n : Int, seen : Int]

TypeOK ==
  /\ inventory \in [Cell -> Int]
  /\ ledger \in [Cell -> Int]
  /\ owner \in [Cell -> Busy \cup {NoProc}]
  /\ dirty \in [Cell -> Int]
  /\ logged \in [Cell -> Int]
  /\ request \in [Proc -> Served \cup {Idle}]
  /\ todo \in [Proc -> Seq(SUBSET Statement)]
  /\ \A p \in Proc : request[p][1] = "idle" => todo[p] = << >>
  /\ served \in Nat

(* The stock of every row is the sum of its log, while no request of a     *)
(* kind that overwrites is served.                                         *)
LedgerMatchesStock == \A c \in Cell : inventory[c] = ledger[c]

(* Whatever commits in between, every change of the stock is booked in the *)
(* same transaction with the quantity it really changed by, except where a *)
(* request overwrites a quantity that it has read before: ADJUST and the   *)
(* clearing of negative rows (zeroOutNegatives).                           *)
Overwriting == {"IN", "ADJUST"}

PartOnlyByOverwriting ==
  [][\A c \in Cell : inventory'[c] - ledger'[c] # inventory[c] - ledger[c]
       => \E p \in Proc : owner[c] = p /\ request[p][1] \in Overwriting]_vars

(* Only a sale, or the amendment of one, may push a row below zero: the    *)
(* withdrawals and transfers of runOperation check the row they decrement, *)
(* also when another request took the stock while they waited for it.      *)
MaySellUnregistered == {"SALE", "AMEND"}

NegativeOnlyBySale ==
  [][\A c \in Cell : inventory'[c] < inventory[c] /\ inventory'[c] < 0
       => \E p \in Proc : owner[c] = p /\ request[p][1] \in MaySellUnregistered]_vars

(* Invoices, receipts and withdrawals walk once through their lines, in    *)
(* lock order: no transactions of these kinds ever wait for one another in *)
(* a circle, whatever the other transactions do.                           *)
LockOrdered == {"RECEIVE", "SALE", "OUT"}

LockOrderHolds ==
  \A S \in SUBSET {p \in Proc : request[p][1] \in LockOrdered} : ~ Deadlocked(S)

(* Every request is answered: its transaction ends, however the row locks  *)
(* of the others are held and even if the database has to break a cycle.   *)
EveryRequestEnds == \A p \in Proc : request[p][1] # "idle" ~> request[p][1] = "idle"

(* The transactions implement the atomic requests callers rely on.         *)
Atomic == INSTANCE AtomicStock WITH stock <- inventory, booked <- ledger, asked <- request
ImplementsAtomicStock == Atomic!ASpec
=============================================================================
