---------------------------- MODULE InvoiceLines ----------------------------
(***************************************************************************)
(* The requests that amend one invoice: ReturnsService, CorrectionsService,*)
(* AdjustmentsService and SalesService.cancelInvoice.  A request looks for *)
(* a document with its idempotency key, then opens a transaction that      *)
(* first locks the row of the invoice, and checks and writes what it read  *)
(* under that lock.  Clients repeat a request whose answer they lost, also *)
(* while its first copy is still running.                                  *)
(***************************************************************************)
EXTENDS AtomicInvoice

CONSTANTS
  Proc,    \* requests the API may be serving at one time
  NoProc,  \* not a Proc: nobody holds the lock
  NoKey    \* the key of a process that serves no request

ASSUME NoProcAssumption == NoProc \notin Proc
ASSUME NoKeyAssumption == NoKey \notin Key

VARIABLES
  at,    \* where each process is
  key,   \* the key of the request it serves
  seen,  \* the invoice as its transaction read it
  lock   \* who holds the row lock of the invoice

requests == <<at, key, seen, lock>>
vars == <<inv, sent, done, requests>>

Steps == {"idle", "precheck", "lock", "write"}
Unread == [status |-> "unread"]

Init ==
  /\ AInit
  /\ at = [p \in Proc |-> "idle"]
  /\ key = [p \in Proc |-> NoKey]
  /\ seen = [p \in Proc |-> Unread]
  /\ lock = NoProc

Go(p, step) == at' = [at EXCEPT ![p] = step]

Wanted(p) == sent[key[p]]

(* A new request, or a copy of one sent before.  Cancelling carries no key *)
(* and goes to its transaction directly.                                   *)
Arrive(p, k, r) ==
  /\ at[p] = "idle"
  /\ Ask(k, r)
  /\ key' = [key EXCEPT ![p] = k]
  /\ Go(p, IF r.kind = "cancel" THEN "lock" ELSE "precheck")
  /\ UNCHANGED <<seen, lock>>

(* The document of this key exists: it is the answer. *)
AnswerExisting(p) ==
  /\ at[p] = "precheck" /\ key[p] \in done
  /\ Go(p, "idle")
  /\ key' = [key EXCEPT ![p] = NoKey]
  /\ UNCHANGED <<inv, sent, done, seen, lock>>

NotYetThere(p) ==
  /\ at[p] = "precheck" /\ key[p] \notin done
  /\ Go(p, "lock")
  /\ UNCHANGED <<inv, sent, done, key, seen, lock>>

(* A variant in which the invoice is read before its row is locked. *)
ReadInvoice(p) ==
  /\ at[p] = "lock"
  /\ lock' = IF lock = NoProc THEN p ELSE lock
  /\ seen' = [seen EXCEPT ![p] = inv]
  /\ Go(p, "write")
  /\ UNCHANGED <<inv, sent, done, key>>

(* SELECT ... FOR UPDATE, and the reads under it.  The conditional update  *)
(* that claims a cancellation takes the same lock.                         *)
LockInvoice(p) ==
  /\ at[p] = "lock" /\ lock = NoProc
  /\ lock' = p
  /\ seen' = [seen EXCEPT ![p] = inv]
  /\ Go(p, "write")
  /\ UNCHANGED <<inv, sent, done, key>>

(* The transaction ends, and the lock with it. *)
Release(p) ==
  /\ at[p] = "write"
  /\ lock' = IF lock = p THEN NoProc ELSE lock
  /\ seen' = [seen EXCEPT ![p] = Unread]
  /\ key' = [key EXCEPT ![p] = NoKey]
  /\ Go(p, "idle")
  /\ UNCHANGED sent

Commit(p) ==
  /\ Release(p)
  /\ Acceptable(seen[p], Wanted(p))
  /\ key[p] \notin done
  /\ inv' = Applied(seen[p], Wanted(p))
  /\ done' = done \cup {key[p]}

(* A check fails and the transaction is rolled back. *)
Refuse(p) ==
  /\ Release(p)
  /\ ~Acceptable(seen[p], Wanted(p))
  /\ UNCHANGED <<inv, done>>

(* The key is taken by a copy that was faster: the unique index refuses    *)
(* the document, all is rolled back and the other's document is answered.  *)
AnswerDuplicate(p) ==
  /\ Release(p)
  /\ Acceptable(seen[p], Wanted(p))
  /\ key[p] \in done
  /\ UNCHANGED <<inv, done>>

(* Both update the row of the invoice, and wait for its lock; what a       *)
(* receipt read before it got there is CustomerAccount's subject.          *)
SettleAccount == lock = NoProc /\ AccountSettled /\ UNCHANGED requests
PayAtCounter == lock = NoProc /\ PaidAtCounter(1) /\ UNCHANGED requests

Serve(p) ==
  \/ \E k \in Key, r \in Requests : Arrive(p, k, r)
  \/ AnswerExisting(p) \/ NotYetThere(p)
  \/ LockInvoice(p) \/ Commit(p) \/ Refuse(p) \/ AnswerDuplicate(p)

Next == (\E p \in Proc : Serve(p)) \/ SettleAccount \/ PayAtCounter

Spec == Init /\ [][Next]_vars

-----------------------------------------------------------------------------

(* The shape of the state. *)
TypeOK ==
  /\ inv \in Invoice
  /\ sent \in [Key -> Requests \cup {NoRequest}]
  /\ done \subseteq Key
  /\ at \in [Proc -> Steps]
  /\ key \in [Proc -> Key \cup {NoKey}]
  /\ seen \in [Proc -> Invoice \cup {Unread}]
  /\ lock \in Proc \cup {NoProc}

(* However returns, corrections, adjustments and their repetitions meet on *)
(* a line, what came back never exceeds what was sold and corrected: the   *)
(* Math.max(0, ...) of lineBalances never hides a deficit.                 *)
NoLineBelowZero ==
  \A l \in Log : Balance(inv.line[l]) >= 0

(* What the customer has of a line: the pieces that came back defective    *)
(* went neither to the stock nor stayed with him.                          *)
Held(line) == line.out - (line.returned - line.restocked)

(* What a line of a live invoice calls outstanding is what the customer    *)
(* has of it, plus, once more, every quantity by which a correction        *)
(* increased it: that is a SALE log of its own and also counted in this    *)
(* line.  Nothing else is counted twice, or missed.                        *)
LinesAccountForGoods ==
  Open(inv) =>
    \A l \in Log :
      Outstanding(inv.line[l]) = Held(inv.line[l]) + inv.line[l].grown

(* The due amount from which debts are aged is never less than what the    *)
(* invoice left on the customer's ledger, whatever returns were credited   *)
(* beyond it and corrections paid on the spot.                             *)
DueCoversLedger == inv.money.due >= inv.money.ledger

(* Nobody owes for a sale without a customer: every document leaves its    *)
(* total equal to what was paid for it, and nothing due.                   *)
WalkInIsSettled ==
  ~inv.customer => inv.money.total = inv.money.paid /\ inv.money.due = 0

(* A request that waited for the lock during a cancellation does not touch *)
(* the cancelled invoice any more: no line, no amount, no goods.  (What is *)
(* left of its ledger may be paid.)                                        *)
CancelledIsClosed ==
  [][inv.status = "CANCELLED" =>
       /\ inv'.status = "CANCELLED"
       /\ inv'.line = inv.line
       /\ inv'.money.total = inv.money.total]_vars

(* Behind the precheck, the lock and the unique index, requests and their  *)
(* copies are the atomic documents of AtomicInvoice.  Its variables are    *)
(* the first three of this module, so that the mapping is the identity.    *)
ImplementsAtomicInvoice == ASpec

(* "Cancellation after a partial return restocks only the outstanding      *)
(* quantity" (test T076): no document takes back pieces that the customer  *)
(* does not have.                                                          *)
NothingComesBackTwice ==
  MapThenSumSet(LAMBDA l : Held(inv.line[l]), Log) >= 0
=============================================================================
