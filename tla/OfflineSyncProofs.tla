-------------------------- MODULE OfflineSyncProofs --------------------------
(***************************************************************************)
(* Proofs about the review of captured operations and the phones in front  *)
(* of it, for any number of operations, handlers, drains, crashes and      *)
(* failures: PendingOperations alone first, and then OfflineSync, whose    *)
(* phone is one of the senders PendingOperations reckons with.             *)
(***************************************************************************)
EXTENDS OfflineSync, TLAPS

-----------------------------------------------------------------------------
(* The type invariant. *)

(* The records a handler may hold between two steps. *)
GoodRecord(r) ==
  /\ r \in HandlerRecord
  /\ r.item = NoOp <=> r.at \in {"free", "answer"}
  /\ r.task = "none" <=> r.at = "free"

(* Where a handler is when it has not yet looked at its item, or has none. *)
Entry == {"free", "answer", "lookup", "read", "check", "find"}

LEMMA IdleIsGood == GoodRecord(Idle) /\ Idle.at = "free"
BY NoOpAssumption DEF GoodRecord, HandlerRecord, Idle, Labels, First

LEMMA ThroughIsGood ==
  ASSUME NEW r, r \in HandlerRecord, r.task # "none"
  PROVE  GoodRecord(Through(r)) /\ Through(r).at \in Entry
<1>1. CASE r.queue # << >>
  <2> DEFINE n == [r EXCEPT !.at = First[r.task], !.item = Head(r.queue), !.queue = Tail(r.queue)]
  <2>1. Head(r.queue) \in Op /\ Tail(r.queue) \in Seq(Op)
    BY <1>1 DEF HandlerRecord
  <2>2. r.task \in DOMAIN First /\ First[r.task] \in {"lookup", "read", "check", "find"}
    BY DEF HandlerRecord, First
  <2>3. n \in HandlerRecord
    BY <2>1, <2>2 DEF HandlerRecord, Labels
  <2>4. n.item \in Op /\ n.at = First[r.task] /\ n.task = r.task
    BY <2>1 DEF HandlerRecord
  <2>5. Through(r) = n
    BY <1>1 DEF Through
  <2> HIDE DEF n
  <2> QED BY <2>2, <2>3, <2>4, <2>5, NoOpAssumption DEF GoodRecord, Entry
<1>2. CASE r.queue = << >> /\ r.task \in {"sync", "direct"}
  BY <1>2 DEF Through, GoodRecord, HandlerRecord, Labels, Entry
<1>3. CASE r.queue = << >> /\ r.task \notin {"sync", "direct"}
  BY <1>3, IdleIsGood DEF Through, Entry
<1> QED BY <1>1, <1>2, <1>3

LEMMA RequestIsGood ==
  ASSUME NEW task \in DOMAIN First, NEW batch \in Seq(Op), batch # << >>,
         NEW s \in Sender \cup {NoSender}
  PROVE  GoodRecord(Request(task, batch, s)) /\ Request(task, batch, s).at \in Entry
<1>1. Head(batch) \in Op /\ Tail(batch) \in Seq(Op)
  OBVIOUS
<1>2. First[task] \in {"lookup", "read", "check", "find"} /\ task # "none"
  BY DEF First
<1> QED BY <1>1, <1>2, NoOpAssumption DEF GoodRecord, Request, HandlerRecord, Labels, Entry

(* A batch is a sequence of operations. *)
LEMMA BatchIsSeq == ASSUME NEW b \in Batch PROVE b \in Seq(Op) /\ b # << >>
BY MaxBatchAssumption DEF Batch

(* The types of the rows alone. *)
RowsOK ==
  /\ status \in [Op -> {"NONE", "PENDING", "APPROVED", "REJECTED"}]
  /\ commits \in [Op -> Nat] /\ labels \in [Op -> Nat]
  /\ attached \in [Op -> Nat] /\ loose \in [Op -> Nat]
  /\ linked \in [Op -> BOOLEAN]

HandlersOK ==
  /\ DOMAIN handler = Handler
  /\ handler = [h \in Handler |-> handler[h]]
  /\ \A h \in Handler : GoodRecord(handler[h])

LEMMA TypeOKParts == TypeOK <=> RowsOK /\ HandlersOK
BY DEF TypeOK, RowsOK, HandlersOK, GoodRecord, Item, At

-----------------------------------------------------------------------------
(* What every step does to one handler: h moves on with its item, or is    *)
(* through with it, or gets a request; the others stay.                    *)
Advanced(h, r) ==
  /\ GoodRecord(r)
  /\ handler' = [handler EXCEPT ![h] = r]

LEMMA AdvancedOK ==
  ASSUME HandlersOK, NEW h \in Handler, NEW r, Advanced(h, r)
  PROVE  HandlersOK' /\ handler'[h] = r /\ \A i \in Handler \ {h} : handler'[i] = handler[i]
BY DEF HandlersOK, Advanced

(* A handler that is not free is at work on an operation, or answers. *)
LEMMA AtWork ==
  ASSUME HandlersOK, NEW h \in Handler
  PROVE  /\ handler[h] \in HandlerRecord
         /\ handler[h].at # "free" => handler[h].task # "none"
         /\ handler[h].at \notin {"free", "answer"} => Item(h) \in Op
BY DEF HandlersOK, GoodRecord, HandlerRecord, Item

LEMMA GotoOK ==
  ASSUME HandlersOK, NEW h \in Handler, NEW l \in Labels \ {"free", "answer"},
         handler[h].at \notin {"free", "answer"}, Goto(h, l)
  PROVE  /\ Advanced(h, handler'[h])
         /\ handler'[h].at = l /\ handler'[h].item = handler[h].item
<1> DEFINE r == [handler[h] EXCEPT !.at = l]
<1>1. handler[h] \in HandlerRecord /\ handler[h].task # "none" /\ Item(h) \in Op
  BY AtWork
<1>2. r \in HandlerRecord /\ r.at = l /\ r.item = handler[h].item /\ r.task = handler[h].task
  BY <1>1 DEF HandlerRecord
<1>3. handler' = [handler EXCEPT ![h] = r] /\ handler'[h] = r
  BY DEF Goto, HandlersOK
<1> HIDE DEF r
<1>4. l # "free" /\ l # "answer" /\ r.item # NoOp
  BY <1>1, <1>2, NoOpAssumption DEF Item
<1>5. GoodRecord(r)
  BY <1>1, <1>2, <1>4 DEF GoodRecord
<1> QED BY <1>2, <1>3, <1>5 DEF Advanced

LEMMA NextItemOK ==
  ASSUME HandlersOK, NEW h \in Handler, handler[h].at # "free", NextItem(h)
  PROVE  Advanced(h, handler'[h]) /\ handler'[h].at \in Entry
<1>1. handler[h] \in HandlerRecord /\ handler[h].task # "none"
  BY AtWork
<1>2. handler' = [handler EXCEPT ![h] = Through(handler[h])] /\ handler'[h] = Through(handler[h])
  BY DEF NextItem, HandlersOK
<1> QED BY <1>1, <1>2, ThroughIsGood DEF Advanced

LEMMA RefuseItemOK ==
  ASSUME HandlersOK, NEW h \in Handler, handler[h].at \notin {"free", "answer"}, RefuseItem(h)
  PROVE  Advanced(h, handler'[h]) /\ handler'[h].at \in Entry
<1> DEFINE r == [handler[h] EXCEPT !.refused = handler[h].refused \cup {handler[h].item}]
<1>1. handler[h] \in HandlerRecord /\ handler[h].task # "none" /\ handler[h].item \in Op
  BY AtWork DEF Item
<1>2. r \in HandlerRecord /\ r.task # "none"
  BY <1>1 DEF HandlerRecord
<1>3. handler' = [handler EXCEPT ![h] = Through(r)] /\ handler'[h] = Through(r)
  BY DEF RefuseItem, HandlersOK
<1> HIDE DEF r
<1> QED BY <1>2, <1>3, ThroughIsGood DEF Advanced

LEMMA ArrivesOK ==
  ASSUME HandlersOK, NEW h \in Handler, NEW task \in DOMAIN First, NEW b \in Seq(Op),
         NEW s \in Sender \cup {NoSender}, Arrives(h, task, b, s)
  PROVE  Advanced(h, handler'[h]) /\ handler'[h].at \in Entry
BY RequestIsGood DEF Arrives, Advanced, HandlersOK

-----------------------------------------------------------------------------
(* The labels between the claim of an IN and the end of its approval. *)
Own == {"execute", "release", "link", "label"}
Owns(h, o) == handler[h].item = o /\ handler[h].at \in Own

(* The inductive invariant: a row is owned by the one handler that claimed *)
(* it, the owner knows whether the stock is committed, and what is in the  *)
(* queue has no stock.                                                     *)
OneOwner == \A h, i \in Handler, o \in Op : Owns(h, o) /\ Owns(i, o) => h = i

OwnerKnows ==
  \A h \in Handler, o \in Op : Owns(h, o) =>
    /\ TypeOf[o] = "IN" /\ status[o] \in {"APPROVED", "REJECTED"} /\ labels[o] = 0
    /\ handler[h].at \in {"execute", "release"} => commits[o] = 0
    /\ handler[h].at \in {"link", "label"} => commits[o] = 1

QueuedHasNoStock ==
  \A o \in Op : status[o] \in {"NONE", "PENDING"} => commits[o] = 0

IInv == RowsOK /\ HandlersOK /\ OneOwner /\ OwnerKnows /\ QueuedHasNoStock /\ CommitsAtMostOnce

-----------------------------------------------------------------------------
(* Nearly every step is quiet: it commits nothing, nobody becomes an owner,*)
(* and what it does to a row, the ones who own the row do not mind.        *)
Committing(h) == handler[h].at \in {"execute", "release"}

Quiet ==
  /\ RowsOK' /\ HandlersOK' /\ commits' = commits
  /\ \A h \in Handler, o \in Op :
       Owns(h, o)' => Owns(h, o) /\ (Committing(h)' <=> Committing(h))
  /\ \A o \in Op :
       /\ \/ status'[o] = status[o]
          \/ status'[o] = "REJECTED"
          \/ commits[o] = 0 /\ \A h \in Handler : ~ Owns(h, o)'
       /\ linked'[o] => linked[o] \/ commits[o] = 1
       /\ \/ labels'[o] = labels[o]
          \/ labels'[o] <= commits[o] /\ \A h \in Handler : ~ Owns(h, o)'

LEMMA QuietStep == IInv /\ Quiet => IInv'
<1> SUFFICES ASSUME IInv, Quiet PROVE IInv'
  OBVIOUS
<1>1. OneOwner'
  BY DEF IInv, Quiet, OneOwner
<1>2. OwnerKnows'
  <2> SUFFICES ASSUME NEW h \in Handler, NEW o \in Op, Owns(h, o)'
               PROVE  /\ TypeOf[o] = "IN" /\ status'[o] \in {"APPROVED", "REJECTED"} /\ labels'[o] = 0
                      /\ handler'[h].at \in {"execute", "release"} => commits'[o] = 0
                      /\ handler'[h].at \in {"link", "label"} => commits'[o] = 1
    BY DEF OwnerKnows
  <2>1. Owns(h, o) /\ (Committing(h)' <=> Committing(h)) /\ commits' = commits
    BY DEF Quiet
  <2>2. labels'[o] = labels[o] /\ (status'[o] = status[o] \/ status'[o] = "REJECTED")
    BY DEF Quiet
  <2>3. TypeOf[o] = "IN" /\ status[o] \in {"APPROVED", "REJECTED"} /\ labels[o] = 0
    BY <2>1 DEF IInv, OwnerKnows
  <2>4. Committing(h) => commits[o] = 0
    BY <2>1 DEF IInv, OwnerKnows, Committing
  <2>5. ~ Committing(h) => commits[o] = 1
    BY <2>1 DEF IInv, OwnerKnows, Committing, Owns, Own
  <2> QED BY <2>1, <2>2, <2>3, <2>4, <2>5 DEF Committing
<1>3. QueuedHasNoStock'
  BY DEF IInv, Quiet, QueuedHasNoStock
<1>4. CommitsAtMostOnce'
  BY DEF IInv, Quiet, CommitsAtMostOnce
<1> QED BY <1>1, <1>2, <1>3, <1>4 DEF IInv, Quiet

(* What becomes of the owners when one handler moves. *)
LEMMA OwnersAfter ==
  ASSUME HandlersOK, NEW h \in Handler, NEW r, Advanced(h, r)
  PROVE  /\ \A i \in Handler \ {h}, o \in Op :
              /\ Owns(i, o)' <=> Owns(i, o)
              /\ Committing(i)' <=> Committing(i)
         /\ r.at \notin Own => \A o \in Op : ~ Owns(h, o)'
         /\ r.item = handler[h].item /\ r.at \in Own /\ handler[h].at \in Own
              => \A o \in Op : Owns(h, o)' <=> Owns(h, o)
<1>1. handler'[h] = r /\ \A i \in Handler \ {h} : handler'[i] = handler[i]
  BY AdvancedOK
<1>2. \A i \in Handler \ {h}, o \in Op :
        /\ Owns(i, o)' <=> Owns(i, o)
        /\ Committing(i)' <=> Committing(i)
  BY <1>1 DEF Owns, Committing
<1>3. r.at \notin Own => \A o \in Op : ~ Owns(h, o)'
  BY <1>1 DEF Owns
<1>4. r.item = handler[h].item /\ r.at \in Own /\ handler[h].at \in Own
        => \A o \in Op : Owns(h, o)' <=> Owns(h, o)
  BY <1>1 DEF Owns
<1> QED BY <1>2, <1>3, <1>4

LEMMA EntryIsNotOwn == Entry \cap Own = {}
BY DEF Entry, Own

(* A status changes only to REJECTED, or of a row that no other handler    *)
(* owns and that has no stock.                                             *)
StatusSafe(h) ==
  \A o \in Op :
    \/ status'[o] = status[o]
    \/ status'[o] = "REJECTED"
    \/ commits[o] = 0 /\ \A i \in Handler \ {h} : ~ Owns(i, o)

(* A step of a handler that is not an owner afterwards.                    *)
LEMMA OutsideStep ==
  ASSUME IInv, NEW h \in Handler, Advanced(h, handler'[h]), handler'[h].at \notin Own,
         RowsOK', commits' = commits, labels' = labels, linked' = linked, StatusSafe(h)
  PROVE  IInv'
<1>1. HandlersOK'
  BY AdvancedOK DEF IInv
<1>2. \A i \in Handler, o \in Op :
        Owns(i, o)' => i # h /\ Owns(i, o) /\ (Committing(i)' <=> Committing(i))
  BY OwnersAfter DEF IInv
<1> QED BY <1>1, <1>2, QuietStep DEF Quiet, StatusSafe

(* The same when the rows that matter stay as they are. *)
LEMMA OutsideStepRows ==
  ASSUME IInv, NEW h \in Handler, Advanced(h, handler'[h]), handler'[h].at \notin Own,
         RowsOK', UNCHANGED <<status, commits, labels, linked>>
  PROVE  IInv'
<1>1. StatusSafe(h)
  BY DEF StatusSafe
<1> QED BY <1>1, OutsideStep

-----------------------------------------------------------------------------
(* One lemma per operation: it preserves the invariant. *)

LEMMA SyncSteps ==
  ASSUME IInv, NEW h \in Handler,
         SyncLookup(h) \/ SyncCreate(h) \/ SyncItemFails(h) \/ Answer(h)
  PROVE  IInv'
<1> USE EntryIsNotOwn
<1>0. HandlersOK /\ RowsOK
  BY DEF IInv
<1>1. CASE SyncLookup(h)
  <2>1. handler[h].at = "lookup" /\ (NextItem(h) \/ Goto(h, "create"))
    BY <1>1 DEF SyncLookup, At
  <2>2. Advanced(h, handler'[h]) /\ handler'[h].at \notin Own
    BY <1>0, <2>1, NextItemOK, GotoOK DEF Labels, Own
  <2>3. UNCHANGED rows
    BY <1>1 DEF SyncLookup
  <2> QED BY <1>0, <2>2, <2>3, OutsideStepRows DEF rows, RowsOK
<1>2. CASE SyncCreate(h)
  <2>1. handler[h].at = "create" /\ (NextItem(h) \/ Goto(h, "read") \/ RefuseItem(h))
    BY <1>2 DEF SyncCreate, At
  <2>2. Advanced(h, handler'[h]) /\ handler'[h].at \notin Own
    BY <1>0, <2>1, NextItemOK, RefuseItemOK, GotoOK DEF Labels, Own
  <2>3. UNCHANGED <<commits, linked, attached, loose, labels>>
    BY <1>2 DEF SyncCreate
  <2>4. \/ status' = status
        \/ status[Item(h)] = "NONE" /\ status' = [status EXCEPT ![Item(h)] = "PENDING"]
    BY <1>2 DEF SyncCreate
  <2>5. Item(h) \in Op
    BY <1>0, <2>1, AtWork
  <2>6. StatusSafe(h)
    <3>1. status[Item(h)] = "NONE" =>
            commits[Item(h)] = 0 /\ \A i \in Handler : ~ Owns(i, Item(h))
      BY <2>5 DEF IInv, OwnerKnows, QueuedHasNoStock
    <3>2. \A o \in Op : o # Item(h) => status'[o] = status[o]
      BY <1>0, <2>4 DEF RowsOK
    <3> QED BY <2>4, <3>1, <3>2 DEF StatusSafe
  <2>7. RowsOK'
    BY <1>0, <2>3, <2>4 DEF RowsOK
  <2> QED BY <2>2, <2>3, <2>6, <2>7, OutsideStep
<1>3. CASE SyncItemFails(h)
  <2>1. handler[h].at \in {"lookup", "create"} /\ RefuseItem(h) /\ UNCHANGED rows
    BY <1>3 DEF SyncItemFails, At
  <2>2. Advanced(h, handler'[h]) /\ handler'[h].at \notin Own
    BY <1>0, <2>1, RefuseItemOK
  <2> QED BY <1>0, <2>1, <2>2, OutsideStepRows DEF rows, RowsOK
<1>4. CASE Answer(h)
  <2>1. handler' = [handler EXCEPT ![h] = Idle] /\ UNCHANGED rows
    BY <1>4 DEF Answer
  <2>2. Advanced(h, handler'[h]) /\ handler'[h].at \notin Own
    BY <1>0, <2>1, IdleIsGood DEF Advanced, HandlersOK, Own
  <2> QED BY <1>0, <2>1, <2>2, OutsideStepRows DEF rows, RowsOK
<1> QED BY <1>1, <1>2, <1>3, <1>4

(* A request of any kind is one of those that Arrives brings. *)
LEMMA SomebodyArrives ==
  ASSUME NEW h \in Handler,
         Review(h) \/ Send(h) \/ \E o \in Photographed : PhotoArrives(h, o)
  PROVE  \E task \in DOMAIN First, b \in Seq(Op), s \in Sender \cup {NoSender} :
           Arrives(h, task, b, s)
<1>1. \A o \in Op : <<o>> \in Seq(Op)
  <2> SUFFICES ASSUME NEW o \in Op PROVE <<o>> \in Seq(Op)
    OBVIOUS
  <2> QED OBVIOUS
<1>2. {"sync", "direct", "approve", "reject", "photo"} = DOMAIN First
  BY DEF First
<1>3. CASE Review(h)
  BY <1>1, <1>2, <1>3, BatchIsSeq DEF Review, ApproveArrives, RejectArrives
<1>4. CASE Send(h)
  <2>1. PICK b \in Batch, s \in Sender \cup {NoSender}, m \in BOOLEAN : SyncArrives(h, b, s, m)
    BY <1>4 DEF Send
  <2>2. Arrives(h, "direct", b, s) \/ Arrives(h, "sync", b, s)
    BY <2>1 DEF SyncArrives
  <2> QED BY <1>2, <2>2, BatchIsSeq
<1>5. CASE \E o \in Photographed : PhotoArrives(h, o)
  BY <1>1, <1>2, <1>5, PhotographedAssumption DEF PhotoArrives
<1> QED BY <1>3, <1>4, <1>5

LEMMA ArrivalSteps ==
  ASSUME IInv, NEW h \in Handler,
         Review(h) \/ Send(h) \/ \E o \in Photographed : PhotoArrives(h, o)
  PROVE  IInv'
<1>0. HandlersOK /\ RowsOK
  BY DEF IInv
<1>1. PICK task \in DOMAIN First, b \in Seq(Op), s \in Sender \cup {NoSender} : Arrives(h, task, b, s)
  BY SomebodyArrives
<1>2. Advanced(h, handler'[h]) /\ handler'[h].at \notin Own
  BY <1>0, <1>1, ArrivesOK, EntryIsNotOwn
<1>3. UNCHANGED rows
  BY <1>1 DEF Arrives
<1> QED BY <1>0, <1>2, <1>3, OutsideStepRows DEF rows, RowsOK

LEMMA ReviewSteps ==
  ASSUME IInv, NEW h \in Handler, ApproveRead(h) \/ RejectCheck(h) \/ Reject(h)
  PROVE  IInv'
<1>0. HandlersOK /\ RowsOK
  BY DEF IInv
<1>1. CASE ApproveRead(h) \/ RejectCheck(h)
  <2>1. /\ handler[h].at \in {"read", "check"} /\ UNCHANGED rows
        /\ NextItem(h) \/ Goto(h, "claim") \/ Goto(h, "reject")
    BY <1>1 DEF ApproveRead, RejectCheck, At
  <2>2. Advanced(h, handler'[h]) /\ handler'[h].at \notin Own
    BY <1>0, <2>1, NextItemOK, GotoOK, EntryIsNotOwn DEF Labels, Own
  <2> QED BY <1>0, <2>1, <2>2, OutsideStepRows DEF rows, RowsOK
<1>2. CASE Reject(h)
  <2>1. /\ handler[h].at = "reject" /\ NextItem(h)
        /\ status' = [status EXCEPT ![Item(h)] = "REJECTED"]
        /\ UNCHANGED <<commits, linked, attached, loose, labels>>
    BY <1>2 DEF Reject, At
  <2>2. Advanced(h, handler'[h]) /\ handler'[h].at \notin Own
    BY <1>0, <2>1, NextItemOK, EntryIsNotOwn
  <2>3. RowsOK'
    BY <1>0, <2>1 DEF RowsOK
  <2>4. StatusSafe(h)
    BY <1>0, <2>1 DEF RowsOK, StatusSafe
  <2> QED BY <2>1, <2>2, <2>3, <2>4, OutsideStep
<1> QED BY <1>1, <1>2

LEMMA ClaimStep == ASSUME IInv, NEW h \in Handler, Claim(h) PROVE IInv'
<1>0. HandlersOK /\ RowsOK
  BY DEF IInv
<1>1. handler[h].at = "claim" /\ Item(h) \in Op
  BY <1>0, AtWork DEF Claim, At
<1>2. UNCHANGED <<commits, linked, attached, loose, labels>>
  BY DEF Claim
<1>3. CASE NextItem(h) /\ UNCHANGED status
  BY <1>0, <1>1, <1>2, <1>3, NextItemOK, EntryIsNotOwn, OutsideStepRows DEF RowsOK
<1>4. CASE /\ status[Item(h)] = "PENDING"
           /\ status' = [status EXCEPT ![Item(h)] = "APPROVED"]
           /\ NextItem(h)
  <2>1. Advanced(h, handler'[h]) /\ handler'[h].at \notin Own
    BY <1>0, <1>1, <1>4, NextItemOK, EntryIsNotOwn
  <2>2. commits[Item(h)] = 0 /\ \A i \in Handler : ~ Owns(i, Item(h))
    BY <1>1, <1>4 DEF IInv, OwnerKnows, QueuedHasNoStock
  <2>3. StatusSafe(h)
    BY <1>0, <1>4, <2>2 DEF RowsOK, StatusSafe
  <2>4. RowsOK'
    BY <1>0, <1>2, <1>4 DEF RowsOK
  <2> QED BY <1>2, <2>1, <2>3, <2>4, OutsideStep
<1>5. CASE /\ status[Item(h)] = "PENDING" /\ TypeOf[Item(h)] # "COUNT"
           /\ status' = [status EXCEPT ![Item(h)] = "APPROVED"]
           /\ Goto(h, "execute")
  <2> DEFINE o == Item(h)
  <2>1. /\ Advanced(h, handler'[h])
        /\ handler'[h].at = "execute" /\ handler'[h].item = o
    BY <1>0, <1>1, <1>5, GotoOK DEF Labels, Item
  <2>2. commits[o] = 0 /\ \A i \in Handler : ~ Owns(i, o)
    BY <1>1, <1>5 DEF IInv, OwnerKnows, QueuedHasNoStock
  <2>3. TypeOf[o] = "IN"
    BY <1>1, <1>5, TypeOfAssumption
  <2>4. RowsOK' /\ HandlersOK'
    BY <1>0, <1>2, <1>5, <2>1, AdvancedOK DEF RowsOK
  <2>5. \A i \in Handler, q \in Op :
          Owns(i, q)' => \/ i = h /\ q = o
                         \/ q # o /\ i # h /\ Owns(i, q) /\ handler'[i] = handler[i]
    BY <1>0, <2>1, <2>2, AdvancedOK DEF Owns
  <2>6. status'[o] = "APPROVED" /\ \A q \in Op : q # o => status'[q] = status[q]
    BY <1>0, <1>1, <1>5 DEF RowsOK
  <2>7. labels[o] = 0
    BY <1>0, <1>1, <2>2 DEF IInv, CommitsAtMostOnce, RowsOK
  <2> HIDE DEF o
  <2>8. OneOwner'
    BY <2>5 DEF IInv, OneOwner
  <2>9. OwnerKnows'
    BY <1>2, <2>1, <2>2, <2>3, <2>5, <2>6, <2>7 DEF IInv, OwnerKnows
  <2>10. QueuedHasNoStock' /\ CommitsAtMostOnce'
    BY <1>2, <2>6 DEF IInv, QueuedHasNoStock, CommitsAtMostOnce
  <2> QED BY <2>4, <2>8, <2>9, <2>10 DEF IInv
<1> QED BY <1>3, <1>4, <1>5 DEF Claim

LEMMA ExecuteStep == ASSUME IInv, NEW h \in Handler, Execute(h) PROVE IInv'
<1>0. HandlersOK /\ RowsOK
  BY DEF IInv
<1> DEFINE o == Item(h)
<1>1. handler[h].at = "execute" /\ o \in Op /\ Owns(h, o)
  BY <1>0, AtWork DEF Execute, At, Owns, Item, Own
<1>2. UNCHANGED <<status, linked, attached, loose, labels>>
  BY DEF Execute
<1>3. CASE Goto(h, "release") /\ UNCHANGED commits
  <2>1. /\ Advanced(h, handler'[h])
        /\ handler'[h].at = "release" /\ handler'[h].item = handler[h].item
    BY <1>0, <1>1, <1>3, GotoOK DEF Labels
  <2>2. RowsOK' /\ HandlersOK'
    BY <1>0, <1>2, <1>3, <2>1, AdvancedOK DEF RowsOK
  <2>3. \A i \in Handler, q \in Op : Owns(i, q)' => Owns(i, q) /\ (Committing(i)' <=> Committing(i))
    BY <1>0, <1>1, <2>1, OwnersAfter DEF Own, Committing
  <2> QED BY <1>2, <1>3, <2>2, <2>3, QuietStep DEF Quiet
<1>4. CASE Goto(h, "link") /\ commits' = [commits EXCEPT ![Item(h)] = @ + 1]
  <2>1. /\ Advanced(h, handler'[h])
        /\ handler'[h].at = "link" /\ handler'[h].item = handler[h].item
    BY <1>0, <1>1, <1>4, GotoOK DEF Labels
  <2>2. /\ TypeOf[o] = "IN" /\ status[o] \in {"APPROVED", "REJECTED"}
        /\ labels[o] = 0 /\ commits[o] = 0
    BY <1>1 DEF IInv, OwnerKnows
  <2>3. commits'[o] = 1 /\ \A q \in Op : q # o => commits'[q] = commits[q]
    BY <1>0, <1>1, <1>4, <2>2 DEF RowsOK
  <2>4. RowsOK' /\ HandlersOK'
    <3>1. commits' \in [Op -> Nat]
      BY <1>0, <1>1, <1>4 DEF RowsOK
    <3> QED BY <1>0, <1>2, <2>1, <3>1, AdvancedOK DEF RowsOK
  <2>5. \A i \in Handler, q \in Op : Owns(i, q)' => Owns(i, q)
    BY <1>0, <1>1, <2>1, OwnersAfter DEF Own
  <2>6. OneOwner'
    BY <2>5 DEF IInv, OneOwner
  <2>7. \A i \in Handler, q \in Op :
          Owns(i, q)' => \/ i = h /\ q = o
                         \/ i # h /\ q # o /\ handler'[i] = handler[i]
    <3> SUFFICES ASSUME NEW i \in Handler, NEW q \in Op, Owns(i, q)'
                 PROVE  \/ i = h /\ q = o
                        \/ i # h /\ q # o /\ handler'[i] = handler[i]
      OBVIOUS
    <3>1. Owns(i, q)
      BY <2>5
    <3>2. CASE i = h
      BY <3>1, <3>2, <1>1 DEF Owns
    <3>3. CASE i # h
      <4>1. q # o
        BY <3>1, <3>3, <1>1 DEF IInv, OneOwner
      <4>2. handler'[i] = handler[i]
        BY <1>0, <2>1, <3>3, AdvancedOK
      <4> QED BY <3>3, <4>1, <4>2
    <3> QED BY <3>2, <3>3
  <2> HIDE DEF o
  <2>8. OwnerKnows'
    BY <1>2, <2>1, <2>2, <2>3, <2>5, <2>7 DEF IInv, OwnerKnows
  <2>9. QueuedHasNoStock' /\ CommitsAtMostOnce'
    BY <1>0, <1>2, <2>2, <2>3 DEF IInv, QueuedHasNoStock, CommitsAtMostOnce, RowsOK
  <2> QED BY <2>4, <2>6, <2>8, <2>9 DEF IInv
<1> QED BY <1>3, <1>4 DEF Execute

LEMMA ReleaseStep == ASSUME IInv, NEW h \in Handler, Release(h) PROVE IInv'
<1>0. HandlersOK /\ RowsOK
  BY DEF IInv
<1> DEFINE o == Item(h)
<1>1. handler[h].at = "release" /\ o \in Op /\ Owns(h, o)
  BY <1>0, AtWork DEF Release, At, Owns, Item, Own
<1>2. /\ NextItem(h) /\ UNCHANGED <<commits, linked, attached, loose, labels>>
      /\ status' = status \/ status' = [status EXCEPT ![o] = "PENDING"]
  BY DEF Release
<1>3. Advanced(h, handler'[h]) /\ handler'[h].at \notin Own
  BY <1>0, <1>1, <1>2, NextItemOK, EntryIsNotOwn
<1>4. commits[o] = 0 /\ \A i \in Handler \ {h} : ~ Owns(i, o)
  BY <1>1 DEF IInv, OwnerKnows, OneOwner
<1>5. StatusSafe(h)
  BY <1>0, <1>2, <1>4 DEF RowsOK, StatusSafe
<1>6. RowsOK'
  BY <1>0, <1>2 DEF RowsOK
<1> QED BY <1>2, <1>3, <1>5, <1>6, OutsideStep

LEMMA LinkStep == ASSUME IInv, NEW h \in Handler, Link(h) PROVE IInv'
<1>0. HandlersOK /\ RowsOK
  BY DEF IInv
<1> DEFINE o == Item(h)
<1>1. handler[h].at = "link" /\ o \in Op /\ Owns(h, o) /\ commits[o] = 1
  BY <1>0, AtWork DEF Link, At, Owns, Item, Own, IInv, OwnerKnows
<1>2. UNCHANGED <<status, commits, labels>>
  BY DEF Link
<1>3. CASE NextItem(h) /\ UNCHANGED <<linked, attached, loose>>
  BY <1>0, <1>1, <1>2, <1>3, NextItemOK, EntryIsNotOwn, OutsideStepRows DEF RowsOK
<1>4. CASE /\ linked' = [linked EXCEPT ![Item(h)] = TRUE]
           /\ attached' = [attached EXCEPT ![Item(h)] = @ + loose[Item(h)]]
           /\ loose' = [loose EXCEPT ![Item(h)] = 0]
           /\ Goto(h, "label")
  <2>1. /\ Advanced(h, handler'[h])
        /\ handler'[h].at = "label" /\ handler'[h].item = handler[h].item
    BY <1>0, <1>1, <1>4, GotoOK DEF Labels
  <2>2. linked' \in [Op -> BOOLEAN] /\ loose' \in [Op -> Nat]
    BY <1>0, <1>4 DEF RowsOK
  <2>3. attached' \in [Op -> Nat]
    <3>1. attached[o] + loose[o] \in Nat
      BY <1>0, <1>1 DEF RowsOK
    <3>2. attached' = [attached EXCEPT ![o] = attached[o] + loose[o]]
      BY <1>4
    <3> QED BY <1>0, <3>1, <3>2 DEF RowsOK
  <2>4. RowsOK' /\ HandlersOK'
    BY <1>0, <1>2, <2>1, <2>2, <2>3, AdvancedOK DEF RowsOK
  <2>5. \A i \in Handler, q \in Op : Owns(i, q)' => Owns(i, q) /\ (Committing(i)' <=> Committing(i))
    BY <1>0, <1>1, <2>1, OwnersAfter DEF Own, Committing
  <2>6. \A q \in Op : linked'[q] => linked[q] \/ commits[q] = 1
    BY <1>0, <1>1, <1>4 DEF RowsOK
  <2> QED BY <1>2, <2>4, <2>5, <2>6, QuietStep DEF Quiet
<1> QED BY <1>3, <1>4 DEF Link

LEMMA LabelStep == ASSUME IInv, NEW h \in Handler, Label(h) PROVE IInv'
<1>0. HandlersOK /\ RowsOK
  BY DEF IInv
<1> DEFINE o == Item(h)
<1>1. handler[h].at = "label" /\ o \in Op /\ Owns(h, o)
  BY <1>0, AtWork DEF Label, At, Owns, Item, Own
<1>2. commits[o] = 1 /\ labels[o] = 0 /\ \A i \in Handler \ {h} : ~ Owns(i, o)
  BY <1>1 DEF IInv, OwnerKnows, OneOwner
<1>3. /\ NextItem(h) /\ UNCHANGED <<status, commits, linked, attached, loose>>
      /\ labels' = labels \/ labels' = [labels EXCEPT ![o] = @ + 1]
  BY DEF Label
<1>4. Advanced(h, handler'[h]) /\ handler'[h].at \notin Own
  BY <1>0, <1>1, <1>3, NextItemOK, EntryIsNotOwn
<1>5. RowsOK' /\ HandlersOK'
  BY <1>0, <1>3, <1>4, AdvancedOK DEF RowsOK
<1>6. \A i \in Handler, q \in Op :
        Owns(i, q)' => i # h /\ Owns(i, q) /\ (Committing(i)' <=> Committing(i))
  BY <1>0, <1>4, OwnersAfter
<1>7. \A q \in Op : \/ labels'[q] = labels[q]
                    \/ q = o /\ labels'[q] = 1
  BY <1>0, <1>1, <1>2, <1>3 DEF RowsOK
<1> QED BY <1>2, <1>3, <1>5, <1>6, <1>7, QuietStep DEF Quiet

(* A photo handler remembers whether it saw the ledger row linked. *)
LEMMA DedupeOK ==
  ASSUME RowsOK, HandlersOK, NEW h \in Handler, handler[h].at \notin {"free", "answer"},
         handler' = [handler EXCEPT ![h].at = "dedupe", ![h].saw = linked[Item(h)]]
  PROVE  Advanced(h, handler'[h]) /\ handler'[h].at = "dedupe"
<1> DEFINE r == [handler[h] EXCEPT !.at = "dedupe", !.saw = linked[Item(h)]]
<1>1. handler[h] \in HandlerRecord /\ handler[h].task # "none" /\ Item(h) \in Op
  BY AtWork
<1>2. linked[Item(h)] \in BOOLEAN
  BY <1>1 DEF RowsOK
<1>3. /\ r \in HandlerRecord /\ r.at = "dedupe" /\ r.item = Item(h)
      /\ r.task = handler[h].task
  BY <1>1, <1>2 DEF HandlerRecord, Labels, Item
<1>4. handler' = [handler EXCEPT ![h] = r] /\ handler'[h] = r
  BY DEF HandlersOK
<1> HIDE DEF r
<1>5. GoodRecord(r)
  BY <1>1, <1>3, NoOpAssumption DEF GoodRecord
<1> QED BY <1>3, <1>4, <1>5 DEF Advanced

LEMMA PhotoSteps ==
  ASSUME IInv, NEW h \in Handler, PhotoFind(h) \/ PhotoDedupe(h) \/ PhotoStore(h)
  PROVE  IInv'
<1>0. HandlersOK /\ RowsOK
  BY DEF IInv
<1>1. /\ handler[h].at \in {"find", "dedupe", "store"}
      /\ UNCHANGED <<status, commits, linked, labels>>
  BY DEF PhotoFind, PhotoDedupe, PhotoStore, At, rows
<1>2. handler[h] \in HandlerRecord /\ handler[h].task # "none" /\ Item(h) \in Op
  BY <1>0, <1>1, AtWork
<1>3. \/ NextItem(h)
      \/ Goto(h, "store")
      \/ handler' = [handler EXCEPT ![h].at = "dedupe", ![h].saw = linked[Item(h)]]
  BY DEF PhotoFind, PhotoDedupe, PhotoStore
<1>4. Advanced(h, handler'[h]) /\ handler'[h].at \notin Own
  <2>1. CASE NextItem(h) \/ Goto(h, "store")
    BY <1>0, <1>1, <2>1, NextItemOK, GotoOK, EntryIsNotOwn DEF Labels, Own
  <2>2. CASE handler' = [handler EXCEPT ![h].at = "dedupe", ![h].saw = linked[Item(h)]]
    BY <1>0, <1>1, <2>2, DedupeOK DEF Own
  <2> QED BY <1>3, <2>1, <2>2
<1>5. RowsOK'
  <2>1. \/ UNCHANGED <<attached, loose>>
        \/ attached' = [attached EXCEPT ![Item(h)] = @ + 1] /\ UNCHANGED loose
        \/ loose' = [loose EXCEPT ![Item(h)] = @ + 1] /\ UNCHANGED attached
    BY DEF PhotoFind, PhotoDedupe, PhotoStore, rows
  <2>2. attached' \in [Op -> Nat] /\ loose' \in [Op -> Nat]
    BY <1>0, <1>2, <2>1 DEF RowsOK
  <2> QED BY <1>0, <1>1, <2>2 DEF RowsOK
<1> QED BY <1>1, <1>4, <1>5, OutsideStepRows

LEMMA HangUpStep == ASSUME IInv, NEW h \in Handler, HangUp(h) PROVE IInv'
<1>0. HandlersOK /\ RowsOK
  BY DEF IInv
<1> DEFINE r == [handler[h] EXCEPT !.sender = NoSender]
<1>1. handler[h] \in HandlerRecord /\ GoodRecord(handler[h])
  BY <1>0 DEF HandlersOK, GoodRecord
<1>2. /\ r \in HandlerRecord /\ r.at = handler[h].at /\ r.item = handler[h].item
      /\ r.task = handler[h].task
  BY <1>1 DEF HandlerRecord
<1>3. handler' = [handler EXCEPT ![h] = r] /\ handler'[h] = r /\ UNCHANGED rows
  BY <1>0 DEF HangUp, HandlersOK
<1> HIDE DEF r
<1>4. Advanced(h, r)
  BY <1>1, <1>2, <1>3 DEF Advanced, GoodRecord
<1>5. HandlersOK' /\ \A i \in Handler : handler'[i].at = handler[i].at /\ handler'[i].item = handler[i].item
  BY <1>0, <1>2, <1>3, <1>4, AdvancedOK
<1>6. \A i \in Handler, o \in Op : Owns(i, o)' => Owns(i, o) /\ (Committing(i)' <=> Committing(i))
  BY <1>5 DEF Owns, Committing
<1> QED BY <1>0, <1>3, <1>5, <1>6, QuietStep DEF Quiet, rows, RowsOK

LEMMA RequestFailsStep == ASSUME IInv, RequestFails PROVE IInv'
<1>1. UNCHANGED <<rows, handler>>
  BY DEF RequestFails
<1> QED BY <1>1 DEF rows, IInv, RowsOK, HandlersOK, OneOwner, OwnerKnows, Owns,
                    QueuedHasNoStock, CommitsAtMostOnce

LEMMA CrashStep == ASSUME IInv, Crash PROVE IInv'
<1>1. handler' = [h \in Handler |-> Idle] /\ UNCHANGED rows
  BY DEF Crash
<1>2. HandlersOK'
  BY <1>1, IdleIsGood DEF HandlersOK
<1>3. \A h \in Handler, o \in Op : ~ Owns(h, o)'
  BY <1>1, IdleIsGood DEF Owns, Own
<1> QED BY <1>1, <1>2, <1>3, QuietStep DEF Quiet, rows, RowsOK, IInv

-----------------------------------------------------------------------------
(* THEOREMS *)

LEMMA InitInv == Init => IInv
<1> SUFFICES ASSUME Init PROVE IInv
  OBVIOUS
<1>1. RowsOK
  BY DEF Init, RowsOK
<1>2. HandlersOK
  BY IdleIsGood DEF Init, HandlersOK
<1>3. \A h \in Handler, o \in Op : ~ Owns(h, o)
  BY IdleIsGood DEF Init, Owns, Own
<1> QED BY <1>1, <1>2, <1>3
        DEF Init, IInv, OneOwner, OwnerKnows, QueuedHasNoStock, CommitsAtMostOnce

LEMMA StepInv == IInv /\ [Next]_vars => IInv'
<1> SUFFICES ASSUME IInv, [Next]_vars PROVE IInv'
  OBVIOUS
<1>1. CASE UNCHANGED vars
  BY <1>1 DEF vars, rows, IInv, RowsOK, HandlersOK, OneOwner, OwnerKnows, Owns,
              QueuedHasNoStock, CommitsAtMostOnce
<1>2. CASE Crash \/ RequestFails
  BY <1>2, CrashStep, RequestFailsStep
<1>3. ASSUME NEW h \in Handler, Step(h) PROVE IInv'
  BY <1>3, SyncSteps, ReviewSteps, ClaimStep, ExecuteStep, ReleaseStep, LinkStep, LabelStep,
     PhotoSteps DEF Step
<1>4. ASSUME NEW h \in Handler,
             Answer(h) \/ HangUp(h) \/ Review(h) \/ Send(h) \/ \E o \in Photographed : PhotoArrives(h, o)
      PROVE  IInv'
  BY <1>4, SyncSteps, HangUpStep, ArrivalSteps
<1> QED BY <1>1, <1>2, <1>3, <1>4 DEF Next

(* The variables keep their types, whatever the phones send, the managers  *)
(* do, fails or stops.                                                     *)
THEOREM TypeCorrect == Spec => []TypeOK
<1>1. IInv => TypeOK
  BY TypeOKParts DEF IInv
<1> QED BY <1>1, InitInv, StepInv, PTL DEF Spec

(* For any number of phones, managers, retries, failures and restarts, the *)
(* stock of a captured operation is committed at most once.                *)
THEOREM CommitsOnce == Spec => []CommitsAtMostOnce
<1>1. IInv => CommitsAtMostOnce
  BY DEF IInv
<1> QED BY <1>1, InitInv, StepInv, PTL DEF Spec

(* A committed operation never goes back to the queue, where it could be   *)
(* approved and committed again, and its ledger row stays linked.          *)
THEOREM CommitStays == Spec => CommitIsFinal
<1> DEFINE A == \A o \in Op :
                  commits[o] > 0 => /\ status'[o] # "PENDING"
                                    /\ commits'[o] = commits[o]
                                    /\ linked[o] => linked'[o]
<1>1. ASSUME IInv, Next PROVE A
  <2> SUFFICES ASSUME NEW o \in Op, commits[o] > 0
               PROVE  /\ status'[o] # "PENDING"
                      /\ commits'[o] = commits[o]
                      /\ linked[o] => linked'[o]
    OBVIOUS
  <2>1. IInv' /\ RowsOK /\ HandlersOK /\ RowsOK'
    BY <1>1, StepInv DEF IInv
  <2>2. commits[o] = 1
    BY <2>1, <1>1, TypeOfAssumption DEF IInv, CommitsAtMostOnce, RowsOK
  <2>3. commits'[o] <= 1
    BY <2>1, TypeOfAssumption DEF IInv, CommitsAtMostOnce, RowsOK
  <2> DEFINE Kept == commits'[o] >= commits[o] /\ (linked[o] => linked'[o])
  <2>4. Kept
    <3>1. CASE UNCHANGED <<commits, linked>>
      BY <2>1, <3>1 DEF RowsOK
    <3>2. ASSUME NEW h \in Handler, Execute(h) PROVE Kept
      BY <2>1, <3>2 DEF Execute, RowsOK
    <3>3. ASSUME NEW h \in Handler, Link(h) PROVE Kept
      BY <2>1, <3>3 DEF Link, RowsOK
    <3> QED
      BY <1>1, <3>1, <3>2, <3>3
      DEF Next, Step, Crash, RequestFails, SyncLookup, SyncCreate, SyncItemFails, ApproveRead, Claim, Release,
          Label, RejectCheck, Reject, PhotoFind, PhotoDedupe, PhotoStore, Answer, HangUp, Review,
          Send, PhotoArrives, SyncArrives, ApproveArrives, RejectArrives, Arrives, rows
  <2>5. commits'[o] = 1
    BY <2>1, <2>2, <2>3, <2>4 DEF RowsOK
  <2>6. status'[o] # "PENDING"
    BY <2>1, <2>5 DEF IInv, QueuedHasNoStock
  <2> QED BY <2>2, <2>4, <2>5, <2>6
<1>2. IInv /\ [Next]_vars => [A]_vars
  BY <1>1
<1> QED BY <1>2, InitInv, StepInv, PTL DEF Spec, CommitIsFinal

-----------------------------------------------------------------------------
(* A claim whose commit fails is released. *)

(* The inductive invariant adds that nobody releases before a call failed: *)
(* a release that fails too is the second failure.                         *)
NobodyReleases == \A h \in Handler : handler[h].at # "release"

FailuresKnown ==
  /\ errors \in Nat /\ crashes \in Nat
  /\ errors = 0 => NobodyReleases
  /\ FailedClaimIsReleased

(* A step of a handler that holds no claim, which makes no row APPROVED,   *)
(* and after which the handler does not release.                           *)
LEMMA AsideStep ==
  ASSUME HandlersOK, FailuresKnown, NEW h \in Handler, Advanced(h, handler'[h]),
         handler[h].at \notin {"execute", "release"}, handler'[h].at # "release",
         \A o \in Op : status'[o] = "APPROVED" /\ TypeOf[o] = "IN" => status[o] = "APPROVED",
         commits' = commits, Fail \/ Works
  PROVE  FailuresKnown'
<1>1. \A i \in Handler \ {h} : handler'[i] = handler[i]
  BY AdvancedOK
<1>2. errors' \in Nat /\ errors <= errors' /\ crashes' = crashes
  BY DEF FailuresKnown, Fail, Works
<1>3. errors' = 0 => NobodyReleases'
  BY <1>1, <1>2 DEF FailuresKnown, NobodyReleases
<1>4. ApprovedHasStock => ApprovedHasStock'
  BY <1>1 DEF ApprovedHasStock, HoldsClaim, Item
<1> QED BY <1>2, <1>3, <1>4 DEF FailuresKnown, FailedClaimIsReleased

(* The steps that take a claim or give it up: one per action. *)

LEMMA ClaimKnown ==
  ASSUME IInv, FailuresKnown, NEW h \in Handler, Claim(h)
  PROVE  FailuresKnown'
<1> DEFINE o == Item(h)
<1>1. HandlersOK /\ RowsOK /\ handler[h].at = "claim" /\ o \in Op /\ Works /\ commits' = commits
  BY AtWork DEF IInv, Claim, At
<1>2. CASE NextItem(h) /\ (UNCHANGED status \/ TypeOf[o] = "COUNT")
  <2>1. Advanced(h, handler'[h]) /\ handler'[h].at # "release"
    BY <1>1, <1>2, NextItemOK, EntryIsNotOwn DEF Own
  <2>2. \A q \in Op : q # o => status'[q] = status[q]
    BY <1>1 DEF Claim, RowsOK
  <2>3. \A q \in Op : status'[q] = "APPROVED" /\ TypeOf[q] = "IN" => status[q] = "APPROVED"
    BY <1>2, <2>2
  <2> QED BY <1>1, <2>1, <2>3, AsideStep
<1>3. CASE Goto(h, "execute") /\ status' = [status EXCEPT ![o] = "APPROVED"]
  <2>1. /\ Advanced(h, handler'[h])
        /\ handler'[h].at = "execute" /\ handler'[h].item = o
    BY <1>1, <1>3, GotoOK DEF Labels, Item
  <2>2. \A i \in Handler \ {h} : handler'[i] = handler[i]
    BY <1>1, <2>1, AdvancedOK
  <2>3. \A q \in Op : q # o => status'[q] = status[q]
    BY <1>1, <1>3 DEF RowsOK
  <2> HIDE DEF o
  <2>5. ApprovedHasStock => ApprovedHasStock'
    BY <1>1, <2>1, <2>2, <2>3 DEF ApprovedHasStock, HoldsClaim, Item
  <2>6. NobodyReleases => NobodyReleases'
    BY <2>1, <2>2 DEF NobodyReleases
  <2> QED BY <1>1, <2>5, <2>6 DEF Works, FailuresKnown, FailedClaimIsReleased
<1> QED BY <1>2, <1>3 DEF Claim

LEMMA ExecuteKnown ==
  ASSUME IInv, FailuresKnown, NEW h \in Handler, Execute(h)
  PROVE  FailuresKnown'
<1> DEFINE o == Item(h)
<1>1. HandlersOK /\ RowsOK /\ handler[h].at = "execute" /\ o \in Op /\ status' = status
  BY AtWork DEF IInv, Execute, At
<1>2. commits[o] = 0
  BY <1>1 DEF IInv, OwnerKnows, Owns, Own, Item
<1>3. CASE Goto(h, "link") /\ Works /\ commits' = [commits EXCEPT ![o] = @ + 1]
  <2>1. Advanced(h, handler'[h]) /\ handler'[h].at = "link"
    BY <1>1, <1>3, GotoOK DEF Labels
  <2>2. \A i \in Handler \ {h} : handler'[i] = handler[i]
    BY <1>1, <2>1, AdvancedOK
  <2>3. commits'[o] = 1 /\ \A q \in Op : q # o => commits'[q] = commits[q]
    BY <1>1, <1>2, <1>3 DEF RowsOK
  <2>4. \A q \in Op : q # o => ~ HoldsClaim(h, q)
    BY DEF HoldsClaim
  <2> HIDE DEF o
  <2>5. ApprovedHasStock => ApprovedHasStock'
    BY <1>1, <2>2, <2>3, <2>4 DEF ApprovedHasStock, HoldsClaim, Item
  <2>6. NobodyReleases => NobodyReleases'
    BY <2>1, <2>2 DEF NobodyReleases
  <2> QED BY <1>3, <2>5, <2>6 DEF Works, FailuresKnown, FailedClaimIsReleased
<1>4. CASE Goto(h, "release") /\ Fail /\ UNCHANGED commits
  <2>1. /\ Advanced(h, handler'[h])
        /\ handler'[h].at = "release" /\ handler'[h].item = o
    BY <1>1, <1>4, GotoOK DEF Labels, Item
  <2>2. \A i \in Handler \ {h} : handler'[i] = handler[i]
    BY <1>1, <2>1, AdvancedOK
  <2>3. \A i \in Handler, q \in Op : HoldsClaim(i, q)' <=> HoldsClaim(i, q)
    BY <1>1, <2>1, <2>2 DEF HoldsClaim, Item
  <2>4. ApprovedHasStock => ApprovedHasStock'
    BY <1>1, <1>4, <2>3 DEF ApprovedHasStock
  <2>5. errors' \in Nat \ {0} /\ errors <= errors' /\ crashes' = crashes
    BY <1>4 DEF Fail, FailuresKnown
  <2> QED BY <2>4, <2>5 DEF FailuresKnown, FailedClaimIsReleased
<1> QED BY <1>3, <1>4 DEF Execute

LEMMA ReleaseKnown ==
  ASSUME IInv, FailuresKnown, NEW h \in Handler, Release(h)
  PROVE  FailuresKnown'
<1> DEFINE o == Item(h)
<1>1. HandlersOK /\ RowsOK /\ handler[h].at = "release" /\ o \in Op /\ commits' = commits
  BY AtWork DEF IInv, Release, At
<1>2. Advanced(h, handler'[h]) /\ handler'[h].at # "release"
  BY <1>1, NextItemOK, EntryIsNotOwn DEF Release, Own
<1>3. \A i \in Handler \ {h} : handler'[i] = handler[i]
  BY <1>1, <1>2, AdvancedOK
<1>4. errors \in Nat \ {0}
  BY <1>1 DEF FailuresKnown, NobodyReleases
<1>5. CASE Works /\ status' = [status EXCEPT ![o] = "PENDING"]
  <2>1. status'[o] = "PENDING" /\ \A q \in Op : q # o => status'[q] = status[q]
    BY <1>1, <1>5 DEF RowsOK
  <2>2. \A q \in Op : q # o => ~ HoldsClaim(h, q)
    BY DEF HoldsClaim
  <2> HIDE DEF o
  <2>3. ApprovedHasStock => ApprovedHasStock'
    BY <1>1, <1>3, <2>1, <2>2 DEF ApprovedHasStock, HoldsClaim, Item
  <2> QED BY <1>4, <1>5, <2>3 DEF Works, FailuresKnown, FailedClaimIsReleased
<1>6. CASE Fail
  <2>1. errors' \in Nat \ {0, 1} /\ crashes' = crashes
    BY <1>4, <1>6 DEF Fail
  <2> QED BY <2>1 DEF FailuresKnown, FailedClaimIsReleased
<1> QED BY <1>5, <1>6 DEF Release

LEMMA OthersKnown ==
  ASSUME IInv, FailuresKnown, NEW h \in Handler,
         \/ SyncLookup(h) \/ SyncCreate(h) \/ SyncItemFails(h) \/ ApproveRead(h)
         \/ Link(h) \/ Label(h) \/ RejectCheck(h) \/ Reject(h)
         \/ PhotoFind(h) \/ PhotoDedupe(h) \/ PhotoStore(h) \/ Answer(h)
  PROVE  FailuresKnown'
<1> DEFINE Aside == {"lookup", "create", "read", "link", "label", "check", "reject",
                     "find", "dedupe", "store"}
<1>1. HandlersOK /\ RowsOK
  BY DEF IInv
<1>2. commits' = commits /\ (Fail \/ Works)
  BY DEF SyncLookup, SyncCreate, SyncItemFails, ApproveRead, Link, Label, RejectCheck, Reject,
         PhotoFind, PhotoDedupe, PhotoStore, Answer, rows
<1>3. \A o \in Op : status'[o] = "APPROVED" => status[o] = "APPROVED"
  BY <1>1 DEF SyncLookup, SyncCreate, SyncItemFails, ApproveRead, Link, Label, RejectCheck, Reject,
         PhotoFind, PhotoDedupe, PhotoStore, Answer, rows, RowsOK
<1>4. CASE ~ Answer(h)
  <2>1. handler[h].at \in Aside
    BY <1>4 DEF SyncLookup, SyncCreate, SyncItemFails, ApproveRead, Link, Label, RejectCheck,
           Reject, PhotoFind, PhotoDedupe, PhotoStore, At
  <2>2. \/ NextItem(h) \/ RefuseItem(h)
        \/ \E l \in {"create", "read", "claim", "label", "reject", "store"} : Goto(h, l)
        \/ handler' = [handler EXCEPT ![h].at = "dedupe", ![h].saw = linked[Item(h)]]
    BY <1>4 DEF SyncLookup, SyncCreate, SyncItemFails, ApproveRead, Link, Label, RejectCheck,
           Reject, PhotoFind, PhotoDedupe, PhotoStore
  <2>3. CASE NextItem(h) \/ RefuseItem(h)
    <3>1. Advanced(h, handler'[h]) /\ handler'[h].at # "release"
      BY <1>1, <2>1, <2>3, NextItemOK, RefuseItemOK, EntryIsNotOwn DEF Own
    <3> QED BY <1>1, <1>2, <1>3, <2>1, <3>1, AsideStep
  <2>4. ASSUME NEW l \in {"create", "read", "claim", "label", "reject", "store"}, Goto(h, l)
        PROVE  FailuresKnown'
    <3>1. Advanced(h, handler'[h]) /\ handler'[h].at # "release"
      BY <1>1, <2>1, <2>4, GotoOK DEF Labels
    <3> QED BY <1>1, <1>2, <1>3, <2>1, <3>1, AsideStep
  <2>5. CASE handler' = [handler EXCEPT ![h].at = "dedupe", ![h].saw = linked[Item(h)]]
    <3>1. Advanced(h, handler'[h]) /\ handler'[h].at # "release"
      BY <1>1, <2>1, <2>5, DedupeOK
    <3> QED BY <1>1, <1>2, <1>3, <2>1, <3>1, AsideStep
  <2> QED BY <2>2, <2>3, <2>4, <2>5
<1>5. CASE Answer(h)
  <2>1. Advanced(h, handler'[h]) /\ handler'[h].at # "release" /\ handler[h].at = "answer"
    BY <1>1, <1>5, IdleIsGood DEF Answer, Advanced, HandlersOK, At
  <2> QED BY <1>1, <1>2, <1>3, <2>1, AsideStep
<1> QED BY <1>4, <1>5

LEMMA ArrivalsKnown ==
  ASSUME IInv, FailuresKnown, NEW h \in Handler,
         Review(h) \/ Send(h) \/ \E o \in Photographed : PhotoArrives(h, o)
  PROVE  FailuresKnown'
<1>1. PICK task \in DOMAIN First, b \in Seq(Op), s \in Sender \cup {NoSender} : Arrives(h, task, b, s)
  BY SomebodyArrives
<1>2. HandlersOK /\ handler[h].at = "free" /\ UNCHANGED rows /\ Works
  BY <1>1 DEF IInv, Arrives, At
<1>3. Advanced(h, handler'[h]) /\ handler'[h].at # "release"
  BY <1>1, <1>2, ArrivesOK, EntryIsNotOwn DEF Own
<1> QED BY <1>2, <1>3, AsideStep DEF rows

LEMMA HangUpKnown ==
  ASSUME IInv, FailuresKnown, NEW h \in Handler, HangUp(h)
  PROVE  FailuresKnown'
<1>1. \A i \in Handler : handler'[i].at = handler[i].at /\ handler'[i].item = handler[i].item
  <2>1. HandlersOK /\ handler' = [handler EXCEPT ![h] = [handler[h] EXCEPT !.sender = NoSender]]
    BY DEF IInv, HangUp, HandlersOK
  <2>2. handler[h] \in HandlerRecord
    BY <2>1 DEF HandlersOK, GoodRecord
  <2>3. [handler[h] EXCEPT !.sender = NoSender].at = handler[h].at
        /\ [handler[h] EXCEPT !.sender = NoSender].item = handler[h].item
    BY <2>2 DEF HandlerRecord
  <2> QED BY <2>1, <2>3 DEF HandlersOK
<1>2. UNCHANGED <<status, commits, errors, crashes>>
  BY DEF HangUp, rows, Works
<1>3. NobodyReleases => NobodyReleases'
  BY <1>1 DEF NobodyReleases
<1>4. ApprovedHasStock => ApprovedHasStock'
  BY <1>1, <1>2 DEF ApprovedHasStock, HoldsClaim, Item
<1> QED BY <1>2, <1>3, <1>4 DEF FailuresKnown, FailedClaimIsReleased

LEMMA FailuresKnownStep ==
  ASSUME IInv, FailuresKnown, [Next]_vars
  PROVE  FailuresKnown'
<1>1. CASE UNCHANGED vars
  BY <1>1 DEF vars, rows, FailuresKnown, NobodyReleases, FailedClaimIsReleased, ApprovedHasStock,
              HoldsClaim, Item
<1>2. CASE Crash
  <2>1. crashes' \in Nat \ {0} /\ errors' = errors
    BY <1>2 DEF Crash, FailuresKnown
  <2>2. NobodyReleases'
    BY <1>2, IdleIsGood DEF Crash, NobodyReleases
  <2> QED BY <2>1, <2>2 DEF FailuresKnown, FailedClaimIsReleased
<1>3. CASE RequestFails
  <2>1. errors' \in Nat \ {0} /\ errors <= errors' /\ UNCHANGED <<rows, handler, crashes>>
    BY <1>3 DEF RequestFails, Fail, FailuresKnown
  <2>2. ApprovedHasStock => ApprovedHasStock'
    BY <2>1 DEF rows, ApprovedHasStock, HoldsClaim, Item
  <2> QED BY <2>1, <2>2 DEF FailuresKnown, FailedClaimIsReleased
<1>4. ASSUME NEW h \in Handler, Step(h) \/ Answer(h) PROVE FailuresKnown'
  BY <1>4, ClaimKnown, ExecuteKnown, ReleaseKnown, OthersKnown DEF Step
<1>5. ASSUME NEW h \in Handler,
             HangUp(h) \/ Review(h) \/ Send(h) \/ \E o \in Photographed : PhotoArrives(h, o)
      PROVE  FailuresKnown'
  BY <1>5, HangUpKnown, ArrivalsKnown
<1> QED BY <1>1, <1>2, <1>3, <1>4, <1>5 DEF Next

(* While the API keeps running and at most one call fails, an approved IN  *)
(* that nobody is approving any more has its stock: the claim of a commit  *)
(* that failed is released, whoever else is at the operation meanwhile.    *)
THEOREM FailedClaims == Spec => []FailedClaimIsReleased
<1>1. Init => FailuresKnown
  BY IdleIsGood DEF Init, FailuresKnown, NobodyReleases, FailedClaimIsReleased, ApprovedHasStock
<1>2. FailuresKnown => FailedClaimIsReleased
  BY DEF FailuresKnown
<1>3. IInv /\ FailuresKnown /\ [Next]_vars => FailuresKnown'
  BY FailuresKnownStep
<1> QED BY <1>1, <1>2, <1>3, InitInv, StepInv, PTL DEF Spec

-----------------------------------------------------------------------------
(* THE PHONE *)

LEMMA DrainIsSender ==
  ASSUME NEW d \in Sender, DrainStep(d)
  PROVE  [Next]_vars
<1>1. CASE Start(d) \/ Mark(d) \/ ClearSynced(d) \/ ConnectionReset(d)
  BY <1>1 DEF Start, Mark, ClearSynced, ConnectionReset
<1>2. CASE ServerError(d)
  BY <1>2 DEF ServerError, Next
<1>3. CASE CutOff(d)
  BY <1>3 DEF CutOff, Next
<1>4. ASSUME NEW h \in Handler, Deliver(d, h) PROVE Next
  BY <1>4 DEF Deliver, Next, Send
<1>5. ASSUME NEW h \in Handler, Success(d, h) PROVE Next
  BY <1>5 DEF Success, Next
<1> QED BY <1>1, <1>2, <1>3, <1>4, <1>5 DEF DrainStep

LEMMA PhoneStep == [OSNext]_allVars => [Next]_vars
<1> SUFFICES ASSUME [OSNext]_allVars PROVE [Next]_vars
  OBVIOUS
<1>1. CASE UNCHANGED allVars
  BY <1>1 DEF allVars
<1>2. CASE ServerStep
  BY <1>2 DEF ServerStep, AnswerNobody, Next
<1>3. CASE \E d \in Sender : DrainStep(d)
  BY <1>3, DrainIsSender
<1>4. CASE \E o \in Op : Capture(o) \/ Discard(o) \/ Retry(o)
  BY <1>4 DEF Capture, Discard, Retry
<1> QED BY <1>1, <1>2, <1>3, <1>4 DEF OSNext

(* The phone and the server together do what the server alone may do. *)
THEOREM PhoneImplementsSender == OSSpec => Spec
<1>1. OSInit => Init
  BY DEF OSInit
<1> QED BY <1>1, PhoneStep, PTL DEF OSSpec, Spec

(* Whatever is cut off and sent again, by any number of drains, the stock  *)
(* of a captured operation is committed at most once.                      *)
THEOREM DrainsCommitOnce == OSSpec => []CommitsAtMostOnce
BY PhoneImplementsSender, CommitsOnce, PTL

-----------------------------------------------------------------------------
(* What the phone counts as synced is stored. *)

PhoneOK ==
  /\ row \in [Op -> {"none", "PENDING", "FAILED", "SYNCED", "cleared", "discarded"}]
  /\ drain \in [Sender -> [at : {"idle", "sending", "waiting", "marking", "clearing"},
                           batch : SUBSET Op]]

(* The one request a waiting drain has at the server. *)
OneRequest ==
  \A h, i \in Handler :
    handler[h].sender # NoSender =>
      drain[handler[h].sender].at = "waiting" /\ (handler[i].sender = handler[h].sender => i = h)

Stored(o) == status[o] # "NONE"
Syncs(h) == handler[h].task \in {"sync", "direct"}
InQueue(q, o) == \E n \in 1..Len(q) : q[n] = o
Ahead(h, o) == Item(h) = o \/ InQueue(handler[h].queue, o)

(* A request of a phone is a sync; it is past the creation of its item     *)
(* only when the item is stored, and answers when nothing is left.         *)
SyncsInOrder ==
  \A h \in Handler :
    /\ handler[h].sender # NoSender => Syncs(h)
    /\ Syncs(h) /\ handler[h].at \notin {"lookup", "create", "answer"} => Stored(Item(h))
    /\ handler[h].at = "answer" => handler[h].queue = << >>

(* What a drain waits for is stored already or still ahead in its request, *)
(* and what it marks is stored.                                            *)
WaitsForIt ==
  \A h \in Handler :
    handler[h].sender # NoSender =>
      \A o \in drain[handler[h].sender].batch : Stored(o) \/ Ahead(h, o)

MarksStored ==
  \A d \in Sender : drain[d].at = "marking" => \A o \in drain[d].batch : Stored(o)

OSInv ==
  /\ PhoneOK /\ OneRequest /\ SyncsInOrder
  /\ errors \in Nat
  /\ errors = 0 => WaitsForIt /\ MarksStored /\ SyncedMeansStored

(* A row of the server is never removed. *)
KeepsRows == \A o \in Op : Stored(o) => Stored(o)'

LEMMA RowsAreKept == IInv /\ [Next]_vars => KeepsRows
<1> SUFFICES ASSUME IInv, [Next]_vars PROVE KeepsRows
  OBVIOUS
<1>1. RowsOK
  BY DEF IInv
<1>2. CASE UNCHANGED vars \/ Crash \/ RequestFails
  BY <1>2 DEF vars, rows, Crash, RequestFails, KeepsRows, Stored
<1>3. ASSUME NEW h \in Handler, Step(h) PROVE KeepsRows
  BY <1>1, <1>3
  DEF Step, SyncLookup, SyncCreate, SyncItemFails, ApproveRead, Claim, Execute, Release, Link,
      Label, RejectCheck, Reject, PhotoFind, PhotoDedupe, PhotoStore, rows, RowsOK, KeepsRows, Stored
<1>4. ASSUME NEW h \in Handler, Answer(h) \/ HangUp(h) \/ Review(h) \/ Send(h)
                                \/ \E o \in Photographed : PhotoArrives(h, o)
      PROVE KeepsRows
  BY <1>4 DEF Answer, HangUp, Review, Send, PhotoArrives, SyncArrives, ApproveArrives,
              RejectArrives, Arrives, rows, KeepsRows, Stored
<1> QED BY <1>2, <1>3, <1>4 DEF Next

(* What a step of h does to its own request: it keeps its sender or loses  *)
(* it, and nothing it had ahead is dropped before it is stored.            *)
Onward(h) ==
  /\ \A i \in Handler \ {h} : handler'[i] = handler[i]
  /\ handler'[h].sender # NoSender => handler'[h].sender = handler[h].sender /\ Syncs(h)'
  /\ Syncs(h)' /\ handler'[h].at \notin {"lookup", "create", "answer"} => Stored(Item(h))'
  /\ handler'[h].at = "answer" => handler'[h].queue = << >>
  /\ errors' = 0 /\ handler'[h].sender # NoSender =>
       \A o \in Op : Ahead(h, o) => Stored(o)' \/ Ahead(h, o)'

(* The sender of a request is a drain, with a batch of operations. *)
LEMMA DrainOf ==
  ASSUME HandlersOK, PhoneOK, NEW h \in Handler, handler[h].sender # NoSender
  PROVE  handler[h].sender \in Sender /\ drain[handler[h].sender].batch \subseteq Op
BY DEF HandlersOK, GoodRecord, HandlerRecord, PhoneOK

LEMMA OnwardStep ==
  ASSUME HandlersOK, OSInv, NEW h \in Handler, Onward(h), KeepsRows, Fail \/ Works,
         UNCHANGED phone
  PROVE  OSInv'
<1>1. errors' \in Nat /\ (errors' = 0 => errors = 0)
  BY DEF OSInv, Fail, Works
<1>2. UNCHANGED <<row, drain>>
  BY DEF phone
<1>3. PhoneOK'
  BY <1>2 DEF OSInv, PhoneOK
<1>4. OneRequest'
  BY <1>2 DEF OSInv, OneRequest, Onward
<1>5. SyncsInOrder'
  <2> SUFFICES ASSUME NEW i \in Handler
               PROVE  /\ handler'[i].sender # NoSender => Syncs(i)'
                      /\ Syncs(i)' /\ handler'[i].at \notin {"lookup", "create", "answer"}
                           => Stored(Item(i))'
                      /\ handler'[i].at = "answer" => handler'[i].queue = << >>
    BY DEF SyncsInOrder
  <2>1. CASE i = h
    BY <2>1 DEF Onward
  <2>2. CASE i # h
    <3>1. handler'[i] = handler[i]
      BY <2>2 DEF Onward
    <3>2. Syncs(i) /\ handler[i].at # "answer" => Item(i) \in Op
      BY AtWork DEF Syncs, HandlersOK, GoodRecord
    <3>3. Item(i) \in Op => (Stored(Item(i)) => Stored(Item(i))')
      BY <3>1 DEF KeepsRows, Item, Stored
    <3>4. Syncs(i)' <=> Syncs(i)
      BY <3>1 DEF Syncs
    <3> QED BY <3>1, <3>2, <3>3, <3>4 DEF OSInv, SyncsInOrder
  <2> QED BY <2>1, <2>2
<1>6. ASSUME errors' = 0 PROVE WaitsForIt' /\ MarksStored' /\ SyncedMeansStored'
  <2>1. WaitsForIt /\ MarksStored /\ SyncedMeansStored
    BY <1>1, <1>6 DEF OSInv
  <2>2. WaitsForIt'
    <3> SUFFICES ASSUME NEW i \in Handler, handler'[i].sender # NoSender,
                        NEW o \in drain'[handler'[i].sender].batch
                 PROVE  Stored(o)' \/ Ahead(i, o)'
      BY DEF WaitsForIt
    <3>1. handler'[i].sender = handler[i].sender
      BY DEF Onward
    <3>2. o \in drain[handler[i].sender].batch
      BY <1>2, <3>1
    <3>3. Stored(o) \/ Ahead(i, o)
      BY <2>1, <3>1, <3>2 DEF WaitsForIt
    <3>4. o \in Op
      BY <3>1, <3>2, DrainOf DEF OSInv
    <3>5. i # h => (Ahead(i, o) => Ahead(i, o)')
      BY DEF Onward, Ahead, Item, InQueue
    <3>6. i = h => (Ahead(i, o) => Stored(o)' \/ Ahead(i, o)')
      BY <1>6, <3>4 DEF Onward
    <3> QED BY <3>3, <3>4, <3>5, <3>6 DEF KeepsRows
  <2>3. MarksStored'
    BY <1>2, <2>1 DEF MarksStored, KeepsRows, OSInv, PhoneOK
  <2>4. SyncedMeansStored'
    BY <1>2, <2>1 DEF SyncedMeansStored, KeepsRows, Stored
  <2> QED BY <2>2, <2>3, <2>4
<1> QED BY <1>1, <1>3, <1>4, <1>5, <1>6 DEF OSInv

(* Going through the queue of a sync, nothing but the item is dropped.     *)
LEMMA ThroughKeepsAhead ==
  ASSUME NEW r \in HandlerRecord, r.task \in {"sync", "direct"}
  PROVE  /\ Through(r).sender = r.sender /\ Through(r).task = r.task
         /\ Through(r).at \in {"lookup", "answer"}
         /\ Through(r).at = "answer" => Through(r).queue = << >>
         /\ \A o : InQueue(r.queue, o) => Through(r).item = o \/ InQueue(Through(r).queue, o)
<1>1. CASE r.queue # << >>
  <2> DEFINE q == r.queue
             n == [r EXCEPT !.at = First[r.task], !.item = Head(q), !.queue = Tail(q)]
  <2>1. q \in Seq(Op) /\ q # << >>
    BY <1>1 DEF HandlerRecord
  <2>2. Head(q) = q[1] /\ Len(Tail(q)) = Len(q) - 1 /\ \A k \in 1..Len(q) - 1 : Tail(q)[k] = q[k + 1]
    BY <2>1
  <2>3. First[r.task] = "lookup"
    BY DEF First
  <2>4. /\ n.sender = r.sender /\ n.task = r.task /\ n.at = "lookup"
        /\ n.item = q[1] /\ n.queue = Tail(q)
    BY <2>2, <2>3 DEF HandlerRecord
  <2>5. ASSUME NEW o, InQueue(q, o) PROVE q[1] = o \/ InQueue(Tail(q), o)
    <3>1. PICK k \in 1..Len(q) : q[k] = o
      BY <2>5 DEF InQueue
    <3>2. CASE k = 1
      BY <3>1, <3>2
    <3>3. CASE k # 1
      <4>1. k - 1 \in 1..Len(q) - 1
        BY <2>1, <3>1, <3>3
      <4>2. k - 1 \in 1..Len(Tail(q)) /\ Tail(q)[k - 1] = o
        BY <2>1, <2>2, <3>1, <4>1
      <4> QED BY <4>2 DEF InQueue
    <3> QED BY <3>2, <3>3
  <2>6. Through(r) = n
    BY <1>1 DEF Through
  <2> HIDE DEF n
  <2> QED BY <2>4, <2>5, <2>6
<1>2. CASE r.queue = << >>
  <2>1. /\ Through(r).sender = r.sender /\ Through(r).task = r.task
        /\ Through(r).at = "answer" /\ Through(r).queue = << >>
    BY <1>2 DEF Through, HandlerRecord
  <2>2. \A o : ~ InQueue(r.queue, o)
    BY <1>2 DEF InQueue
  <2> QED BY <2>1, <2>2
<1> QED BY <1>1, <1>2

LEMMA ThroughOfOthers ==
  ASSUME NEW r \in HandlerRecord, r.task # "none", r.task \notin {"sync", "direct"}
  PROVE  /\ Through(r).sender \in {r.sender, NoSender}
         /\ Through(r).task \notin {"sync", "direct"} /\ Through(r).at # "answer"
<1>1. CASE r.queue # << >>
  <2> DEFINE n == [r EXCEPT !.at = First[r.task], !.item = Head(r.queue), !.queue = Tail(r.queue)]
  <2>1. First[r.task] # "answer"
    BY DEF HandlerRecord, First
  <2>2. n.sender = r.sender /\ n.task = r.task /\ n.at = First[r.task]
    BY DEF HandlerRecord
  <2>3. Through(r) = n
    BY <1>1 DEF Through
  <2> HIDE DEF n
  <2> QED BY <2>1, <2>2, <2>3
<1>2. CASE r.queue = << >>
  BY <1>2 DEF Through, Idle
<1> QED BY <1>1, <1>2

(* A handler that is through with its item: it was stored, or a call       *)
(* failed.                                                                 *)
LEMMA ThroughIsOnward ==
  ASSUME HandlersOK, OSInv, NEW h \in Handler, handler[h].at \notin {"free", "answer"},
         NextItem(h) \/ RefuseItem(h),
         Syncs(h) /\ errors' = 0 => status'[handler[h].item] # "NONE"
  PROVE  Onward(h)
<1>1. handler[h] \in HandlerRecord /\ handler[h].task # "none"
  BY AtWork
<1>2. \A i \in Handler \ {h} : handler'[i] = handler[i]
  BY DEF NextItem, RefuseItem, HandlersOK
<1>3. PICK r \in HandlerRecord :
        /\ handler'[h] = Through(r)
        /\ r.task = handler[h].task /\ r.sender = handler[h].sender /\ r.queue = handler[h].queue
  <2>1. CASE NextItem(h)
    BY <1>1, <2>1 DEF NextItem, HandlersOK
  <2>2. CASE RefuseItem(h)
    <3> DEFINE r == [handler[h] EXCEPT !.refused = handler[h].refused \cup {handler[h].item}]
    <3>1. /\ r \in HandlerRecord
          /\ r.task = handler[h].task /\ r.sender = handler[h].sender /\ r.queue = handler[h].queue
      BY <1>1, AtWork DEF HandlerRecord, Item
    <3>2. handler'[h] = Through(r)
      BY <2>2 DEF RefuseItem, HandlersOK
    <3> HIDE DEF r
    <3> QED BY <3>1, <3>2
  <2> QED BY <2>1, <2>2
<1>4. CASE Syncs(h)
  <2>1. /\ handler'[h].sender = handler[h].sender /\ Syncs(h)'
        /\ handler'[h].at \in {"lookup", "answer"}
        /\ handler'[h].at = "answer" => handler'[h].queue = << >>
    BY <1>3, <1>4, ThroughKeepsAhead DEF Syncs
  <2>2. \A o : InQueue(handler[h].queue, o) => Ahead(h, o)'
    BY <1>3, <1>4, ThroughKeepsAhead DEF Syncs, Ahead, Item
  <2>3. errors' = 0 => \A o \in Op : Ahead(h, o) => Stored(o)' \/ Ahead(h, o)'
    BY <1>4, <2>2 DEF Ahead, Item, Stored
  <2> QED BY <1>2, <2>1, <2>3 DEF Onward
<1>5. CASE ~ Syncs(h)
  <2>1. handler[h].sender = NoSender
    BY <1>5 DEF OSInv, SyncsInOrder
  <2>2. handler'[h].sender = NoSender /\ ~ Syncs(h)' /\ handler'[h].at # "answer"
    BY <1>1, <1>3, <1>5, <2>1, ThroughOfOthers DEF Syncs
  <2> QED BY <1>2, <2>2 DEF Onward
<1> QED BY <1>4, <1>5

(* A handler that goes on with the same item. *)
LEMMA GotoIsOnward ==
  ASSUME HandlersOK, OSInv, NEW h \in Handler, NEW l \in Labels \ {"answer"},
         \/ Goto(h, l)
         \/ l = "dedupe" /\ handler' = [handler EXCEPT ![h].at = l, ![h].saw = linked[Item(h)]],
         l # "create" /\ Syncs(h) => status'[handler[h].item] # "NONE"
  PROVE  Onward(h)
<1>1. handler[h] \in HandlerRecord
  BY DEF HandlersOK, GoodRecord
<1>2. \A i \in Handler \ {h} : handler'[i] = handler[i]
  BY DEF Goto, HandlersOK
<1>3. /\ handler'[h].at = l /\ handler'[h].item = handler[h].item
      /\ handler'[h].queue = handler[h].queue /\ handler'[h].task = handler[h].task
      /\ handler'[h].sender = handler[h].sender
  <2>1. CASE Goto(h, l)
    BY <1>1, <2>1 DEF Goto, HandlersOK, HandlerRecord
  <2>2. CASE handler' = [handler EXCEPT ![h].at = l, ![h].saw = linked[Item(h)]]
    BY <1>1, <2>2 DEF HandlersOK, HandlerRecord
  <2> QED BY <2>1, <2>2
<1>4. Syncs(h)' <=> Syncs(h)
  BY <1>3 DEF Syncs
<1>5. handler[h].sender # NoSender => Syncs(h)
  BY DEF OSInv, SyncsInOrder
<1>6. \A o : Ahead(h, o)' <=> Ahead(h, o)
  BY <1>3 DEF Ahead, Item
<1> QED BY <1>2, <1>3, <1>4, <1>5, <1>6 DEF Onward, Stored, Item

(* The steps of a handler. *)
LEMMA StepIsOnward ==
  ASSUME IInv, OSInv, NEW h \in Handler, Step(h)
  PROVE  Onward(h) /\ (Fail \/ Works)
<1> DEFINE Late == {"read", "claim", "execute", "release", "link", "label", "check", "reject",
                    "find", "dedupe", "store"}
<1>1. HandlersOK /\ RowsOK /\ errors \in Nat
  BY DEF IInv, OSInv
<1>2. Fail \/ Works
  BY DEF Step, SyncLookup, SyncCreate, SyncItemFails, ApproveRead, Claim, Execute, Release, Link,
         Label, RejectCheck, Reject, PhotoFind, PhotoDedupe, PhotoStore
<1>3. CASE SyncLookup(h)
  <2>1. handler[h].at = "lookup" /\ status' = status
    BY <1>3 DEF SyncLookup, At, rows
  <2>2. CASE NextItem(h) /\ status[Item(h)] # "NONE"
    BY <1>1, <1>2, <2>1, <2>2, ThroughIsOnward DEF Item
  <2>3. CASE Goto(h, "create")
    BY <1>1, <1>2, <2>3, GotoIsOnward DEF Labels
  <2> QED BY <1>3, <2>2, <2>3 DEF SyncLookup
<1>4. CASE SyncCreate(h)
  <2>1. handler[h].at = "create" /\ Item(h) \in Op
    BY <1>1, <1>4, AtWork DEF SyncCreate, At
  <2>2. status'[handler[h].item] # "NONE"
    BY <1>1, <1>4, <2>1 DEF SyncCreate, RowsOK, Item
  <2>3. CASE NextItem(h) \/ RefuseItem(h)
    BY <1>1, <1>2, <2>1, <2>2, <2>3, ThroughIsOnward
  <2>4. CASE Goto(h, "read")
    <3>1. "read" \in Labels \ {"answer"}
      BY DEF Labels
    <3>2. Onward(h)
      BY <1>1, <2>2, <2>4, <3>1, GotoIsOnward
    <3> QED BY <1>2, <3>2
  <2> QED BY <1>4, <2>3, <2>4 DEF SyncCreate
<1>5. CASE SyncItemFails(h)
  <2>1. handler[h].at \in {"lookup", "create"} /\ RefuseItem(h) /\ errors' # 0
    BY <1>1, <1>5 DEF SyncItemFails, At, Fail
  <2> QED BY <1>1, <1>2, <2>1, ThroughIsOnward
<1>6. CASE ~ SyncLookup(h) /\ ~ SyncCreate(h) /\ ~ SyncItemFails(h)
  <2>1. handler[h].at \in Late
    BY <1>6 DEF Step, ApproveRead, Claim, Execute, Release, Link, Label, RejectCheck, Reject,
                PhotoFind, PhotoDedupe, PhotoStore, At
  <2>2. \/ NextItem(h)
        \/ \E l \in Late : Goto(h, l)
        \/ handler' = [handler EXCEPT ![h].at = "dedupe", ![h].saw = linked[Item(h)]]
    BY <1>6 DEF Step, ApproveRead, Claim, Execute, Release, Link, Label, RejectCheck, Reject,
                PhotoFind, PhotoDedupe, PhotoStore
  <2>3. Item(h) \in Op
    BY <1>1, <2>1, AtWork
  <2>4. Syncs(h) => Stored(Item(h))
    BY <2>1 DEF OSInv, SyncsInOrder
  <2>5. Stored(Item(h)) => status'[handler[h].item] # "NONE"
    <3>1. [Next]_vars
      BY DEF Next
    <3> QED BY <2>3, <3>1, RowsAreKept DEF KeepsRows, Stored, Item
  <2>6. \A l \in Late : l \in Labels \ {"answer"} /\ l # "create"
    BY DEF Labels
  <2>7. CASE NextItem(h)
    BY <1>1, <1>2, <2>1, <2>4, <2>5, <2>7, ThroughIsOnward
  <2>8. ASSUME NEW l \in Late,
               \/ Goto(h, l)
               \/ l = "dedupe" /\ handler' = [handler EXCEPT ![h].at = l, ![h].saw = linked[Item(h)]]
        PROVE  Onward(h)
    BY <1>1, <2>4, <2>5, <2>6, <2>8, GotoIsOnward
  <2> QED BY <1>2, <2>2, <2>7, <2>8
<1> QED BY <1>2, <1>3, <1>4, <1>5, <1>6

(* A request of nobody, or its answer, or the end of it. *)
LEMMA NobodyIsOnward ==
  ASSUME HandlersOK, NEW h \in Handler, NEW r, r.sender = NoSender, r.at # "answer",
         r.task \notin {"sync", "direct"}, handler' = [handler EXCEPT ![h] = r]
  PROVE  Onward(h)
<1>1. handler'[h] = r /\ \A i \in Handler \ {h} : handler'[i] = handler[i]
  BY DEF HandlersOK
<1> QED BY <1>1 DEF Onward, Syncs

LEMMA ServerKeeps == ASSUME IInv, OSInv, ServerStep PROVE OSInv'
<1>0. HandlersOK /\ KeepsRows
  <2>1. ServerStep => [Next]_vars
    BY DEF ServerStep, AnswerNobody, Next
  <2> QED BY <2>1, RowsAreKept DEF IInv
<1>1. UNCHANGED phone
  BY DEF ServerStep
<1>2. ASSUME NEW h \in Handler, Step(h) PROVE OSInv'
  BY <1>0, <1>1, <1>2, StepIsOnward, OnwardStep
<1>3. ASSUME NEW h \in Handler, AnswerNobody(h) PROVE OSInv'
  <2>1. Works /\ handler' = [handler EXCEPT ![h] = Idle]
    BY <1>3 DEF AnswerNobody, Answer
  <2>2. Onward(h)
    BY <1>0, <2>1, NobodyIsOnward DEF Idle
  <2> QED BY <1>0, <1>1, <2>1, <2>2, OnwardStep
<1>4. ASSUME NEW h \in Handler, Review(h) PROVE OSInv'
  <2>0. PICK b : \E task \in {"approve", "reject"} : Arrives(h, task, b, NoSender)
    BY <1>4 DEF Review, ApproveArrives, RejectArrives
  <2>1. PICK task \in {"approve", "reject"} : Arrives(h, task, b, NoSender)
    BY <2>0
  <2> DEFINE r == Request(task, b, NoSender)
  <2>2. Works /\ handler' = [handler EXCEPT ![h] = r]
    BY <2>1 DEF Arrives
  <2>3. r.sender = NoSender /\ r.at # "answer" /\ r.task \notin {"sync", "direct"}
    BY DEF Request, First
  <2> HIDE DEF r
  <2>4. Onward(h)
    BY <1>0, <2>2, <2>3, NobodyIsOnward
  <2> QED BY <1>0, <1>1, <2>2, <2>4, OnwardStep
<1>5. CASE Crash
  <2>1. /\ handler' = [h \in Handler |-> Idle]
        /\ UNCHANGED <<status, errors, row, drain>>
    BY <1>1, <1>5 DEF Crash, rows, phone
  <2>2. \A h \in Handler : handler'[h].sender = NoSender /\ handler'[h].at = "free" /\ ~ Syncs(h)'
    BY <2>1 DEF Idle, Syncs
  <2>3. OneRequest' /\ SyncsInOrder' /\ WaitsForIt'
    BY <2>2 DEF OneRequest, SyncsInOrder, WaitsForIt
  <2> QED BY <2>1, <2>3 DEF OSInv, PhoneOK, MarksStored, Stored, SyncedMeansStored
<1> QED BY <1>2, <1>3, <1>4, <1>5 DEF ServerStep

-----------------------------------------------------------------------------
(* The steps of a drain. *)

(* Nobody serves a drain that does not wait. *)
Unserved(d) == \A h \in Handler : handler[h].sender # d

LEMMA OnlyWaitingIsServed ==
  ASSUME OSInv, NEW d \in Sender
  PROVE  drain[d].at # "waiting" => Unserved(d)
BY NoSenderAssumption DEF OSInv, OneRequest, Unserved

(* A step after which nobody serves d, and which leaves the other drains   *)
(* and their requests alone.                                               *)
LEMMA AloneStep ==
  ASSUME HandlersOK, OSInv, NEW d \in Sender, NEW e,
         e \in [at : {"idle", "sending", "waiting", "marking", "clearing"}, batch : SUBSET Op],
         drain' = [drain EXCEPT ![d] = e], PhoneOK',
         \A h \in Handler :
           \/ handler'[h] = handler[h]
           \/ handler'[h].sender = NoSender,
         SyncsInOrder', Unserved(d)', errors' \in Nat, status' = status,
         errors' = 0 => /\ errors = 0 /\ SyncedMeansStored'
                        /\ e.at = "marking" => \A o \in e.batch : Stored(o)
  PROVE  OSInv'
<1>1. \A c \in Sender \ {d} : drain'[c] = drain[c]
  BY DEF OSInv, PhoneOK
<1>2. drain'[d] = e
  BY DEF OSInv, PhoneOK
<1>3. \A h \in Handler :
        handler'[h].sender # NoSender =>
          /\ handler'[h] = handler[h] /\ handler[h].sender \in Sender \ {d}
          /\ drain'[handler[h].sender] = drain[handler[h].sender]
  <2> SUFFICES ASSUME NEW h \in Handler, handler'[h].sender # NoSender
               PROVE  /\ handler'[h] = handler[h] /\ handler[h].sender \in Sender \ {d}
                      /\ drain'[handler[h].sender] = drain[handler[h].sender]
    OBVIOUS
  <2>1. handler'[h] = handler[h]
    OBVIOUS
  <2>2. handler[h].sender \in Sender
    BY <2>1, DrainOf DEF OSInv
  <2>3. handler[h].sender # d
    BY <2>1 DEF Unserved
  <2> QED BY <1>1, <2>1, <2>2, <2>3
<1>4. OneRequest'
  BY <1>3 DEF OSInv, OneRequest
<1>5. WaitsForIt => WaitsForIt'
  BY <1>3 DEF WaitsForIt, Stored, Ahead, Item, InQueue
<1>6. errors' = 0 => MarksStored'
  BY <1>1, <1>2 DEF OSInv, MarksStored, Stored
<1> QED BY <1>4, <1>5, <1>6 DEF OSInv

(* The request of a drain has its whole batch ahead. *)
LEMMA DeliverKeeps ==
  ASSUME IInv, OSInv, NEW d \in Sender, NEW h \in Handler, Deliver(d, h)
  PROVE  OSInv'
<1>0. HandlersOK /\ PhoneOK /\ OneRequest /\ SyncsInOrder
  BY DEF IInv, OSInv
<1>1. PICK b \in Batch, task \in {"sync", "direct"} :
        /\ {b[i] : i \in DOMAIN b} = drain[d].batch
        /\ handler' = [handler EXCEPT ![h] = Request(task, b, d)]
        /\ UNCHANGED <<status, errors>>
  BY DEF Deliver, SyncArrives, Arrives, rows, Works
<1>2. /\ drain[d].at = "sending" /\ row' = row
      /\ drain' = [drain EXCEPT ![d] = [at |-> "waiting", batch |-> drain[d].batch]]
  BY DEF Deliver, Drain
<1>3. /\ drain'[d] = [at |-> "waiting", batch |-> drain[d].batch]
      /\ \A c \in Sender \ {d} : drain'[c] = drain[c]
      /\ PhoneOK'
  BY <1>0, <1>2 DEF PhoneOK
<1>4. b \in Seq(Op) /\ b # << >>
  BY BatchIsSeq
<1>5. /\ handler'[h].sender = d /\ handler'[h].task = task /\ handler'[h].at = "lookup"
      /\ handler'[h].item = b[1] /\ handler'[h].queue = Tail(b)
      /\ \A i \in Handler \ {h} : handler'[i] = handler[i]
  <2>1. handler'[h] = Request(task, b, d) /\ \A i \in Handler \ {h} : handler'[i] = handler[i]
    BY <1>0, <1>1 DEF HandlersOK
  <2>2. Head(b) = b[1] /\ First[task] = "lookup"
    BY <1>4 DEF First
  <2> QED BY <2>1, <2>2 DEF Request
<1>6. \A i \in Handler \ {h} :
        handler[i].sender # NoSender => handler[i].sender \in Sender \ {d}
  BY <1>0, <1>2, DrainOf DEF OneRequest
<1>7. OneRequest'
  <2> SUFFICES ASSUME NEW g \in Handler, NEW i \in Handler, handler'[g].sender # NoSender
               PROVE  /\ drain'[handler'[g].sender].at = "waiting"
                      /\ handler'[i].sender = handler'[g].sender => i = g
    BY DEF OneRequest
  <2>1. CASE g = h
    BY <1>3, <1>5, <1>6, <2>1, NoSenderAssumption
  <2>2. CASE g # h
    BY <1>0, <1>3, <1>5, <1>6, <2>2 DEF OneRequest
  <2> QED BY <2>1, <2>2
<1>8. SyncsInOrder'
  BY <1>0, <1>1, <1>5 DEF SyncsInOrder, Syncs, Stored, Item
<1>9. WaitsForIt => WaitsForIt'
  <2> SUFFICES ASSUME WaitsForIt, NEW i \in Handler, handler'[i].sender # NoSender,
                      NEW o \in drain'[handler'[i].sender].batch
               PROVE  Stored(o)' \/ Ahead(i, o)'
    BY DEF WaitsForIt
  <2>1. CASE i = h
    <3>1. PICK k \in 1..Len(b) : b[k] = o
      BY <1>1, <1>3, <1>4, <1>5, <2>1
    <3>2. CASE k = 1
      BY <1>5, <2>1, <3>1, <3>2 DEF Ahead, Item
    <3>3. CASE k # 1
      <4>1. k - 1 \in 1..Len(Tail(b)) /\ Tail(b)[k - 1] = b[k]
        BY <1>4, <3>1, <3>3
      <4>2. InQueue(handler'[h].queue, o)
        BY <1>5, <3>1, <4>1 DEF InQueue
      <4> QED BY <2>1, <4>2 DEF Ahead
    <3> QED BY <3>2, <3>3
  <2>2. CASE i # h
    <3>1. handler'[i] = handler[i] /\ o \in drain[handler[i].sender].batch
      BY <1>3, <1>5, <1>6, <2>2
    <3>2. Stored(o) \/ Ahead(i, o)
      BY <3>1 DEF WaitsForIt
    <3> QED BY <1>1, <3>1, <3>2 DEF Stored, Ahead, Item
  <2> QED BY <2>1, <2>2
<1>10. MarksStored => MarksStored'
  BY <1>1, <1>3 DEF MarksStored, Stored
<1>11. SyncedMeansStored => SyncedMeansStored'
  BY <1>1, <1>2 DEF SyncedMeansStored
<1> QED BY <1>1, <1>3, <1>7, <1>8, <1>9, <1>10, <1>11 DEF OSInv

LEMMA DrainKeeps == ASSUME IInv, OSInv, NEW d \in Sender, DrainStep(d) PROVE OSInv'
<1> DEFINE at == {"idle", "sending", "waiting", "marking", "clearing"}
           D == [at : at, batch : SUBSET Op]
<1>0. /\ HandlersOK /\ RowsOK /\ PhoneOK /\ OneRequest /\ SyncsInOrder /\ errors \in Nat
      /\ drain[d] \in D /\ drain[d].batch \subseteq Op
  BY DEF IInv, OSInv, PhoneOK
<1>1. Resting \in D /\ Resting.at = "idle"
  BY DEF Resting
<1>2. \A e \in D : drain' = [drain EXCEPT ![d] = e] => drain' \in [Sender -> D]
  BY <1>0 DEF PhoneOK
(* The steps of d alone. *)
<1>3. ASSUME NEW e \in D, drain' = [drain EXCEPT ![d] = e], drain[d].at # "waiting",
             row' \in [Op -> {"none", "PENDING", "FAILED", "SYNCED", "cleared", "discarded"}],
             UNCHANGED <<handler, status>>, errors' \in Nat,
             errors' = 0 => /\ errors = 0 /\ SyncedMeansStored'
                            /\ e.at = "marking" => \A o \in e.batch : Stored(o)
      PROVE  OSInv'
  <2>1. Unserved(d)'
    BY <1>3, OnlyWaitingIsServed DEF Unserved
  <2>2. SyncsInOrder'
    BY <1>0, <1>3 DEF SyncsInOrder, Syncs, Stored, Item
  <2>3. PhoneOK'
    BY <1>2, <1>3 DEF PhoneOK
  <2> QED BY <1>0, <1>3, <2>1, <2>2, <2>3, AloneStep
<1>4. CASE Start(d)
  <2>1. /\ drain' = [drain EXCEPT ![d] = [at |-> "sending", batch |-> Syncable]]
        /\ drain[d].at = "idle" /\ UNCHANGED <<handler, status, errors, row>>
    BY <1>4 DEF Start, Drain, vars, rows
  <2>2. [at |-> "sending", batch |-> Syncable] \in D
    BY DEF Syncable
  <2>3. SyncedMeansStored => SyncedMeansStored'
    BY <2>1 DEF SyncedMeansStored
  <2> QED BY <1>0, <1>3, <2>1, <2>2, <2>3 DEF OSInv, PhoneOK
<1>5. CASE ServerError(d)
  <2>1. /\ drain' = [drain EXCEPT ![d] = Resting] /\ drain[d].at = "sending"
        /\ UNCHANGED <<handler, status>> /\ errors' = errors + 1
    BY <1>5 DEF ServerError, RequestFails, Fail, rows
  <2>2. row' \in [Op -> {"none", "PENDING", "FAILED", "SYNCED", "cleared", "discarded"}]
    BY <1>0, <1>5 DEF ServerError, PhoneOK
  <2>3. errors' \in Nat /\ errors' # 0 /\ drain[d].at # "waiting"
    BY <1>0, <2>1
  <2> QED BY <1>1, <1>3, <2>1, <2>2, <2>3
<1>6. CASE Mark(d)
  <2>1. drain[d].at = "marking" /\ UNCHANGED <<handler, status, errors>>
    BY <1>6 DEF Mark, vars, rows
  <2>2. errors = 0 => SyncedMeansStored /\ \A o \in drain[d].batch : Stored(o)
    BY <2>1 DEF OSInv, MarksStored
  <2>3. CASE drain' = [drain EXCEPT ![d] = [at |-> "clearing", batch |-> {}]] /\ row' = row
    <3>1. [at |-> "clearing", batch |-> {}] \in D
      OBVIOUS
    <3>2. SyncedMeansStored => SyncedMeansStored'
      BY <2>1, <2>3 DEF SyncedMeansStored
    <3> QED BY <1>0, <1>3, <2>1, <2>2, <2>3, <3>1, <3>2 DEF PhoneOK
  <2>4. ASSUME NEW o \in drain[d].batch,
               row' = [row EXCEPT ![o] = IF @ \in {"PENDING", "FAILED"} THEN "SYNCED" ELSE @],
               drain' = [drain EXCEPT ![d] = [at |-> "marking", batch |-> drain[d].batch \ {o}]]
        PROVE  OSInv'
    <3> DEFINE e == [at |-> "marking", batch |-> drain[d].batch \ {o}]
    <3>1. e \in D /\ e.batch \subseteq drain[d].batch
      BY <1>0
    <3>2. row' \in [Op -> {"none", "PENDING", "FAILED", "SYNCED", "cleared", "discarded"}]
      BY <1>0, <2>4 DEF PhoneOK
    <3>3. errors = 0 => SyncedMeansStored'
      BY <1>0, <2>1, <2>2, <2>4 DEF SyncedMeansStored, Stored, PhoneOK
    <3> HIDE DEF e
    <3> QED BY <1>0, <1>3, <2>1, <2>2, <2>4, <3>1, <3>2, <3>3 DEF e
  <2> QED BY <1>6, <2>3, <2>4 DEF Mark, Drain
<1>7. CASE ClearSynced(d)
  <2>1. /\ drain' = [drain EXCEPT ![d] = Resting] /\ drain[d].at = "clearing"
        /\ UNCHANGED <<handler, status, errors>>
    BY <1>7 DEF ClearSynced, vars, rows
  <2>2. row' \in [Op -> {"none", "PENDING", "FAILED", "SYNCED", "cleared", "discarded"}]
    BY <1>0, <1>7 DEF ClearSynced, PhoneOK
  <2>3. SyncedMeansStored => SyncedMeansStored'
    BY <1>7, <2>1 DEF ClearSynced, SyncedMeansStored
  <2> QED BY <1>0, <1>1, <1>3, <2>1, <2>2, <2>3 DEF OSInv
(* The steps that end the wait of d. *)
<1>8. ASSUME NEW e \in D, drain' = [drain EXCEPT ![d] = e], UNCHANGED <<row, status, errors>>,
             \A h \in Handler : \/ handler'[h] = handler[h] /\ handler[h].sender # d
                                \/ handler'[h].sender = NoSender,
             SyncsInOrder',
             e.at = "marking" /\ errors = 0 => \A o \in e.batch : Stored(o)
      PROVE  OSInv'
  <2>1. Unserved(d)'
    BY <1>8, NoSenderAssumption DEF Unserved
  <2>2. PhoneOK'
    BY <1>0, <1>2, <1>8 DEF PhoneOK
  <2>3. SyncedMeansStored => SyncedMeansStored'
    BY <1>8 DEF SyncedMeansStored
  <2> QED BY <1>0, <1>8, <2>1, <2>2, <2>3, AloneStep DEF OSInv
<1>9. CASE ConnectionReset(d)
  <2>1. /\ drain' = [drain EXCEPT ![d] = Resting] /\ UNCHANGED <<row, status, errors, handler>>
        /\ \A h \in Handler : handler[h].sender # d
    BY <1>9 DEF ConnectionReset, vars, rows
  <2>2. SyncsInOrder'
    BY <1>0, <2>1 DEF SyncsInOrder, Syncs, Stored, Item
  <2> QED BY <1>1, <1>8, <2>1, <2>2
<1>10. CASE CutOff(d)
  <2>1. drain' = [drain EXCEPT ![d] = Resting] /\ row' = row
    BY <1>10 DEF CutOff
  <2>2. CASE UNCHANGED vars /\ \A h \in Handler : handler[h].sender # d
    <3>1. UNCHANGED <<status, errors, handler>>
      BY <2>2 DEF vars, rows
    <3>2. SyncsInOrder'
      BY <1>0, <3>1 DEF SyncsInOrder, Syncs, Stored, Item
    <3> QED BY <1>1, <1>8, <2>1, <2>2, <3>1, <3>2
  <2>3. ASSUME NEW h \in Handler, handler[h].sender = d, HangUp(h) PROVE OSInv'
    <3>1. UNCHANGED <<status, errors>>
      BY <2>3 DEF HangUp, rows, Works
    <3>2. /\ \A i \in Handler \ {h} : handler'[i] = handler[i]
          /\ handler'[h] = [handler[h] EXCEPT !.sender = NoSender]
      BY <1>0, <2>3 DEF HangUp, HandlersOK
    <3>3. handler[h] \in HandlerRecord
      BY <1>0 DEF HandlersOK, GoodRecord
    <3>4. /\ handler'[h].sender = NoSender /\ handler'[h].at = handler[h].at
          /\ handler'[h].task = handler[h].task /\ handler'[h].item = handler[h].item
          /\ handler'[h].queue = handler[h].queue
      BY <3>2, <3>3 DEF HandlerRecord
    <3>5. SyncsInOrder'
      <4>1. \A i \in Handler :
              /\ handler'[i].sender # NoSender => handler[i].sender # NoSender
              /\ handler'[i].at = handler[i].at /\ handler'[i].task = handler[i].task
              /\ handler'[i].item = handler[i].item /\ handler'[i].queue = handler[i].queue
        BY <3>2, <3>4
      <4> QED BY <1>0, <3>1, <4>1 DEF SyncsInOrder, Syncs, Stored, Item
    <3>6. \A i \in Handler \ {h} : handler[i].sender # d
      BY <1>0, <2>3, NoSenderAssumption DEF OneRequest
    <3> QED BY <1>1, <1>8, <2>1, <3>1, <3>2, <3>4, <3>5, <3>6
  <2> QED BY <1>10, <2>2, <2>3 DEF CutOff
<1>11. ASSUME NEW h \in Handler, Success(d, h) PROVE OSInv'
  <2> DEFINE e == [at |-> "marking", batch |-> drain[d].batch]
  <2>1. /\ handler[h].sender = d /\ handler[h].at = "answer"
        /\ drain' = [drain EXCEPT ![d] = e] /\ UNCHANGED <<row, status, errors>>
        /\ handler' = [handler EXCEPT ![h] = Idle]
    BY <1>11 DEF Success, Answer, Drain, rows, Works, At
  <2>2. e \in D
    BY <1>0
  <2>3. errors = 0 => \A o \in drain[d].batch : Stored(o)
    <3>1. handler[h].queue = << >> /\ handler[h].item = NoOp
      BY <1>0, <2>1 DEF SyncsInOrder, HandlersOK, GoodRecord
    <3>2. \A o \in Op : ~ Ahead(h, o)
      BY <3>1, NoOpAssumption DEF Ahead, Item, InQueue
    <3> QED BY <1>0, <2>1, <3>2, NoSenderAssumption DEF OSInv, WaitsForIt
  <2>4. handler'[h] = Idle /\ \A i \in Handler \ {h} : handler'[i] = handler[i]
    BY <1>0, <2>1 DEF HandlersOK
  <2>5. SyncsInOrder'
    BY <1>0, <2>1, <2>4 DEF SyncsInOrder, Syncs, Stored, Item, Idle
  <2>6. \A i \in Handler \ {h} : handler[i].sender # d
    BY <1>0, <2>1, NoSenderAssumption DEF OneRequest
  <2>7. Idle.sender = NoSender
    BY DEF Idle
  <2> QED BY <1>8, <2>1, <2>2, <2>3, <2>4, <2>5, <2>6, <2>7
<1>12. ASSUME NEW h \in Handler, Deliver(d, h) PROVE OSInv'
  BY <1>12, DeliverKeeps
<1> QED BY <1>4, <1>5, <1>6, <1>7, <1>9, <1>10, <1>11, <1>12 DEF DrainStep

LEMMA OSInitInv == OSInit => OSInv
<1> SUFFICES ASSUME OSInit PROVE OSInv
  OBVIOUS
<1>1. \A h \in Handler : /\ handler[h].sender = NoSender /\ handler[h].at = "free"
                         /\ handler[h].task = "none"
  BY DEF OSInit, Init, Idle
<1>2. PhoneOK /\ errors = 0 /\ MarksStored /\ SyncedMeansStored
  BY DEF OSInit, Init, PhoneOK, Resting, MarksStored, SyncedMeansStored
<1> QED BY <1>1, <1>2 DEF OSInv, OneRequest, SyncsInOrder, Syncs, WaitsForIt

LEMMA OSStepInv == IInv /\ OSInv /\ [OSNext]_allVars => OSInv'
<1> SUFFICES ASSUME IInv, OSInv, [OSNext]_allVars PROVE OSInv'
  OBVIOUS
<1>1. CASE UNCHANGED <<vars, drain>> /\ \/ row' = row
                                        \/ \E o \in Op : Capture(o) \/ Discard(o) \/ Retry(o)
  <2>1. UNCHANGED <<status, handler, errors, drain>>
    BY <1>1 DEF vars, rows
  <2>2. PhoneOK'
    BY <1>1, <2>1 DEF OSInv, PhoneOK, Capture, Discard, Retry
  <2>3. OneRequest' /\ SyncsInOrder'
    BY <2>1 DEF OSInv, OneRequest, SyncsInOrder, Syncs, Stored, Item
  <2>4. WaitsForIt => WaitsForIt'
    BY <2>1 DEF WaitsForIt, Stored, Ahead, Item, InQueue
  <2>5. MarksStored => MarksStored'
    BY <2>1 DEF MarksStored, Stored
  <2>6. SyncedMeansStored => SyncedMeansStored'
    BY <1>1, <2>1 DEF SyncedMeansStored, Capture, Discard, Retry, OSInv, PhoneOK
  <2> QED BY <2>1, <2>2, <2>3, <2>4, <2>5, <2>6 DEF OSInv
<1>2. CASE ServerStep
  BY <1>2, ServerKeeps
<1>3. ASSUME NEW d \in Sender, DrainStep(d) PROVE OSInv'
  BY <1>3, DrainKeeps
<1> QED BY <1>1, <1>2, <1>3 DEF OSNext, allVars, phone, Capture, Discard, Retry

(* The rows of the outbox and the drains keep their types, and a waiting   *)
(* drain has exactly one request at the server.                            *)
THEOREM PhoneTypeCorrect == OSSpec => []OSTypeOK
<1>1. OSInit => IInv
  BY InitInv DEF OSInit
<1>2. IInv /\ [OSNext]_allVars => IInv'
  BY PhoneStep, StepInv
<1>3. IInv /\ OSInv => OSTypeOK
  BY TypeOKParts DEF IInv, OSInv, OSTypeOK, PhoneOK, OneRequest
<1> QED BY <1>1, <1>2, <1>3, OSInitInv, OSStepInv, PTL DEF OSSpec

(* While no call of the server fails, what a phone counts as synced, and   *)
(* deletes from its outbox, is stored at the server: however many drains   *)
(* run, and whatever is cut off, repeated, hung up or restarted, no        *)
(* captured operation is lost.                                             *)
THEOREM SyncedIsStored == OSSpec => []StorableIsStored
<1>1. OSInit => IInv
  BY InitInv DEF OSInit
<1>2. IInv /\ [OSNext]_allVars => IInv'
  BY PhoneStep, StepInv
<1>3. OSInv => StorableIsStored
  BY DEF OSInv, StorableIsStored
<1> QED BY <1>1, <1>2, <1>3, OSInitInv, OSStepInv, PTL DEF OSSpec
=============================================================================
