-------------------------- MODULE PendingOperations --------------------------
(***************************************************************************)
(* PendingOperationsService: what phones captured waits here for a manager *)
(* to approve it, and approving is what puts the stock on the shelf.  The  *)
(* photo of an operation is uploaded by a request of its own.  Handlers    *)
(* run concurrently; a step below is one await of the code, so another     *)
(* handler may run between any two of them, and the API may stop there.    *)
(***************************************************************************)
EXTENDS Integers, Sequences

CONSTANTS
  Op,          \* captured operations, by their clientRequestId
  TypeOf,      \* "IN" or "COUNT" for each of them
  Photographed,\* those of them the worker took a photo of
  Handler,     \* requests the API may be serving at one time
  NoOp,        \* not an Op: the item of a handler that has none
  Sender,      \* who waits for the answer of a sync request
  NoSender,    \* not a Sender: nobody does
  MaxBatch,    \* bound: operations in one request
  MaxCrashes,  \* bound: how often the API stops
  MaxErrors    \* bound: how many database calls fail

ASSUME TypeOfAssumption == TypeOf \in [Op -> {"IN", "COUNT"}]
ASSUME PhotographedAssumption == Photographed \subseteq Op
ASSUME NoOpAssumption == NoOp \notin Op
ASSUME NoSenderAssumption == NoSender \notin Sender
ASSUME MaxBatchAssumption == MaxBatch \in Nat

VARIABLES
  status,    \* of the row of each operation; "NONE" while there is no row
  commits,   \* how often its IN was committed to the stock
  linked,    \* its committedLogId is known
  attached,  \* its photos that hang on the ledger row
  loose,     \* its photos that do not
  labels,    \* label print jobs queued for it
  handler,   \* the request each handler serves, and the await it is at
  crashes, errors

rows == <<status, commits, linked, attached, loose, labels>>
vars == <<rows, handler, crashes, errors>>

First == [sync |-> "lookup", direct |-> "lookup", approve |-> "read",
          reject |-> "check", photo |-> "find"]

Request(task, batch, s) ==
  [at |-> First[task], task |-> task, item |-> Head(batch), queue |-> Tail(batch),
   sender |-> s, refused |-> {}, saw |-> FALSE]

Idle == [at |-> "free", task |-> "none", item |-> NoOp, queue |-> << >>,
         sender |-> NoSender, refused |-> {}, saw |-> FALSE]

Init ==
  /\ status = [o \in Op |-> "NONE"]
  /\ commits = [o \in Op |-> 0]
  /\ linked = [o \in Op |-> FALSE]
  /\ attached = [o \in Op |-> 0]
  /\ loose = [o \in Op |-> 0]
  /\ labels = [o \in Op |-> 0]
  /\ handler = [h \in Handler |-> Idle]
  /\ crashes = 0
  /\ errors = 0

-----------------------------------------------------------------------------
At(h, label) == handler[h].at = label
Item(h) == handler[h].item
Goto(h, label) == handler' = [handler EXCEPT ![h].at = label]

(* A database call of h fails, or none does. *)
Fail == errors < MaxErrors /\ errors' = errors + 1 /\ UNCHANGED crashes
Works == UNCHANGED <<crashes, errors>>

(* What becomes of a request r that is through with its item: the loops of *)
(* sync and approveMany take the next one; sync answers per item.          *)
Through(r) ==
  IF r.queue # << >>
  THEN [r EXCEPT !.at = First[r.task], !.item = Head(r.queue), !.queue = Tail(r.queue)]
  ELSE IF r.task \in {"sync", "direct"}
  THEN [r EXCEPT !.at = "answer", !.item = NoOp]
  ELSE Idle

NextItem(h) == handler' = [handler EXCEPT ![h] = Through(@)]

(* The same, with the item reported as ERROR. *)
RefuseItem(h) ==
  LET r == handler[h]
  IN  handler' = [handler EXCEPT
                    ![h] = Through([r EXCEPT !.refused = r.refused \cup {r.item}])]

(* A request reaches an idle handler. *)
Arrives(h, task, batch, s) ==
  /\ At(h, "free") /\ batch # << >>
  /\ handler' = [handler EXCEPT ![h] = Request(task, batch, s)]
  /\ UNCHANGED rows /\ Works

-----------------------------------------------------------------------------
(* POST /sync/operations, of a worker's or of a manager's phone. *)
SyncArrives(h, batch, s, fromManager) ==
  Arrives(h, IF fromManager THEN "direct" ELSE "sync", batch, s)

(* An operation that is already here is answered with its status. *)
SyncLookup(h) ==
  /\ At(h, "lookup")
  /\ IF status[Item(h)] # "NONE" THEN NextItem(h) ELSE Goto(h, "create")
  /\ UNCHANGED rows /\ Works

(* clientRequestId is unique: of two concurrent creates the second fails.  *)
(* What a manager's phone captured goes on to be approved, unless its      *)
(* product or its shelf is not known.                                      *)
SyncCreate(h) ==
  /\ At(h, "create")
  /\ \/ /\ status[Item(h)] = "NONE"
        /\ status' = [status EXCEPT ![Item(h)] = "PENDING"]
        /\ \/ handler[h].task = "direct" /\ Goto(h, "read")
           \/ ~ (handler[h].task = "direct" /\ TypeOf[Item(h)] = "COUNT") /\ NextItem(h)
     \/ /\ status[Item(h)] # "NONE"
        /\ RefuseItem(h)
        /\ UNCHANGED status
  /\ UNCHANGED <<commits, linked, attached, loose, labels>> /\ Works

(* Anything else that throws while an item is stored (the product matcher, *)
(* the database) leaves it without a row, and the batch goes on.           *)
SyncItemFails(h) ==
  /\ At(h, "lookup") \/ At(h, "create")
  /\ RefuseItem(h)
  /\ UNCHANGED rows /\ Fail

(* The answer leaves; the composition says what the sender does with it.   *)
Answer(h) ==
  /\ At(h, "answer")
  /\ handler' = [handler EXCEPT ![h] = Idle]
  /\ UNCHANGED rows /\ Works

(* Nobody waits for the answer any more; the handler does not notice.      *)
HangUp(h) ==
  /\ handler[h].sender # NoSender
  /\ handler' = [handler EXCEPT ![h].sender = NoSender]
  /\ UNCHANGED rows /\ Works

(* A request is refused before any of its items is looked at. *)
RequestFails == Fail /\ UNCHANGED <<rows, handler>>

-----------------------------------------------------------------------------
(* POST /manager/review/:id/approve, and approve-many with several ids.    *)
ApproveArrives(h, batch) == Arrives(h, "approve", batch, NoSender)

(* An IN whose product or shelf is not known cannot be approved. *)
ApproveRead(h) ==
  /\ At(h, "read")
  /\ \/ status[Item(h)] = "PENDING" /\ Goto(h, "claim")
     \/ ~ (status[Item(h)] = "PENDING" /\ TypeOf[Item(h)] = "COUNT") /\ NextItem(h)
  /\ UNCHANGED rows /\ Works

(* A variant of the claim without the status in its where clause. *)
ClaimUnconditionally(h) ==
  /\ At(h, "claim")
  /\ status' = [status EXCEPT ![Item(h)] = "APPROVED"]
  /\ IF TypeOf[Item(h)] = "COUNT" THEN NextItem(h) ELSE Goto(h, "execute")
  /\ UNCHANGED <<commits, linked, attached, loose, labels>> /\ Works

(* updateMany where status = PENDING: the winner commits the stock.  A     *)
(* COUNT only records the number, it never touches the stock.              *)
Claim(h) ==
  /\ At(h, "claim")
  /\ \/ /\ status[Item(h)] = "PENDING"
        /\ status' = [status EXCEPT ![Item(h)] = "APPROVED"]
        /\ IF TypeOf[Item(h)] = "COUNT" THEN NextItem(h) ELSE Goto(h, "execute")
     \/ /\ status[Item(h)] # "PENDING"
        /\ NextItem(h) /\ UNCHANGED status
  /\ UNCHANGED <<commits, linked, attached, loose, labels>> /\ Works

(* A variant that also takes a commit for a failure and releases the claim.*)
ExecuteOrRelease(h) ==
  /\ At(h, "execute")
  /\ commits' = [commits EXCEPT ![Item(h)] = @ + 1]
  /\ Goto(h, "link") \/ Goto(h, "release")
  /\ UNCHANGED <<status, linked, attached, loose, labels>> /\ Works

(* execute({type: 'IN'}), one transaction (StockLedger). *)
Execute(h) ==
  /\ At(h, "execute")
  /\ \/ /\ commits' = [commits EXCEPT ![Item(h)] = @ + 1]
        /\ Goto(h, "link") /\ Works
     \/ UNCHANGED commits /\ Goto(h, "release") /\ Fail
  /\ UNCHANGED <<status, linked, attached, loose, labels>>

(* A variant that leaves the claim in place. *)
ReleaseNothing(h) ==
  /\ At(h, "release")
  /\ NextItem(h)
  /\ UNCHANGED rows /\ Works

(* The claim is released, whatever the status is by now. *)
Release(h) ==
  /\ At(h, "release")
  /\ NextItem(h)
  /\ \/ status' = [status EXCEPT ![Item(h)] = "PENDING"] /\ Works
     \/ UNCHANGED status /\ Fail
  /\ UNCHANGED <<commits, linked, attached, loose, labels>>

(* One transaction links the ledger row and the photos that are here. *)
Link(h) ==
  /\ At(h, "link")
  /\ \/ /\ linked' = [linked EXCEPT ![Item(h)] = TRUE]
        /\ attached' = [attached EXCEPT ![Item(h)] = @ + loose[Item(h)]]
        /\ loose' = [loose EXCEPT ![Item(h)] = 0]
        /\ Goto(h, "label") /\ Works
     \/ UNCHANGED <<linked, attached, loose>> /\ NextItem(h) /\ Fail
  /\ UNCHANGED <<status, commits, labels>>

(* The label is queued on a best-effort basis. *)
Label(h) ==
  /\ At(h, "label")
  /\ NextItem(h)
  /\ \/ labels' = [labels EXCEPT ![Item(h)] = @ + 1] /\ Works
     \/ UNCHANGED labels /\ Fail
  /\ UNCHANGED <<status, commits, linked, attached, loose>>

-----------------------------------------------------------------------------
(* POST /manager/review/:id/reject: a check, and then an update that does  *)
(* not repeat it.                                                          *)
RejectArrives(h, o) == Arrives(h, "reject", <<o>>, NoSender)

RejectCheck(h) ==
  /\ At(h, "check")
  /\ IF status[Item(h)] = "PENDING" THEN Goto(h, "reject") ELSE NextItem(h)
  /\ UNCHANGED rows /\ Works

Reject(h) ==
  /\ At(h, "reject")
  /\ status' = [status EXCEPT ![Item(h)] = "REJECTED"]
  /\ NextItem(h)
  /\ UNCHANGED <<commits, linked, attached, loose, labels>> /\ Works

-----------------------------------------------------------------------------
(* uploadPendingOperationPhoto.  The phone resends a photo whose answer it *)
(* did not get.  The handler remembers the committedLogId it read.         *)
PhotoArrives(h, o) == Arrives(h, "photo", <<o>>, NoSender)

PhotoFind(h) ==
  /\ At(h, "find")
  /\ IF status[Item(h)] = "NONE"
     THEN NextItem(h)
     ELSE handler' = [handler EXCEPT ![h].at = "dedupe", ![h].saw = linked[Item(h)]]
  /\ UNCHANGED rows /\ Works

PhotoDedupe(h) ==
  /\ At(h, "dedupe")
  /\ IF attached[Item(h)] + loose[Item(h)] > 0 THEN NextItem(h) ELSE Goto(h, "store")
  /\ UNCHANGED rows /\ Works

PhotoStore(h) ==
  /\ At(h, "store")
  /\ NextItem(h)
  /\ IF handler[h].saw
     THEN attached' = [attached EXCEPT ![Item(h)] = @ + 1] /\ UNCHANGED loose
     ELSE loose' = [loose EXCEPT ![Item(h)] = @ + 1] /\ UNCHANGED attached
  /\ UNCHANGED <<status, commits, linked, labels>> /\ Works

-----------------------------------------------------------------------------
(* The API stops: what the handlers had not yet done is never done.        *)
Crash ==
  /\ crashes < MaxCrashes
  /\ crashes' = crashes + 1
  /\ handler' = [h \in Handler |-> Idle]
  /\ UNCHANGED <<rows, errors>>

(* The steps of a handler once its request is here. *)
Step(h) ==
  \/ SyncLookup(h)  \/ SyncCreate(h) \/ SyncItemFails(h)
  \/ ApproveRead(h) \/ Claim(h) \/ Execute(h) \/ Release(h) \/ Link(h) \/ Label(h)
  \/ RejectCheck(h) \/ Reject(h)
  \/ PhotoFind(h) \/ PhotoDedupe(h) \/ PhotoStore(h)

Batch == UNION {[1..n -> Op] : n \in 1..MaxBatch}

(* The managers review what is listed, at any time, from several screens.  *)
Review(h) ==
  \/ \E b \in Batch : (\A i \in DOMAIN b : status[b[i]] # "NONE") /\ ApproveArrives(h, b)
  \/ \E o \in Op : status[o] # "NONE" /\ RejectArrives(h, o)

(* A phone sends any of the operations any number of times. *)
Send(h) ==
  \E b \in Batch, s \in Sender \cup {NoSender}, m \in BOOLEAN : SyncArrives(h, b, s, m)

Next ==
  \/ Crash \/ RequestFails
  \/ \E h \in Handler :
       \/ Step(h) \/ Answer(h) \/ HangUp(h)
       \/ Review(h) \/ Send(h) \/ \E o \in Photographed : PhotoArrives(h, o)

Spec == Init /\ [][Next]_vars

-----------------------------------------------------------------------------
(* PROPERTIES *)

Labels == {"free", "lookup", "create", "answer", "read", "claim", "execute",
           "release", "link", "label", "check", "reject", "find", "dedupe", "store"}

HandlerRecord ==
  [at : Labels, task : {"none"} \cup DOMAIN First, item : Op \cup {NoOp}, queue : Seq(Op),
   sender : Sender \cup {NoSender}, refused : SUBSET Op, saw : BOOLEAN]

(* The values the variables take; a handler without an item to work on is  *)
(* idle or answers.                                                        *)
TypeOK ==
  /\ status \in [Op -> {"NONE", "PENDING", "APPROVED", "REJECTED"}]
  /\ commits \in [Op -> Nat] /\ labels \in [Op -> Nat]
  /\ attached \in [Op -> Nat] /\ loose \in [Op -> Nat]
  /\ linked \in [Op -> BOOLEAN]
  /\ handler \in [Handler -> HandlerRecord]
  /\ \A h \in Handler :
       /\ Item(h) = NoOp <=> handler[h].at \in {"free", "answer"}
       /\ handler[h].task = "none" <=> At(h, "free")

(* However often a phone sends an operation and however many managers      *)
(* approve it, whatever fails and whenever the API stops, its stock is     *)
(* committed at most once, and only for an IN; its label is queued, and    *)
(* its ledger row linked, only for the commit (the claim of approve).      *)
CommitsAtMostOnce ==
  \A o \in Op :
    /\ commits[o] <= (IF TypeOf[o] = "IN" THEN 1 ELSE 0)
    /\ labels[o] <= commits[o]
    /\ linked[o] => commits[o] = 1

(* h won the claim of o and has not yet committed the stock or given up. *)
HoldsClaim(h, o) == Item(h) = o /\ handler[h].at \in {"execute", "release"}

(* An approved IN has its stock, unless the approval is still running:     *)
(* approve releases its claim when the commit fails.                       *)
ApprovedHasStock ==
  \A o \in Op :
    status[o] = "APPROVED" /\ TypeOf[o] = "IN" /\ (\A h \in Handler : ~ HoldsClaim(h, o))
      => commits[o] = 1

(* A claim whose commit fails is released, whoever else is working on the  *)
(* operation meanwhile; what is left are restarts, and a release that      *)
(* fails, too.                                                             *)
FailedClaimIsReleased == crashes = 0 /\ errors <= 1 => ApprovedHasStock

(* Stock that is committed stays the commit of its operation: a row never  *)
(* goes back to the queue, where it could be approved again, and is never  *)
(* unlinked.                                                               *)
CommitIsFinal ==
  [][\A o \in Op :
       commits[o] > 0 => /\ status'[o] # "PENDING"
                         /\ commits'[o] = commits[o]
                         /\ linked[o] => linked'[o]]_vars
=============================================================================
