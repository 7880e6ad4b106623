------------------------------ MODULE WorkTasks ------------------------------
(***************************************************************************)
(* One task of the warehouse's work list (WorkTasksService) and the phones *)
(* of the workers who tick its items off, offline.  A phone queues its     *)
(* ticks and sends them in batches; ticking an item of a PUTAWAY task also *)
(* moves its goods from the staging location to the shelf.  A request is   *)
(* served in the awaits of the code, so others run between any two steps.  *)
(***************************************************************************)
EXTENDS Integers, FiniteSets

CONSTANTS
  Item,        \* lines of the task
  Tick,        \* ticks the workers make, by their clientMutationId
  ItemOf,      \* the item of each tick
  Worker,
  WorkerOf,    \* whose phone it is queued on
  Handler,     \* requests the API may be serving at one time
  NoTick,      \* not a Tick
  NoWorker,    \* not a Worker
  MaxTrouble   \* bound: lost connections, failing calls and restarts together

ASSUME ItemAssumption == Item # {} /\ IsFiniteSet(Item)
ASSUME ItemOfAssumption == ItemOf \in [Tick -> Item]
ASSUME WorkerOfAssumption == WorkerOf \in [Tick -> Worker]
ASSUME NoOneAssumption == NoTick \notin Tick /\ NoWorker \notin Worker

VARIABLES
  kind,     \* of the task; never changes
  task,     \* its status
  ticked,   \* the tick that made an item DONE, or NoTick while it is PENDING
  moves,    \* how often the goods of an item were put on the shelf
  gone,     \* another operation took them off the staging location
  queue,    \* the row of a tick in the outbox of its phone
  handler,  \* the request each handler serves
  trouble   \* what has gone wrong so far

db == <<kind, task, ticked, moves, gone>>
vars == <<db, queue, handler, trouble>>

Answers == {"none", "OK", "ALREADY_DONE", "REFUSED"}
Statuses == {"PENDING", "IN_PROGRESS", "COMPLETED", "CANCELLED"}

Idle == [at |-> "free", worker |-> NoWorker, batch |-> {}, rest |-> {}, tick |-> NoTick,
         answer |-> [t \in Tick |-> "none"], affected |-> FALSE, next |-> "PENDING"]

Init ==
  /\ kind \in {"PICK", "PUTAWAY"}
  /\ task = "PENDING"
  /\ ticked = [i \in Item |-> NoTick]
  /\ moves = [i \in Item |-> 0]
  /\ gone = [i \in Item |-> FALSE]
  /\ queue = [t \in Tick |-> "none"]
  /\ handler = [h \in Handler |-> Idle]
  /\ trouble = 0

At(h, label) == handler[h].at = label
Goto(h, label) == handler' = [handler EXCEPT ![h].at = label]
Current(h) == handler[h].tick
Through(h) == At(h, "next") /\ handler[h].rest = {}   \* with the batch
Done(i) == ticked[i] # NoTick

(* A connection is lost, a database call fails, or the API stops. *)
Trouble == trouble < MaxTrouble /\ trouble' = trouble + 1

(* The tick t is answered; an OK makes the task one to recompute.    *)
Reply(h, t, answer) ==
  handler' = [handler EXCEPT ![h].at = "next", ![h].tick = NoTick, ![h].rest = @ \ {t},
                             ![h].answer[t] = answer,
                             ![h].affected = @ \/ answer = "OK"]

(* The same for a tick that was found done by an earlier request. *)
ReplyFound(h, t) ==
  handler' = [handler EXCEPT ![h].rest = @ \ {t},
                             ![h].answer[t] =
                                IF ticked[ItemOf[t]] = t THEN "OK" ELSE "ALREADY_DONE"]

-----------------------------------------------------------------------------
(* The phones. *)

(* The phone shows the item as done at once and queues the tick. *)
Capture(t) ==
  /\ queue[t] = "none"
  /\ queue' = [queue EXCEPT ![t] = "PENDING"]
  /\ UNCHANGED <<db, handler, trouble>>

(* A worker sends a rejected tick again, or drops it. *)
Retry(t) ==
  /\ queue[t] = "FAILED"
  /\ queue' = [queue EXCEPT ![t] = "PENDING"]
  /\ UNCHANGED <<db, handler, trouble>>

Discard(t) ==
  /\ queue[t] = "FAILED"
  /\ queue' = [queue EXCEPT ![t] = "DISCARDED"]
  /\ UNCHANGED <<db, handler, trouble>>

Pending(w) == {t \in Tick : WorkerOf[t] = w /\ queue[t] = "PENDING"}

(* A drain of the outbox of w: one request with all of it, which reaches h. *)
Send(w, h) ==
  /\ At(h, "free") /\ Pending(w) # {}
  /\ handler' = [handler EXCEPT ![h] =
       [Idle EXCEPT !.at = "next", !.worker = w, !.batch = Pending(w), !.rest = Pending(w)]]
  /\ UNCHANGED <<db, queue, trouble>>

(* The rows an answer to h can still change: an earlier one may have      *)
(* removed some.                                                           *)
Rows(h) ==
  {t \in handler[h].batch :
     handler[h].worker # NoWorker /\ queue[t] \in {"PENDING", "FAILED"}}

(* Each tick has an answer of its own: done ones leave the outbox, refused *)
(* ones are shown to the worker.                                           *)
Receive(h) ==
  /\ Through(h) /\ ~ handler[h].affected
  /\ queue' = [t \in Tick |->
       IF t \notin Rows(h) THEN queue[t]
       ELSE IF handler[h].answer[t] \in {"OK", "ALREADY_DONE"} THEN "SYNCED" ELSE "FAILED"]
  /\ handler' = [handler EXCEPT ![h] = Idle]
  /\ UNCHANGED <<db, trouble>>

(* No network, or an expired token: the ticks stay PENDING, the request    *)
(* runs on.                                                                *)
HangUp(h) ==
  /\ Trouble /\ handler[h].worker # NoWorker
  /\ handler' = [handler EXCEPT ![h].worker = NoWorker]
  /\ UNCHANGED <<db, queue>>

-----------------------------------------------------------------------------
(* syncMutations: POST /work-tasks/sync. *)

(* The item with its task.  The worker can see the task, or the phone      *)
(* would not have shown it.                                                *)
Read(h) ==
  /\ At(h, "next")
  /\ \E t \in handler[h].rest :
       \/ task = "CANCELLED" /\ Reply(h, t, "REFUSED")
       \/ task # "CANCELLED" /\ Done(ItemOf[t]) /\ ReplyFound(h, t)
       \/ task # "CANCELLED" /\ ~ Done(ItemOf[t])
          /\ handler' = [handler EXCEPT
               ![h].at = IF kind = "PUTAWAY" THEN "destination" ELSE "claim", ![h].tick = t]
  /\ UNCHANGED <<db, queue, trouble>>

(* The shelf was not scanned, is unknown, or is no longer in use. *)
Destination(h) ==
  /\ At(h, "destination")
  /\ Reply(h, Current(h), "REFUSED") \/ Goto(h, "claim")
  /\ UNCHANGED <<db, queue, trouble>>

(* A variant whose transfer does not ask who won the claim. *)
ClaimAndMove(h) ==
  LET i == ItemOf[Current(h)]
  IN  /\ At(h, "claim") /\ ~ (kind = "PUTAWAY" /\ gone[i])
      /\ moves' = [moves EXCEPT ![i] = IF kind = "PUTAWAY" THEN @ + 1 ELSE @]
      /\ IF Done(i)
         THEN Goto(h, "reread") /\ UNCHANGED ticked
         ELSE Reply(h, Current(h), "OK") /\ ticked' = [ticked EXCEPT ![i] = Current(h)]
      /\ UNCHANGED <<kind, task, gone, queue, trouble>>

(* One transaction: the claim and, for the one who wins it, the transfer;  *)
(* without the goods both are rolled back.                                 *)
Claim(h) ==
  LET i == ItemOf[Current(h)]
  IN  /\ At(h, "claim")
      /\ \/ /\ Done(i)
            /\ Goto(h, "reread")
            /\ UNCHANGED <<ticked, moves>>
         \/ /\ ~ Done(i) /\ kind = "PUTAWAY" /\ gone[i]
            /\ Reply(h, Current(h), "REFUSED")
            /\ UNCHANGED <<ticked, moves>>
         \/ /\ ~ Done(i) /\ ~ (kind = "PUTAWAY" /\ gone[i])
            /\ ticked' = [ticked EXCEPT ![i] = Current(h)]
            /\ moves' = [moves EXCEPT ![i] = IF kind = "PUTAWAY" THEN @ + 1 ELSE @]
            /\ Reply(h, Current(h), "OK")
      /\ UNCHANGED <<kind, task, gone, queue, trouble>>

(* Whatever else fails in that transaction is caught: it is TRANSFER_FAILED. *)
ClaimFails(h) ==
  /\ At(h, "claim") /\ Trouble
  /\ Reply(h, Current(h), "REFUSED")
  /\ UNCHANGED <<db, queue>>

(* A variant that tells every loser OK. *)
RereadTrustingly(h) ==
  /\ At(h, "reread")
  /\ Reply(h, Current(h), "OK")
  /\ UNCHANGED <<db, queue, trouble>>

(* Who lost the claim looks whether an earlier request of its own won it.  *)
Reread(h) ==
  /\ At(h, "reread")
  /\ Reply(h, Current(h), IF ticked[ItemOf[Current(h)]] = Current(h) THEN "OK" ELSE "ALREADY_DONE")
  /\ UNCHANGED <<db, queue, trouble>>

(* A variant that takes a task for finished when one item is left. *)
CountOffByOne(h) ==
  /\ Through(h) /\ handler[h].affected
  /\ handler' = [handler EXCEPT ![h].at = "write", ![h].next =
       IF Cardinality({i \in Item : ~ Done(i)}) <= 1 THEN "COMPLETED"
       ELSE IF \E i \in Item : Done(i) THEN "IN_PROGRESS" ELSE "PENDING"]
  /\ UNCHANGED <<db, queue, trouble>>

(* refreshStatusAndNotify: the items are counted in one statement ... *)
Count(h) ==
  /\ Through(h) /\ handler[h].affected
  /\ handler' = [handler EXCEPT ![h].at = "write", ![h].next =
       IF \A i \in Item : Done(i) THEN "COMPLETED"
       ELSE IF \E i \in Item : Done(i) THEN "IN_PROGRESS" ELSE "PENDING"]
  /\ UNCHANGED <<db, queue, trouble>>

(* ... and the status is written in another.  Only COMPLETED looks at what *)
(* the status is.                                                          *)
WriteStatus(h) ==
  /\ At(h, "write")
  /\ task' = IF handler[h].next = "COMPLETED" /\ task \notin {"PENDING", "IN_PROGRESS"}
             THEN task ELSE handler[h].next
  /\ handler' = [handler EXCEPT ![h].at = "next", ![h].affected = FALSE, ![h].next = "PENDING"]
  /\ UNCHANGED <<kind, ticked, moves, gone, queue, trouble>>

(* A call outside that transaction throws: 500 for the whole batch, what   *)
(* was committed stays.                                                    *)
RequestFails(h) ==
  /\ handler[h].at \in {"next", "destination", "reread", "write"} /\ Trouble
  /\ Through(h) => handler[h].affected
  /\ queue' = [t \in Tick |-> IF t \in Rows(h) THEN "FAILED" ELSE queue[t]]
  /\ handler' = [handler EXCEPT ![h] = Idle]
  /\ UNCHANGED db

-----------------------------------------------------------------------------
(* The others. *)

(* cancel: POST /work-tasks/:id/cancel, one conditional statement. *)
Cancel ==
  /\ task \in {"PENDING", "IN_PROGRESS"}
  /\ task' = "CANCELLED"
  /\ UNCHANGED <<kind, ticked, moves, gone, queue, handler, trouble>>

(* A sale, a transfer or a count takes the goods off the staging location. *)
TakeGoods(i) ==
  /\ kind = "PUTAWAY" /\ moves[i] = 0 /\ ~ gone[i]
  /\ gone' = [gone EXCEPT ![i] = TRUE]
  /\ UNCHANGED <<kind, task, ticked, moves, queue, handler, trouble>>

(* The API stops; the phones see their connections reset. *)
Crash ==
  /\ Trouble
  /\ handler' = [h \in Handler |-> Idle]
  /\ UNCHANGED <<db, queue>>

-----------------------------------------------------------------------------
Serve(h) ==
  \/ Read(h) \/ Destination(h) \/ Claim(h) \/ Reread(h)
  \/ Count(h) \/ WriteStatus(h) \/ Receive(h)

Next ==
  \/ \E h \in Handler :
       \/ Serve(h) \/ HangUp(h) \/ ClaimFails(h) \/ RequestFails(h)
       \/ \E w \in Worker : Send(w, h)
  \/ \E t \in Tick : Capture(t) \/ Retry(t) \/ Discard(t)
  \/ Cancel \/ Crash
  \/ \E i \in Item : TakeGoods(i)

Spec == Init /\ [][Next]_vars

-----------------------------------------------------------------------------
(* PROPERTIES *)

Request ==
  [at : {"free", "next", "destination", "claim", "reread", "write"},
   worker : Worker \cup {NoWorker}, batch : SUBSET Tick, rest : SUBSET Tick,
   tick : Tick \cup {NoTick}, answer : [Tick -> Answers], affected : BOOLEAN,
   next : Statuses \ {"CANCELLED"}]

TypeOK ==
  /\ kind \in {"PICK", "PUTAWAY"} /\ task \in Statuses
  /\ ticked \in [Item -> Tick \cup {NoTick}]
  /\ moves \in [Item -> Nat] /\ gone \in [Item -> BOOLEAN]
  /\ queue \in [Tick -> {"none", "PENDING", "FAILED", "SYNCED", "DISCARDED"}]
  /\ handler \in [Handler -> Request]
  /\ \A h \in Handler :
       /\ (Current(h) # NoTick) = (handler[h].at \in {"destination", "claim", "reread"})
       /\ Current(h) # NoTick => Current(h) \in handler[h].rest
       /\ handler[h].rest \subseteq handler[h].batch
  /\ trouble \in Nat

(* The goods of an item of a PUTAWAY task are put on the shelf exactly     *)
(* when the item is ticked off, and once, however many phones tick it and  *)
(* however often their batches are repeated, cut off or fail half way.     *)
TickedIsShelved ==
  \A i \in Item : moves[i] = IF kind = "PUTAWAY" /\ Done(i) THEN 1 ELSE 0

(* What a phone counts as synced and deletes is done on the server.        *)
SyncedMeansDone == \A t \in Tick : queue[t] = "SYNCED" => Done(ItemOf[t])

(* OK goes to the tick that did the item, to nobody else's, also when it   *)
(* is only told by the answer to a repetition.                             *)
OKMeansMine ==
  \A h \in Handler, t \in Tick :
    handler[h].answer[t] = "OK" => ticked[ItemOf[t]] = t

(* A task is COMPLETED only with every item done. *)
CompletedIsDone == task = "COMPLETED" => \A i \in Item : Done(i)
=============================================================================
