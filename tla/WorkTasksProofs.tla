--------------------------- MODULE WorkTasksProofs ---------------------------
(***************************************************************************)
(* Proofs about WorkTasks, for any task, workers, ticks and requests at a  *)
(* time, and for any number of lost connections, failures and restarts.    *)
(***************************************************************************)
EXTENDS WorkTasks, TLAPS

(* What holds of a request that is being served, given who ticked what:    *)
(* its answers are true and stay true, because a tick is never taken back. *)
RequestOK(r, by) ==
  /\ r \in Request
  /\ (r.tick # NoTick) = (r.at \in {"destination", "claim", "reread"})
  /\ r.tick # NoTick => r.tick \in r.rest
  /\ r.rest \subseteq r.batch
  /\ \A t \in Tick : r.answer[t] = "OK" => by[ItemOf[t]] = t
  /\ \A t \in Tick : r.answer[t] = "ALREADY_DONE" => by[ItemOf[t]] # NoTick
  /\ r.next = "COMPLETED" => \A i \in Item : by[i] # NoTick
  /\ r.at = "reread" => by[ItemOf[r.tick]] # NoTick

TicksOK == ticked \in [Item -> Tick \cup {NoTick}]

RequestsOK ==
  /\ handler \in [Handler -> Request]
  /\ \A h \in Handler : RequestOK(handler[h], ticked)

RowsOK ==
  /\ kind \in {"PICK", "PUTAWAY"} /\ task \in Statuses
  /\ moves \in [Item -> Nat] /\ gone \in [Item -> BOOLEAN]
  /\ queue \in [Tick -> {"none", "PENDING", "FAILED", "SYNCED", "DISCARDED"}]
  /\ trouble \in Nat

TableOK ==
  TicksOK /\ RowsOK /\ TickedIsShelved /\ SyncedMeansDone /\ CompletedIsDone

IInv == RequestsOK /\ TableOK

(* No tick is taken back or taken over. *)
TicksStay == \A i \in Item : Done(i) => ticked'[i] = ticked[i]

-----------------------------------------------------------------------------
(* Lemmas about one request. *)

LEMMA IdleIsOK == ASSUME NEW by PROVE RequestOK(Idle, by)
BY NoOneAssumption DEF RequestOK, Idle, Request, Answers, Statuses

LEMMA StaysOK ==
  ASSUME NEW r, NEW by, NEW later, RequestOK(r, by),
         \A i \in Item : by[i] # NoTick => later[i] = by[i]
  PROVE  RequestOK(r, later)
BY ItemOfAssumption, NoOneAssumption DEF RequestOK, Request

(* A request whose tick t got an answer that is true. *)
Replied(r, t, answer, due) ==
  [r EXCEPT !.at = "next", !.tick = NoTick, !.rest = @ \ {t},
            !.answer = [@ EXCEPT ![t] = answer], !.affected = due]

LEMMA RepliedIsOK ==
  ASSUME NEW r \in Request, NEW by, RequestOK(r, by), NEW t \in Tick,
         NEW answer \in Answers, NEW due \in BOOLEAN,
         answer = "OK" => by[ItemOf[t]] = t,
         answer = "ALREADY_DONE" => by[ItemOf[t]] # NoTick
  PROVE  RequestOK(Replied(r, t, answer, due), by)
<1> DEFINE n == Replied(r, t, answer, due)
<1>1. /\ n \in Request
      /\ n.at = "next" /\ n.tick = NoTick /\ n.rest = r.rest \ {t}
      /\ n.batch = r.batch /\ n.next = r.next
      /\ n.answer = [r.answer EXCEPT ![t] = answer]
  BY DEF Replied, Request
<1>2. n.answer[t] = answer /\ \A s \in Tick \ {t} : n.answer[s] = r.answer[s]
  BY <1>1 DEF Request
<1>3. RequestOK(n, by)
  <2> HIDE DEF n
  <2> QED BY <1>1, <1>2 DEF RequestOK
<1> QED BY <1>3

-----------------------------------------------------------------------------
(* A step that leaves ticks and tasks alone and changes the request of h.  *)
LEMMA OneRequest ==
  ASSUME RequestsOK, NEW h \in Handler, NEW n,
         handler' = [handler EXCEPT ![h] = n],
         RequestOK(n, ticked'), TicksStay
  PROVE  RequestsOK'
<1>1. n \in Request
  BY DEF RequestOK
<1>2. handler' \in [Handler -> Request]
  BY <1>1 DEF RequestsOK
<1>3. ASSUME NEW g \in Handler PROVE RequestOK(handler'[g], ticked')
  <2>1. CASE g = h
    BY <2>1 DEF RequestsOK
  <2>2. CASE g # h
    <3>1. handler'[g] = handler[g] /\ RequestOK(handler[g], ticked)
      BY <2>2 DEF RequestsOK
    <3> QED BY <3>1, StaysOK DEF TicksStay, Done
  <2> QED BY <2>1, <2>2
<1> QED BY <1>2, <1>3 DEF RequestsOK

LEMMA ReplyStep ==
  ASSUME RequestsOK, NEW h \in Handler, NEW t \in Tick, NEW answer \in Answers,
         Reply(h, t, answer), TicksOK, TicksStay, TicksOK',
         answer = "OK" => ticked'[ItemOf[t]] = t,
         answer = "ALREADY_DONE" => ticked'[ItemOf[t]] # NoTick
  PROVE  RequestsOK'
<1> DEFINE r == handler[h]
           due == r.affected \/ answer = "OK"
<1>1. RequestOK(r, ticked) /\ r \in Request
  BY DEF RequestsOK
<1>2. RequestOK(r, ticked')
  BY <1>1, StaysOK DEF TicksStay, Done
<1>3. due \in BOOLEAN
  BY Zenon
<1>4. handler' = [handler EXCEPT ![h] = Replied(r, t, answer, due)]
  BY <1>1 DEF Reply, Replied, RequestsOK, Request
<1>5. RequestOK(Replied(r, t, answer, due), ticked')
  <2> HIDE DEF r, due
  <2> QED BY <1>1, <1>2, <1>3, RepliedIsOK
<1> QED BY <1>4, <1>5, OneRequest

-----------------------------------------------------------------------------
(* The steps. *)

LEMMA TableStays ==
  ASSUME TableOK, UNCHANGED <<db, queue>>, trouble' \in Nat
  PROVE  TableOK' /\ TicksStay
BY DEF TableOK, db, TicksOK, RowsOK, TickedIsShelved, SyncedMeansDone,
       CompletedIsDone, Done, TicksStay

LEMMA InitOK == Init => IInv
<1> SUFFICES ASSUME Init PROVE IInv
  OBVIOUS
<1>1. RequestsOK
  <2>1. RequestOK(Idle, ticked)
    BY IdleIsOK
  <2>2. Idle \in Request
    BY <2>1 DEF RequestOK
  <2> QED BY <2>1, <2>2 DEF Init, RequestsOK
<1>2. TicksOK /\ RowsOK
  BY DEF Init, TicksOK, RowsOK, Statuses
<1>3. TickedIsShelved /\ SyncedMeansDone /\ CompletedIsDone
  BY DEF Init, TickedIsShelved, SyncedMeansDone, CompletedIsDone, Done
<1> QED BY <1>1, <1>2, <1>3 DEF IInv, TableOK

LEMMA ReadStep ==
  ASSUME IInv, NEW h \in Handler, Read(h) PROVE IInv'
<1>1. TableOK' /\ TicksStay /\ ticked' = ticked
  BY TableStays DEF IInv, Read, TableOK, RowsOK, db
<1>2. handler[h] \in Request /\ RequestOK(handler[h], ticked)
  BY DEF IInv, RequestsOK
<1>3. PICK t \in handler[h].rest :
        \/ Reply(h, t, "REFUSED")
        \/ Done(ItemOf[t]) /\ ReplyFound(h, t)
        \/ ~ Done(ItemOf[t])
           /\ handler' = [handler EXCEPT
                ![h].at = IF kind = "PUTAWAY" THEN "destination" ELSE "claim",
                ![h].tick = t]
  BY DEF Read
<1>4. t \in Tick
  BY <1>2 DEF Request
<1>5. RequestsOK'
  <2>1. CASE Reply(h, t, "REFUSED")
    BY <1>1, <1>4, <2>1, ReplyStep DEF IInv, TableOK, Answers
  <2>2. CASE Done(ItemOf[t]) /\ ReplyFound(h, t)
    <3> DEFINE a == IF ticked[ItemOf[t]] = t THEN "OK" ELSE "ALREADY_DONE"
               n == [handler[h] EXCEPT !.rest = @ \ {t}, !.answer = [@ EXCEPT ![t] = a]]
    <3>1. a \in Answers
      BY DEF Answers
    <3>2. handler' = [handler EXCEPT ![h] = n]
      BY <1>2, <2>2 DEF ReplyFound, IInv, RequestsOK, Request
    <3>3. /\ n \in Request
          /\ n.at = "next" /\ n.tick = NoTick
          /\ n.rest = handler[h].rest \ {t}
          /\ n.batch = handler[h].batch /\ n.next = handler[h].next
          /\ n.answer = [handler[h].answer EXCEPT ![t] = a]
      BY <1>2, <3>1 DEF Request, Read, At, RequestOK
    <3>4. n.answer[t] = a /\ \A s \in Tick \ {t} : n.answer[s] = handler[h].answer[s]
      BY <1>2, <3>3 DEF Request
    <3>5. RequestOK(n, ticked')
      <4> HIDE DEF n
      <4> QED BY <1>1, <1>2, <2>2, <3>3, <3>4 DEF RequestOK, Done
    <3> HIDE DEF n
    <3> QED BY <1>1, <3>2, <3>5, OneRequest DEF IInv
  <2>3. CASE ~ Done(ItemOf[t])
             /\ handler' = [handler EXCEPT
                  ![h].at = IF kind = "PUTAWAY" THEN "destination" ELSE "claim",
                  ![h].tick = t]
    <3> DEFINE n == [handler[h] EXCEPT
                       !.at = IF kind = "PUTAWAY" THEN "destination" ELSE "claim",
                       !.tick = t]
    <3>1. handler' = [handler EXCEPT ![h] = n]
      BY <1>2, <2>3 DEF IInv, RequestsOK, Request
    <3>2. RequestOK(n, ticked')
      BY <1>1, <1>2, <1>4, NoOneAssumption DEF RequestOK, Request
    <3> QED BY <1>1, <3>1, <3>2, OneRequest DEF IInv
  <2> QED BY <1>3, <2>1, <2>2, <2>3
<1> QED BY <1>1, <1>5 DEF IInv

LEMMA DestinationStep ==
  ASSUME IInv, NEW h \in Handler, Destination(h) PROVE IInv'
<1>1. TableOK' /\ TicksStay /\ ticked' = ticked
  BY TableStays DEF IInv, Destination, TableOK, RowsOK, db
<1>2. handler[h] \in Request /\ RequestOK(handler[h], ticked)
  BY DEF IInv, RequestsOK
<1>3. Current(h) \in Tick
  BY <1>2 DEF Destination, At, Current, RequestOK, Request
<1>4. CASE Reply(h, Current(h), "REFUSED")
  BY <1>1, <1>3, <1>4, ReplyStep DEF IInv, TableOK, Answers
<1>5. CASE Goto(h, "claim")
  <2> DEFINE n == [handler[h] EXCEPT !.at = "claim"]
  <2>1. handler' = [handler EXCEPT ![h] = n]
    BY <1>5 DEF Goto
  <2>2. RequestOK(n, ticked')
    BY <1>1, <1>2 DEF RequestOK, Request, Destination, At
  <2> QED BY <1>1, <2>1, <2>2, OneRequest DEF IInv
<1> QED BY <1>1, <1>4, <1>5 DEF IInv, Destination

(* The claim is the one step that ticks: what was ticked stays so, and the *)
(* goods of the item move with it.                                         *)
LEMMA ClaimStep ==
  ASSUME IInv, NEW h \in Handler, Claim(h) PROVE IInv'
<1> DEFINE t == Current(h)
           i == ItemOf[t]
<1>1. handler[h] \in Request /\ RequestOK(handler[h], ticked) /\ handler[h].at = "claim"
  BY DEF IInv, RequestsOK, Claim, At
<1>2. t \in Tick /\ t # NoTick /\ i \in Item
  BY <1>1, ItemOfAssumption, NoOneAssumption DEF Current, RequestOK, Request
<1>3. CASE Done(i) /\ Goto(h, "reread") /\ UNCHANGED <<ticked, moves>>
  <2> DEFINE n == [handler[h] EXCEPT !.at = "reread"]
  <2>1. TableOK' /\ TicksStay
    BY <1>3, TableStays DEF IInv, Claim, TableOK, RowsOK, db
  <2>2. handler' = [handler EXCEPT ![h] = n]
    BY <1>3 DEF Goto
  <2>3. RequestOK(n, ticked')
    BY <1>1, <1>2, <1>3 DEF RequestOK, Request, Done, Current
  <2> QED BY <2>1, <2>2, <2>3, OneRequest DEF IInv
<1>4. CASE Reply(h, t, "REFUSED") /\ UNCHANGED <<ticked, moves>>
  <2>1. TableOK' /\ TicksStay
    BY <1>4, TableStays DEF IInv, Claim, TableOK, RowsOK, db
  <2> QED BY <1>2, <1>4, <2>1, ReplyStep DEF IInv, TableOK, Answers
<1>5. CASE /\ ~ Done(i)
           /\ ticked' = [ticked EXCEPT ![i] = t]
           /\ moves' = [moves EXCEPT ![i] = IF kind = "PUTAWAY" THEN @ + 1 ELSE @]
           /\ Reply(h, t, "OK")
  <2>1. UNCHANGED <<kind, task, gone, queue, trouble>>
    BY DEF Claim
  <2>2. TicksOK' /\ TicksStay /\ ticked'[i] = t
    BY <1>2, <1>5 DEF IInv, TableOK, TicksOK, TicksStay, Done
  <2>3. RowsOK'
    BY <1>2, <1>5, <2>1 DEF IInv, TableOK, RowsOK
  <2>4. TickedIsShelved'
    BY <1>2, <1>5, <2>1, <2>2 DEF IInv, TableOK, TicksOK, RowsOK, TickedIsShelved, Done
  <2>5. \A j \in Item : Done(j) => Done(j)'
    BY <2>2 DEF TicksStay, Done
  <2>6. SyncedMeansDone' /\ CompletedIsDone'
    BY <2>1, <2>5, ItemOfAssumption DEF IInv, TableOK, SyncedMeansDone, CompletedIsDone
  <2>7. RequestsOK'
    BY <1>2, <1>5, <2>2, ReplyStep DEF IInv, TableOK, Answers
  <2> QED BY <2>2, <2>3, <2>4, <2>6, <2>7 DEF IInv, TableOK
<1> QED BY <1>3, <1>4, <1>5 DEF Claim

LEMMA ClaimFailsStep ==
  ASSUME IInv, NEW h \in Handler, ClaimFails(h) PROVE IInv'
<1>1. TableOK' /\ TicksStay
  BY TableStays DEF IInv, ClaimFails, Trouble, TableOK, RowsOK
<1>2. Current(h) \in Tick
  BY DEF IInv, RequestsOK, ClaimFails, At, Current, RequestOK, Request
<1> QED BY <1>1, <1>2, ReplyStep DEF IInv, TableOK, ClaimFails, Answers

LEMMA RereadStep ==
  ASSUME IInv, NEW h \in Handler, Reread(h) PROVE IInv'
<1>1. TableOK' /\ TicksStay /\ ticked' = ticked
  BY TableStays DEF IInv, Reread, TableOK, RowsOK, db
<1>2. PICK t \in Tick : t = Current(h) /\ ticked[ItemOf[t]] # NoTick
  BY DEF IInv, RequestsOK, Reread, At, Current, RequestOK, Request
<1>3. PICK answer \in Answers :
        /\ Reply(h, t, answer)
        /\ answer = "OK" => ticked[ItemOf[t]] = t
  BY <1>2 DEF Answers, Reread
<1>4. RequestsOK'
  BY <1>1, <1>2, <1>3, ReplyStep DEF IInv, TableOK
<1> QED BY <1>1, <1>4 DEF IInv

LEMMA CountStep ==
  ASSUME IInv, NEW h \in Handler, Count(h) PROVE IInv'
<1>1. TableOK' /\ TicksStay /\ ticked' = ticked
  BY TableStays DEF IInv, Count, TableOK, RowsOK, db
<1>2. handler[h] \in Request /\ RequestOK(handler[h], ticked) /\ handler[h].at = "next"
  BY DEF IInv, RequestsOK, Count, Through, At
<1>3. PICK next \in Statuses \ {"CANCELLED"} :
        /\ handler' = [handler EXCEPT ![h].at = "write", ![h].next = next]
        /\ next = "COMPLETED" => \A i \in Item : Done(i)
  BY DEF Count, Statuses
<1> DEFINE n == [handler[h] EXCEPT !.at = "write", !.next = next]
<1>4. handler' = [handler EXCEPT ![h] = n]
  BY <1>3 DEF IInv, RequestsOK, Request
<1>5. RequestOK(n, ticked')
  <2>1. /\ n \in Request
        /\ n.at = "write" /\ n.next = next
        /\ n.tick = handler[h].tick /\ n.answer = handler[h].answer
        /\ n.rest = handler[h].rest /\ n.batch = handler[h].batch
    BY <1>2 DEF Request
  <2> HIDE DEF n
  <2> QED BY <1>1, <1>2, <1>3, <2>1 DEF RequestOK, Done
<1> HIDE DEF n
<1> QED BY <1>1, <1>4, <1>5, OneRequest DEF IInv

LEMMA WriteStatusStep ==
  ASSUME IInv, NEW h \in Handler, WriteStatus(h) PROVE IInv'
<1> DEFINE n == [handler[h] EXCEPT !.at = "next", !.affected = FALSE, !.next = "PENDING"]
<1>1. UNCHANGED <<kind, ticked, moves, gone, queue, trouble>>
  BY DEF WriteStatus
<1>2. handler[h] \in Request /\ RequestOK(handler[h], ticked) /\ handler[h].at = "write"
  BY DEF IInv, RequestsOK, WriteStatus, At
<1>3. task' \in {task, handler[h].next}
  BY DEF WriteStatus
<1>4. TicksOK' /\ RowsOK' /\ TicksStay
  BY <1>1, <1>2, <1>3 DEF IInv, TableOK, TicksOK, RowsOK, Request, TicksStay
<1>5. TickedIsShelved' /\ SyncedMeansDone'
  BY <1>1 DEF IInv, TableOK, TickedIsShelved, SyncedMeansDone, Done
<1>6. CompletedIsDone'
  BY <1>1, <1>2, <1>3 DEF IInv, TableOK, CompletedIsDone, Done, RequestOK
<1>7. handler' = [handler EXCEPT ![h] = n]
  BY <1>2 DEF WriteStatus, IInv, RequestsOK, Request
<1>8. RequestOK(n, ticked')
  <2>1. /\ n \in Request
        /\ n.at = "next" /\ n.next = "PENDING"
        /\ n.tick = handler[h].tick /\ n.answer = handler[h].answer
        /\ n.rest = handler[h].rest /\ n.batch = handler[h].batch
    BY <1>2 DEF Request, Statuses
  <2> HIDE DEF n
  <2> QED BY <1>1, <1>2, <2>1 DEF RequestOK
<1>9. RequestsOK'
  <2> HIDE DEF n
  <2> QED BY <1>4, <1>7, <1>8, OneRequest DEF IInv
<1> QED BY <1>4, <1>5, <1>6, <1>9 DEF IInv, TableOK

LEMMA SendStep ==
  ASSUME IInv, NEW w \in Worker, NEW h \in Handler, Send(w, h) PROVE IInv'
<1> DEFINE n == [Idle EXCEPT !.at = "next", !.worker = w,
                             !.batch = Pending(w), !.rest = Pending(w)]
<1>1. TableOK' /\ TicksStay
  BY TableStays DEF IInv, Send, TableOK, RowsOK
<1>2. handler' = [handler EXCEPT ![h] = n]
  BY DEF Send
<1>3. Pending(w) \subseteq Tick
  BY DEF Pending
<1>4. RequestOK(n, ticked')
  <2>1. /\ n \in Request
        /\ n.at = "next" /\ n.next = "PENDING" /\ n.tick = NoTick
        /\ n.rest = Pending(w) /\ n.batch = Pending(w)
        /\ n.answer = [t \in Tick |-> "none"]
    BY <1>3 DEF Idle, Request, Answers, Statuses
  <2> HIDE DEF n
  <2> QED BY <2>1 DEF RequestOK
<1>5. RequestsOK'
  <2> HIDE DEF n
  <2> QED BY <1>1, <1>2, <1>4, OneRequest DEF IInv
<1> QED BY <1>1, <1>5 DEF IInv

(* What the phone believes to be synced was answered OK or ALREADY_DONE.   *)
LEMMA ReceiveStep ==
  ASSUME IInv, NEW h \in Handler, Receive(h) PROVE IInv'
<1>1. UNCHANGED <<db, trouble>> /\ handler' = [handler EXCEPT ![h] = Idle]
  BY DEF Receive
<1>2. TicksOK' /\ TicksStay /\ TickedIsShelved' /\ CompletedIsDone'
  BY <1>1 DEF db, IInv, TableOK, TicksOK, TicksStay, TickedIsShelved, CompletedIsDone, Done
<1>3. RowsOK'
  BY <1>1 DEF db, IInv, TableOK, RowsOK, Receive
<1>4. ASSUME NEW t \in Tick, queue'[t] = "SYNCED" PROVE Done(ItemOf[t])
  <2>1. queue[t] = "SYNCED" \/ handler[h].answer[t] \in {"OK", "ALREADY_DONE"}
    BY <1>4 DEF Receive
  <2>2. RequestOK(handler[h], ticked)
    BY DEF IInv, RequestsOK
  <2> QED BY <2>1, <2>2, NoOneAssumption
           DEF IInv, TableOK, SyncedMeansDone, RequestOK, Done
<1>5. SyncedMeansDone'
  BY <1>1, <1>4 DEF db, SyncedMeansDone, Done
<1>6. RequestOK(Idle, ticked')
  BY IdleIsOK
<1>7. RequestsOK'
  BY <1>1, <1>2, <1>6, OneRequest DEF IInv
<1> QED BY <1>2, <1>3, <1>5, <1>7 DEF IInv, TableOK

LEMMA HangUpStep ==
  ASSUME IInv, NEW h \in Handler, HangUp(h) PROVE IInv'
<1> DEFINE n == [handler[h] EXCEPT !.worker = NoWorker]
<1>1. TableOK' /\ TicksStay
  BY TableStays DEF IInv, HangUp, Trouble, TableOK, RowsOK
<1>2. handler[h] \in Request /\ RequestOK(handler[h], ticked) /\ ticked' = ticked
  BY DEF IInv, RequestsOK, HangUp, db
<1>3. handler' = [handler EXCEPT ![h] = n]
  BY DEF HangUp
<1>4. RequestOK(n, ticked')
  BY <1>2 DEF RequestOK, Request
<1> QED BY <1>1, <1>3, <1>4, OneRequest DEF IInv

LEMMA RequestFailsStep ==
  ASSUME IInv, NEW h \in Handler, RequestFails(h) PROVE IInv'
<1>1. UNCHANGED db /\ trouble' \in Nat /\ handler' = [handler EXCEPT ![h] = Idle]
  BY DEF RequestFails, Trouble, IInv, TableOK, RowsOK
<1>2. TicksOK' /\ TicksStay /\ TickedIsShelved' /\ CompletedIsDone'
  BY <1>1 DEF db, IInv, TableOK, TicksOK, TicksStay, TickedIsShelved, CompletedIsDone, Done
<1>3. RowsOK' /\ \A t \in Tick : queue'[t] = "SYNCED" => queue[t] = "SYNCED"
  BY <1>1 DEF db, IInv, TableOK, RowsOK, RequestFails
<1>4. SyncedMeansDone'
  BY <1>1, <1>3 DEF db, IInv, TableOK, SyncedMeansDone, Done
<1>5. RequestOK(Idle, ticked')
  BY IdleIsOK
<1>6. RequestsOK'
  BY <1>1, <1>2, <1>5, OneRequest DEF IInv
<1> QED BY <1>2, <1>3, <1>4, <1>6 DEF IInv, TableOK

LEMMA PhoneStep ==
  ASSUME IInv, NEW t \in Tick, Capture(t) \/ Retry(t) \/ Discard(t) PROVE IInv'
<1>1. PICK to \in {"PENDING", "DISCARDED"} :
        UNCHANGED <<db, handler, trouble>> /\ queue' = [queue EXCEPT ![t] = to]
  BY DEF Capture, Retry, Discard
<1>2. TicksOK' /\ RowsOK' /\ TickedIsShelved' /\ CompletedIsDone' /\ RequestsOK'
  BY <1>1 DEF db, IInv, TableOK, TicksOK, RowsOK, TickedIsShelved, CompletedIsDone,
              Done, RequestsOK
<1>3. SyncedMeansDone'
  BY <1>1 DEF db, IInv, TableOK, RowsOK, SyncedMeansDone, Done
<1> QED BY <1>2, <1>3 DEF IInv, TableOK

LEMMA CancelStep == ASSUME IInv, Cancel PROVE IInv'
BY DEF Cancel, IInv, TableOK, TicksOK, RowsOK, Statuses, TickedIsShelved,
       SyncedMeansDone, CompletedIsDone, Done, RequestsOK

LEMMA TakeGoodsStep == ASSUME IInv, NEW i \in Item, TakeGoods(i) PROVE IInv'
BY DEF TakeGoods, IInv, TableOK, TicksOK, RowsOK, TickedIsShelved,
       SyncedMeansDone, CompletedIsDone, Done, RequestsOK

LEMMA CrashStep == ASSUME IInv, Crash PROVE IInv'
<1>1. TableOK' /\ TicksStay
  BY TableStays DEF IInv, Crash, Trouble, TableOK, RowsOK
<1>2. RequestOK(Idle, ticked')
  BY IdleIsOK
<1>3. Idle \in Request
  BY <1>2 DEF RequestOK
<1>4. RequestsOK'
  BY <1>2, <1>3 DEF Crash, RequestsOK
<1> QED BY <1>1, <1>4 DEF IInv

LEMMA NextOK == IInv /\ [Next]_vars => IInv'
<1> SUFFICES ASSUME IInv, [Next]_vars PROVE IInv'
  OBVIOUS
<1>1. CASE \E h \in Handler : Serve(h)
  BY <1>1, ReadStep, DestinationStep, ClaimStep, RereadStep, CountStep,
     WriteStatusStep, ReceiveStep DEF Serve
<1>2. CASE \E h \in Handler : HangUp(h) \/ ClaimFails(h) \/ RequestFails(h)
  BY <1>2, HangUpStep, ClaimFailsStep, RequestFailsStep
<1>3. CASE \E h \in Handler, w \in Worker : Send(w, h)
  BY <1>3, SendStep
<1>4. CASE \E t \in Tick : Capture(t) \/ Retry(t) \/ Discard(t)
  BY <1>4, PhoneStep
<1>5. CASE Cancel \/ Crash \/ \E i \in Item : TakeGoods(i)
  BY <1>5, CancelStep, CrashStep, TakeGoodsStep
<1>6. CASE UNCHANGED vars
  BY <1>6 DEF vars, db, IInv, TableOK, TicksOK, RowsOK, TickedIsShelved,
              SyncedMeansDone, CompletedIsDone, Done, RequestsOK
<1> QED BY <1>1, <1>2, <1>3, <1>4, <1>5, <1>6 DEF Next

LEMMA AlwaysIInv == Spec => []IInv
BY InitOK, NextOK, PTL DEF Spec

-----------------------------------------------------------------------------
(* Every variable keeps its type, and a request its current tick exactly   *)
(* while it works on one, for any task, workers, ticks and requests.       *)
THEOREM TypeCorrect == Spec => []TypeOK
<1>1. IInv => TypeOK
  BY DEF IInv, TableOK, TicksOK, RowsOK, RequestsOK, RequestOK, TypeOK, Current
<1> QED BY <1>1, AlwaysIInv, PTL

(* The claim and the transfer are one transaction, so an item of a PUTAWAY *)
(* task has its goods on the shelf, once, exactly when it is ticked off.   *)
THEOREM GoodsFollowTicks == Spec => []TickedIsShelved
<1>1. IInv => TickedIsShelved
  BY DEF IInv, TableOK
<1> QED BY <1>1, AlwaysIInv, PTL

(* A phone drops a tick from its outbox only when the item is done on the  *)
(* server, however late and however often the batch was answered.          *)
THEOREM NoTickIsLost == Spec => []SyncedMeansDone
<1>1. IInv => SyncedMeansDone
  BY DEF IInv, TableOK
<1> QED BY <1>1, AlwaysIInv, PTL

(* OK is only ever said to the tick that did the item. *)
THEOREM OneWinner == Spec => []OKMeansMine
<1>1. IInv => OKMeansMine
  BY DEF IInv, RequestsOK, RequestOK, OKMeansMine
<1> QED BY <1>1, AlwaysIInv, PTL

(* A status computed from an old count can be wrong in many ways, but not  *)
(* in this one: a COMPLETED task has no open item.                         *)
THEOREM CompletedTasksAreDone == Spec => []CompletedIsDone
<1>1. IInv => CompletedIsDone
  BY DEF IInv, TableOK
<1> QED BY <1>1, AlwaysIInv, PTL
=============================================================================
