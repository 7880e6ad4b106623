----------------------------- MODULE OfflineSync -----------------------------
(***************************************************************************)
(* A worker's phone in front of PendingOperations: what it captures goes   *)
(* to its outbox first, and a background job drains the outbox to POST     *)
(* /sync/operations when the server can be reached.  Two jobs drain it,    *)
(* the periodic one and the one asked for after a capture, and the system  *)
(* cancels and restarts them.                                              *)
(***************************************************************************)
EXTENDS PendingOperations, FiniteSets

CONSTANT MaxStops   \* bound: how often a drain is cut off

VARIABLES
  row,    \* of the outbox, for each operation
  drain,  \* what each job is doing, with the rows it still has to do
  stops

phone == <<row, drain, stops>>
allVars == <<vars, phone>>

Resting == [at |-> "idle", batch |-> {}]

OSInit ==
  /\ Init
  /\ row = [o \in Op |-> "none"]
  /\ drain = [d \in Sender |-> Resting]
  /\ stops = 0

Syncable == {o \in Op : row[o] = "PENDING"}
Drain(d, at, batch) == drain' = [drain EXCEPT ![d] = [at |-> at, batch |-> batch]]

-----------------------------------------------------------------------------
(* The worker. *)

Capture(o) ==
  /\ row[o] = "none"
  /\ row' = [row EXCEPT ![o] = "PENDING"]
  /\ UNCHANGED <<vars, drain, stops>>

(* The row is deleted, whatever a drain is doing with it; the worker is    *)
(* told that the operation is undone.                                      *)
Discard(o) ==
  /\ row[o] \in {"PENDING", "FAILED", "SYNCED"}
  /\ row' = [row EXCEPT ![o] = "discarded"]
  /\ UNCHANGED <<vars, drain, stops>>

(* Offered for a row that is listed as FAILED; by the time of the update a *)
(* drain may have got it through.                                          *)
Retry(o) ==
  /\ row[o] \in {"FAILED", "SYNCED"}
  /\ row' = [row EXCEPT ![o] = "PENDING"]
  /\ UNCHANGED <<vars, drain, stops>>

-----------------------------------------------------------------------------
(* The drains. *)

Start(d) ==
  /\ drain[d].at = "idle" /\ Syncable # {}
  /\ Drain(d, "sending", Syncable)
  /\ UNCHANGED <<vars, row, stops>>

(* The request of d reaches a handler. *)
Deliver(d, h) ==
  /\ drain[d].at = "sending"
  /\ \E b \in Batch, m \in BOOLEAN :
       /\ {b[i] : i \in DOMAIN b} = drain[d].batch /\ Len(b) = Cardinality(drain[d].batch)
       /\ SyncArrives(h, b, d, m)
  /\ Drain(d, "waiting", drain[d].batch)
  /\ UNCHANGED <<row, stops>>

(* The answer counts for the whole batch, the items with status ERROR too. *)
Success(d, h) ==
  /\ handler[h].sender = d /\ Answer(h)
  /\ Drain(d, "marking", drain[d].batch)
  /\ UNCHANGED <<row, stops>>

(* Any 4xx or 5xx for the request as a whole; only a FAILED row shows.     *)
ServerError(d) ==
  /\ drain[d].at = "sending"
  /\ RequestFails
  /\ row' = [o \in Op |-> IF o \in drain[d].batch /\ row[o] \in {"PENDING", "FAILED", "SYNCED"}
                          THEN "FAILED" ELSE row[o]]
  /\ drain' = [drain EXCEPT ![d] = Resting]
  /\ UNCHANGED stops

(* updateStatus(SYNCED), row by row; a discarded row stays so.             *)
Mark(d) ==
  /\ drain[d].at = "marking"
  /\ \/ \E o \in drain[d].batch :
          /\ row' = [row EXCEPT ![o] = IF @ \in {"PENDING", "FAILED"} THEN "SYNCED" ELSE @]
          /\ Drain(d, "marking", drain[d].batch \ {o})
     \/ /\ drain[d].batch = {}
        /\ Drain(d, "clearing", {})
        /\ UNCHANGED row
  /\ UNCHANGED <<vars, stops>>

ClearSynced(d) ==
  /\ drain[d].at = "clearing"
  /\ row' = [o \in Op |-> IF row[o] = "SYNCED" THEN "cleared" ELSE row[o]]
  /\ drain' = [drain EXCEPT ![d] = Resting]
  /\ UNCHANGED <<vars, stops>>

(* A variant that gives up what it could not send. *)
CutOffAndForget(d) ==
  /\ drain[d].at # "idle" /\ stops < MaxStops
  /\ stops' = stops + 1
  /\ Drain(d, "marking", drain[d].batch)
  /\ IF \E h \in Handler : handler[h].sender = d
     THEN \E h \in Handler : handler[h].sender = d /\ HangUp(h)
     ELSE UNCHANGED vars
  /\ UNCHANGED row

(* No network, an expired token, a timeout, the job replaced by a newer    *)
(* request, the app killed: the rows stay as they are.  The API does not   *)
(* notice.                                                                 *)
CutOff(d) ==
  /\ drain[d].at # "idle" /\ stops < MaxStops
  /\ stops' = stops + 1
  /\ drain' = [drain EXCEPT ![d] = Resting]
  /\ IF \E h \in Handler : handler[h].sender = d
     THEN \E h \in Handler : handler[h].sender = d /\ HangUp(h)
     ELSE UNCHANGED vars
  /\ UNCHANGED row

(* The API that d was waiting for has stopped. *)
ConnectionReset(d) ==
  /\ drain[d].at = "waiting" /\ \A h \in Handler : handler[h].sender # d
  /\ drain' = [drain EXCEPT ![d] = Resting]
  /\ UNCHANGED <<vars, row, stops>>

-----------------------------------------------------------------------------
DrainStep(d) ==
  \/ Start(d) \/ ServerError(d) \/ Mark(d) \/ ClearSynced(d)
  \/ CutOff(d) \/ ConnectionReset(d)
  \/ \E h \in Handler : Deliver(d, h) \/ Success(d, h)

(* An answer nobody waits for. *)
AnswerNobody(h) == handler[h].sender = NoSender /\ Answer(h)

ServerStep ==
  /\ \/ Crash
     \/ \E h \in Handler : Step(h) \/ AnswerNobody(h) \/ Review(h)
  /\ UNCHANGED phone

OSNext ==
  \/ ServerStep
  \/ \E d \in Sender : DrainStep(d)
  \/ \E o \in Op : Capture(o) \/ Discard(o) \/ Retry(o)

OSSpec == OSInit /\ [][OSNext]_allVars

(* The API serves what has reached it, and always has room for one more    *)
(* request; the periodic job runs again and again; calls return or time    *)
(* out.  Nothing makes the worker or a manager act.                        *)
OSFairSpec ==
  /\ OSSpec
  /\ \A h \in Handler : WF_allVars(UNCHANGED phone /\ (Step(h) \/ AnswerNobody(h)))
  /\ \A d \in Sender :
       /\ WF_allVars(Start(d)) /\ WF_allVars(Mark(d)) /\ WF_allVars(ClearSynced(d))
       /\ WF_allVars(ConnectionReset(d))
       /\ WF_allVars(\E h \in Handler : Success(d, h))
       /\ SF_allVars(\E h \in Handler : Deliver(d, h))

-----------------------------------------------------------------------------
(* PROPERTIES *)

OSTypeOK ==
  /\ TypeOK
  /\ row \in [Op -> {"none", "PENDING", "FAILED", "SYNCED", "cleared", "discarded"}]
  /\ drain \in [Sender -> [at : {"idle", "sending", "waiting", "marking", "clearing"},
                           batch : SUBSET Op]]
  /\ \A h, i \in Handler :
       handler[h].sender # NoSender =>
         drain[handler[h].sender].at = "waiting" /\ (handler[i].sender = handler[h].sender => i = h)

(* What the outbox counts as synced, and deletes, is on the server: the    *)
(* captured work is never lost, whatever is cut off, repeated or restarted.*)
SyncedMeansStored ==
  \A o \in Op : row[o] \in {"SYNCED", "cleared"} => status[o] # "NONE"

(* The same for as long as no call of the server fails.  An item that is   *)
(* answered with ERROR because another request is storing it is stored.    *)
StorableIsStored == errors = 0 => SyncedMeansStored

(* A captured operation gets to the server, unless the worker discards it  *)
(* or it is shown as FAILED, or the server could not store it; the queue   *)
(* of the phone never just stops.                                          *)
CapturedIsDelivered ==
  \A o \in Op :
    row[o] = "PENDING" ~> status[o] # "NONE" \/ row[o] \in {"discarded", "FAILED"} \/ errors > 0
=============================================================================
