----------------------------- MODULE PrintJobs -----------------------------
(***************************************************************************)
(* PrintJobsService: labels that wait for somebody at the PC to print      *)
(* them.  A job has the labels of one product, as every job has that the   *)
(* code creates.  Confirming a job and cancelling it are handlers that     *)
(* run concurrently; a step is one await, and the API may stop anywhere.   *)
(***************************************************************************)
EXTENDS Integers

CONSTANTS
  Job,
  NoJob,      \* not a Job
  Clerk,      \* requests about jobs the API may be serving at one time
  MaxErrors   \* bound: calls of the database or the printer that fail, and restarts

ASSUME NoJobAssumption == NoJob \notin Job

VARIABLES
  job,        \* status of each job, "NONE" while there is none
  item,       \* status of its item
  prints,     \* how often its labels came out of the printer
  clerk,      \* the requests being served
  reprinted,  \* history: jobs a clerk read while another one was at them, or
              \* that failed after their labels had come out
  abandoned,  \* history: jobs whose clerk was lost in the middle
  errors

jobRows == <<job, item, prints>>
jobVars == <<jobRows, clerk, reprinted, abandoned>>

(* A call fails, or none does. *)
Fail == errors < MaxErrors /\ errors' = errors + 1
Works == UNCHANGED errors

Away == [at |-> "away", job |-> NoJob]

JobsInit ==
  /\ job = [j \in Job |-> "NONE"]
  /\ item = [j \in Job |-> "NONE"]
  /\ prints = [j \in Job |-> 0]
  /\ clerk = [k \in Clerk |-> Away]
  /\ reprinted = {} /\ abandoned = {}
  /\ errors = 0

-----------------------------------------------------------------------------
Goto(k, label) == clerk' = [clerk EXCEPT ![k].at = label]
Done(k) == clerk' = [clerk EXCEPT ![k] = Away]
Confirming == {"claiming", "sending", "marking", "completing", "failing"}
At(k, label) == clerk[k].at = label
Mine(k) == clerk[k].job
Write(k, status) == job' = [job EXCEPT ![Mine(k)] = status]

(* enqueueProductLabel, for a caller that names no operation. *)
Enqueued(j) ==
  /\ job[j] = "NONE"
  /\ job' = [job EXCEPT ![j] = "PENDING"]
  /\ item' = [item EXCEPT ![j] = "PENDING"]
  /\ UNCHANGED <<prints, clerk, reprinted, abandoned>>

(* A variant that also confirms a job that is being printed or was.        *)
ConfirmableAgain == {"PENDING", "FAILED", "PROCESSING", "COMPLETED"}

Confirmable == {"PENDING", "FAILED"}

(* confirmProductJob reads the job ... *)
ConfirmReads(k, j) ==
  /\ At(k, "away") /\ job[j] \in Confirmable
  /\ clerk' = [clerk EXCEPT ![k] = [at |-> "claiming", job |-> j]]
  /\ reprinted' = IF \E other \in Clerk : Mine(other) = j /\ clerk[other].at \in Confirming
                  THEN reprinted \cup {j} ELSE reprinted
  /\ UNCHANGED <<jobRows, abandoned>>

(* ... and takes it, whatever has become of it since. *)
TakesJob(k) ==
  /\ At(k, "claiming")
  /\ Write(k, "PROCESSING") /\ Goto(k, "sending")
  /\ UNCHANGED <<item, prints, reprinted, abandoned>>

(* printProductLabelsDirect sends the labels to the printer. *)
Prints(k) ==
  /\ At(k, "sending")
  /\ prints' = [prints EXCEPT ![Mine(k)] = @ + 1]
  /\ Goto(k, "marking")
  /\ UNCHANGED <<job, item, reprinted, abandoned>>

MarksItem(k) ==
  /\ At(k, "marking")
  /\ item' = [item EXCEPT ![Mine(k)] = "PRINTED"]
  /\ Goto(k, "completing")
  /\ UNCHANGED <<job, prints, reprinted, abandoned>>

Completes(k) ==
  /\ At(k, "completing")
  /\ Write(k, "COMPLETED") /\ Done(k)
  /\ UNCHANGED <<item, prints, reprinted, abandoned>>

(* The printer cannot be reached, or a statement of the try fails.         *)
PrintFails(k) ==
  /\ clerk[k].at \in {"sending", "marking", "completing"}
  /\ Goto(k, "failing")
  /\ reprinted' = IF At(k, "sending") THEN reprinted ELSE reprinted \cup {Mine(k)}
  /\ UNCHANGED <<jobRows, abandoned>>

(* A variant that does not write the failure down.                         *)
FailsSilently(k) ==
  /\ At(k, "failing") /\ Done(k)
  /\ UNCHANGED <<jobRows, reprinted, abandoned>>

Fails(k) ==
  /\ At(k, "failing")
  /\ Write(k, "FAILED") /\ Done(k)
  /\ UNCHANGED <<item, prints, reprinted, abandoned>>

(* cancelJob reads the job, and cancels it whatever has become of it.      *)
CancelReads(k, j) ==
  /\ At(k, "away") /\ job[j] = "PENDING"
  /\ clerk' = [clerk EXCEPT ![k] = [at |-> "cancelling", job |-> j]]
  /\ UNCHANGED <<jobRows, reprinted, abandoned>>

Cancels(k) ==
  /\ At(k, "cancelling")
  /\ Write(k, "CANCELLED") /\ Done(k)
  /\ UNCHANGED <<item, prints, reprinted, abandoned>>

(* The API stops with all its requests, or a statement fails where nothing *)
(* catches it: that is, before the try, in its last statement, which is    *)
(* returned without being awaited, and in the catch.                       *)
Lost(lost) ==
  /\ clerk' = [k \in Clerk |-> IF k \in lost THEN Away ELSE clerk[k]]
  /\ abandoned' = abandoned \cup
       {j \in Job : \E k \in lost : Mine(k) = j /\ clerk[k].at \in Confirming}
  /\ UNCHANGED <<jobRows, reprinted>>

Uncaught(k) ==
  /\ clerk[k].at \in {"claiming", "completing", "failing", "cancelling"}
  /\ Lost({k})

ClerkWorks(k) ==
  \/ \E j \in Job : ConfirmReads(k, j) \/ CancelReads(k, j)
  \/ TakesJob(k) \/ Prints(k) \/ MarksItem(k)
  \/ Completes(k) \/ Fails(k) \/ Cancels(k)

ClerkFails(k) == PrintFails(k) \/ Uncaught(k)

-----------------------------------------------------------------------------
JobsTypeOK ==
  /\ job \in [Job -> {"NONE", "PENDING", "PROCESSING", "COMPLETED", "FAILED", "CANCELLED"}]
  /\ item \in [Job -> {"NONE", "PENDING", "PRINTED"}]
  /\ prints \in [Job -> Nat]
  /\ clerk \in [Clerk -> [at : Confirming \cup {"away", "cancelling"},
                          job : Job \cup {NoJob}]]
  /\ reprinted \subseteq Job /\ abandoned \subseteq Job

(* Labels come out a second time only when a confirmation failed after the *)
(* printer had them, or two of them were at the job at one time, although  *)
(* nothing claims a job (confirmProductJob).                               *)
PrintedOnce == \A j \in Job \ reprinted : prints[j] <= 1

(* A job in PROCESSING, which nobody can confirm or cancel, is really      *)
(* being worked on, unless a clerk of it was lost.                         *)
ProcessingIsServed ==
  \A j \in Job \ abandoned : job[j] = "PROCESSING" =>
    \E k \in Clerk : Mine(k) = j /\ clerk[k].at \in Confirming \ {"claiming"}
=============================================================================
