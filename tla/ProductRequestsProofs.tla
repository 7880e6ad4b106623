------------------------ MODULE ProductRequestsProofs ------------------------
(***************************************************************************)
(* Proofs about the print jobs and the product requests, for any number of *)
(* requests, products, managers, clerks and failures: first the jobs on    *)
(* their own, then the requests, whose steps are steps of the jobs too.    *)
(***************************************************************************)
EXTENDS ProductRequests, TLAPS

-----------------------------------------------------------------------------
(* PRINT JOBS *)

(* The types, and that a clerk has a job unless it is away. *)
ClerksOK ==
  /\ JobsTypeOK
  /\ \A k \in Clerk : Mine(k) = NoJob <=> At(k, "away")

Serves(k, j) == Mine(k) = j /\ clerk[k].at \in Confirming

(* The inductive invariant: of a job that is not counted as reprinted,     *)
(* there is one clerk at most, ... *)
OneClerk ==
  \A j \in Job \ reprinted : \A k, l \in Clerk : Serves(k, j) /\ Serves(l, j) => k = l

(* ... a clerk who has taken it, or whose labels came out, has left it in a *)
(* status that nobody confirms, ...                                        *)
TakenIsOutOfReach ==
  \A j \in Job \ reprinted :
    /\ \A k \in Clerk : Serves(k, j) /\ ~ At(k, "claiming") => job[j] \notin Confirmable
    /\ prints[j] = 1 => /\ job[j] \notin Confirmable
                        /\ \A k \in Clerk : Serves(k, j) => clerk[k].at \in {"marking", "completing"}

(* ... and nobody has heard of a job that is not there. *)
UnknownIsUntouched ==
  \A j \in Job : job[j] = "NONE" => prints[j] = 0 /\ \A k \in Clerk : Mine(k) # j

JobsInv ==
  /\ ClerksOK /\ UnknownIsUntouched
  /\ OneClerk /\ TakenIsOutOfReach /\ PrintedOnce
  /\ ProcessingIsServed

LEMMA ClerkAfter ==
  ASSUME ClerksOK, NEW k \in Clerk, NEW c, clerk' = [clerk EXCEPT ![k] = c]
  PROVE  clerk'[k] = c /\ \A l \in Clerk \ {k} : clerk'[l] = clerk[l]
BY DEF ClerksOK, JobsTypeOK

LEMMA GotoAfter ==
  ASSUME ClerksOK, NEW k \in Clerk, NEW label, Goto(k, label)
  PROVE  /\ clerk'[k].at = label /\ clerk'[k].job = Mine(k)
         /\ \A l \in Clerk \ {k} : clerk'[l] = clerk[l]
<1>1. clerk' = [clerk EXCEPT ![k] = [clerk[k] EXCEPT !.at = label]]
  BY DEF Goto, ClerksOK, JobsTypeOK
<1>2. /\ clerk'[k] = [clerk[k] EXCEPT !.at = label]
      /\ \A l \in Clerk \ {k} : clerk'[l] = clerk[l]
  BY <1>1, ClerkAfter
<1>3. clerk[k] \in [at : Confirming \cup {"away", "cancelling"}, job : Job \cup {NoJob}]
  BY DEF ClerksOK, JobsTypeOK
<1> QED BY <1>2, <1>3 DEF Mine

LEMMA DoneAfter ==
  ASSUME ClerksOK, NEW k \in Clerk, Done(k)
  PROVE  /\ clerk'[k].at = "away" /\ clerk'[k].job = NoJob
         /\ \A l \in Clerk \ {k} : clerk'[l] = clerk[l]
<1>1. clerk'[k] = Away /\ \A l \in Clerk \ {k} : clerk'[l] = clerk[l]
  BY ClerkAfter DEF Done
<1> QED BY <1>1 DEF Away

(* The clerk of a step is at a job. *)
LEMMA MineIsJob ==
  ASSUME ClerksOK, NEW k \in Clerk, ~ At(k, "away")
  PROVE  Mine(k) \in Job
BY DEF ClerksOK, JobsTypeOK, Mine

LEMMA WriteAfter ==
  ASSUME ClerksOK, NEW k \in Clerk, Mine(k) \in Job, NEW s, Write(k, s)
  PROVE  job'[Mine(k)] = s /\ \A j \in Job \ {Mine(k)} : job'[j] = job[j]
BY DEF ClerksOK, JobsTypeOK, Write

LEMMA EnqueuedInv == ASSUME JobsInv, NEW j \in Job, Enqueued(j) PROVE JobsInv'
<1>1. /\ job[j] = "NONE" /\ job'[j] = "PENDING" /\ \A i \in Job \ {j} : job'[i] = job[i]
      /\ UNCHANGED <<prints, clerk, reprinted, abandoned>>
  BY DEF Enqueued, JobsInv, ClerksOK, JobsTypeOK
<1>2. prints[j] = 0 /\ \A k \in Clerk : ~ Serves(k, j)
  BY <1>1 DEF JobsInv, UnknownIsUntouched, Serves
<1>3. ClerksOK'
  BY <1>1 DEF JobsInv, ClerksOK, JobsTypeOK, Enqueued, Mine, At
<1>4. UnknownIsUntouched'
  BY <1>1 DEF JobsInv, UnknownIsUntouched, Mine
<1>5. OneClerk' /\ PrintedOnce'
  BY <1>1 DEF JobsInv, OneClerk, PrintedOnce, Serves, Mine
<1>6. TakenIsOutOfReach'
  BY <1>1, <1>2 DEF JobsInv, TakenIsOutOfReach, Serves, Mine, At
<1>7. ProcessingIsServed'
  BY <1>1 DEF JobsInv, ProcessingIsServed, Mine
<1> QED BY <1>3, <1>4, <1>5, <1>6, <1>7 DEF JobsInv

LEMMA LostInv == ASSUME JobsInv, NEW lost \in SUBSET Clerk, Lost(lost) PROVE JobsInv'
<1>1. /\ \A k \in Clerk : clerk'[k] = IF k \in lost THEN Away ELSE clerk[k]
      /\ UNCHANGED <<job, item, prints, reprinted>>
      /\ \A j \in Job, k \in lost : Serves(k, j) => j \in abandoned'
      /\ abandoned \subseteq abandoned'
  BY DEF Lost, jobRows, Serves
<1>2. ClerksOK'
  <2>1. Away \in [at : Confirming \cup {"away", "cancelling"}, job : Job \cup {NoJob}]
    BY DEF Away
  <2>2. /\ clerk' \in [Clerk -> [at : Confirming \cup {"away", "cancelling"}, job : Job \cup {NoJob}]]
        /\ abandoned' \subseteq Job
    BY <2>1 DEF Lost, JobsInv, ClerksOK, JobsTypeOK
  <2>3. \A k \in Clerk : (Mine(k) = NoJob <=> At(k, "away"))'
    BY <1>1 DEF JobsInv, ClerksOK, Mine, At, Away
  <2> QED BY <1>1, <2>2, <2>3 DEF JobsInv, ClerksOK, JobsTypeOK
<1>3. \A k \in Clerk, j \in Job : /\ Mine(k)' = j => Mine(k) = j
                                  /\ Serves(k, j)' => Serves(k, j) /\ clerk'[k] = clerk[k]
  BY <1>1, NoJobAssumption DEF Mine, Serves, Away
<1>4. UnknownIsUntouched'
  BY <1>1, <1>3 DEF JobsInv, UnknownIsUntouched
<1>5. OneClerk' /\ PrintedOnce'
  BY <1>1, <1>3 DEF JobsInv, OneClerk, PrintedOnce
<1>6. TakenIsOutOfReach'
  BY <1>1, <1>3 DEF JobsInv, TakenIsOutOfReach, At
<1>7. ProcessingIsServed'
  <2> SUFFICES ASSUME NEW j \in Job \ abandoned', job'[j] = "PROCESSING"
               PROVE  \E k \in Clerk : (Mine(k) = j /\ clerk[k].at \in Confirming \ {"claiming"})'
    BY DEF ProcessingIsServed
  <2>1. PICK k \in Clerk : Mine(k) = j /\ clerk[k].at \in Confirming \ {"claiming"}
    BY <1>1 DEF JobsInv, ProcessingIsServed
  <2>2. k \notin lost
    BY <1>1, <2>1 DEF Serves
  <2> QED BY <1>1, <2>1, <2>2 DEF Mine
<1> QED BY <1>2, <1>4, <1>5, <1>6, <1>7 DEF JobsInv

(* A clerk takes a job up, to confirm it or to cancel it. *)
LEMMA ReadsInv ==
  ASSUME JobsInv, NEW k \in Clerk, NEW j \in Job, ConfirmReads(k, j) \/ CancelReads(k, j)
  PROVE  JobsInv'
<1>1. PICK label \in {"claiming", "cancelling"} :
        /\ clerk' = [clerk EXCEPT ![k] = [at |-> label, job |-> j]]
        /\ label = "claiming" => ConfirmReads(k, j)
  BY DEF ConfirmReads, CancelReads
<1>2. /\ clerk'[k] = [at |-> label, job |-> j] /\ \A l \in Clerk \ {k} : clerk'[l] = clerk[l]
  BY <1>1, ClerkAfter DEF JobsInv
<1>3. /\ UNCHANGED <<job, item, prints, abandoned>> /\ clerk[k].at = "away"
      /\ job[j] \in Confirmable
      /\ reprinted \subseteq reprinted' /\ reprinted' \subseteq Job
  BY DEF ConfirmReads, CancelReads, jobRows, At, Confirmable, JobsInv, ClerksOK, JobsTypeOK
<1>4. ClerksOK'
  <2>1. [at |-> label, job |-> j] \in [at : Confirming \cup {"away", "cancelling"}, job : Job \cup {NoJob}]
    BY DEF Confirming
  <2>2. JobsTypeOK'
    BY <1>1, <1>3, <2>1 DEF JobsInv, ClerksOK, JobsTypeOK
  <2> QED BY <1>2, <2>2, NoJobAssumption DEF JobsInv, ClerksOK, Mine, At
<1>5. UnknownIsUntouched'
  BY <1>2, <1>3 DEF JobsInv, UnknownIsUntouched, Mine, Confirmable
<1>6. ~ Serves(k, j) /\ (\A l \in Clerk \ {k}, i \in Job : Serves(l, i)' <=> Serves(l, i))
      /\ \A i \in Job : Serves(k, i)' => i = j /\ label = "claiming" /\ clerk'[k].at = "claiming"
  BY <1>2, <1>3 DEF Serves, Mine, Confirming
<1>7. OneClerk'
  <2> SUFFICES ASSUME NEW i \in Job \ reprinted', NEW l \in Clerk, NEW m \in Clerk,
                      Serves(l, i)', Serves(m, i)'
               PROVE  l = m
    BY DEF OneClerk
  <2>1. CASE l # k /\ m # k
    BY <1>3, <1>6, <2>1 DEF JobsInv, OneClerk
  <2>2. CASE l = k \/ m = k
    <3>1. label = "claiming" /\ i = j
      BY <1>6, <2>2
    <3>2. ConfirmReads(k, j)
      BY <1>1, <3>1
    <3>3. \A o \in Clerk : ~ Serves(o, j)
      BY <3>1, <3>2 DEF ConfirmReads, Serves
    <3> QED BY <1>6, <2>2, <3>1, <3>3
  <2> QED BY <2>1, <2>2
<1>8. TakenIsOutOfReach'
  <2> SUFFICES ASSUME NEW i \in Job \ reprinted'
               PROVE  /\ \A l \in Clerk : Serves(l, i)' /\ ~ At(l, "claiming")' => job[i] \notin Confirmable
                      /\ prints[i] = 1 =>
                           /\ job[i] \notin Confirmable
                           /\ \A l \in Clerk : Serves(l, i)' => clerk'[l].at \in {"marking", "completing"}
    BY <1>3 DEF TakenIsOutOfReach
  <2>1. i \in Job \ reprinted
    BY <1>3
  <2> QED BY <1>2, <1>3, <1>6, <2>1 DEF JobsInv, TakenIsOutOfReach, At
<1>9. PrintedOnce'
  BY <1>3 DEF JobsInv, PrintedOnce
<1>10. ProcessingIsServed'
  BY <1>2, <1>3 DEF JobsInv, ProcessingIsServed, Mine, Confirming
<1> QED BY <1>4, <1>5, <1>7, <1>8, <1>9, <1>10 DEF JobsInv

(* A clerk goes on with its confirmation. *)
LEMMA GoesOnInv ==
  ASSUME JobsInv, NEW k \in Clerk,
         TakesJob(k) \/ Prints(k) \/ MarksItem(k) \/ PrintFails(k)
  PROVE  JobsInv'
<1> DEFINE from == clerk[k].at
<1>0. from \in {"claiming", "sending", "marking", "completing"}
  BY DEF TakesJob, Prints, MarksItem, PrintFails, At
<1>1. PICK j \in Job : j = Mine(k)
  BY <1>0, MineIsJob DEF JobsInv, At
<1>2. PICK to \in {"sending", "marking", "completing", "failing"} :
        /\ Goto(k, to)
        /\ to = "sending" <=> TakesJob(k)
        /\ to = "marking" => from = "sending" /\ Prints(k)
        /\ to = "completing" => from = "marking"
        /\ to = "failing" => PrintFails(k)
  BY <1>0 DEF TakesJob, Prints, MarksItem, PrintFails, At
<1>3. /\ clerk'[k].at = to /\ clerk'[k].job = j
      /\ \A l \in Clerk \ {k} : clerk'[l] = clerk[l]
  BY <1>1, <1>2, GotoAfter DEF JobsInv
<1>4. /\ to = "sending" => job'[j] = "PROCESSING"
      /\ to # "sending" => job'[j] = job[j]
      /\ \A i \in Job \ {j} : job'[i] = job[i]
  BY <1>1, <1>2, WriteAfter DEF TakesJob, Prints, MarksItem, PrintFails, jobRows, JobsInv
<1>5. /\ to = "marking" => prints'[j] = prints[j] + 1
      /\ to # "marking" => prints'[j] = prints[j]
      /\ \A i \in Job \ {j} : prints'[i] = prints[i]
      /\ prints' \in [Job -> Nat]
  BY <1>0, <1>1, <1>2 DEF TakesJob, Prints, MarksItem, PrintFails, jobRows, JobsInv, ClerksOK, JobsTypeOK, At
<1>6. /\ to = "failing" /\ from # "sending" => j \in reprinted'
      /\ reprinted \subseteq reprinted' /\ reprinted' \subseteq Job /\ abandoned' = abandoned
  BY <1>1, <1>2 DEF TakesJob, Prints, MarksItem, PrintFails, At, JobsInv, ClerksOK, JobsTypeOK
<1>7. to = "sending" => from = "claiming"
  BY <1>2 DEF TakesJob, At
<1>8. /\ Serves(k, j) /\ Serves(k, j)' /\ job[j] # "NONE"
      /\ \A i \in Job : i # j => ~ Serves(k, i) /\ ~ Serves(k, i)'
      /\ \A i \in Job : \A l \in Clerk \ {k} : Serves(l, i)' <=> Serves(l, i)
  BY <1>0, <1>1, <1>3 DEF Serves, Mine, Confirming, JobsInv, UnknownIsUntouched
<1>9. ClerksOK'
  <2>1. job' \in [Job -> {"NONE", "PENDING", "PROCESSING", "COMPLETED", "FAILED", "CANCELLED"}]
        /\ item' \in [Job -> {"NONE", "PENDING", "PRINTED"}]
    BY <1>1, <1>2 DEF TakesJob, Prints, MarksItem, PrintFails, Write, jobRows, JobsInv, ClerksOK, JobsTypeOK
  <2>2. clerk' \in [Clerk -> [at : Confirming \cup {"away", "cancelling"}, job : Job \cup {NoJob}]]
    BY <1>2 DEF Goto, Confirming, JobsInv, ClerksOK, JobsTypeOK
  <2>3. \A l \in Clerk : (Mine(l) = NoJob <=> At(l, "away"))'
    BY <1>1, <1>3, NoJobAssumption DEF JobsInv, ClerksOK, Mine, At
  <2> QED BY <1>5, <1>6, <2>1, <2>2, <2>3 DEF JobsInv, ClerksOK, JobsTypeOK
<1>10. UnknownIsUntouched'
  <2>1. job'[j] # "NONE"
    BY <1>4, <1>8
  <2>2. \A l \in Clerk : Mine(l)' = Mine(l)
    BY <1>1, <1>3 DEF Mine
  <2> QED BY <1>1, <1>4, <1>5, <2>1, <2>2 DEF JobsInv, UnknownIsUntouched
<1>11. OneClerk'
  <2>1. ASSUME NEW l \in Clerk, NEW i \in Job PROVE Serves(l, i)' <=> Serves(l, i)
    <3>1. CASE l = k /\ i = j
      BY <1>8, <3>1
    <3>2. CASE l = k /\ i # j
      BY <1>8, <3>2
    <3>3. CASE l # k
      BY <1>8, <3>3
    <3> QED BY <3>1, <3>2, <3>3
  <2> QED BY <1>6, <2>1 DEF JobsInv, OneClerk
<1>12. ASSUME j \notin reprinted'
       PROVE  /\ job'[j] \notin Confirmable /\ prints'[j] <= 1
              /\ prints'[j] = 1 => to \in {"marking", "completing"}
              /\ \A l \in Clerk \ {k} : ~ Serves(l, j)
  <2>1. /\ j \in Job \ reprinted
        /\ \A l \in Clerk \ {k} : ~ Serves(l, j)
    BY <1>1, <1>6, <1>8, <1>12 DEF JobsInv, OneClerk
  <2>2. /\ from # "claiming" => job[j] \notin Confirmable
        /\ prints[j] = 1 => from \in {"marking", "completing"}
        /\ prints[j] \in Nat /\ prints[j] <= 1
    BY <1>1, <1>8, <2>1 DEF JobsInv, TakenIsOutOfReach, PrintedOnce, ClerksOK, JobsTypeOK, At
  <2>3. to # "sending" => from # "claiming"
    BY <1>2 DEF TakesJob, Prints, MarksItem, PrintFails, At
  <2>4. job'[j] \notin Confirmable
    BY <1>4, <2>2, <2>3 DEF Confirmable
  <2>5. to = "marking" => prints[j] = 0
    BY <1>2, <2>2
  <2>6. prints'[j] = 1 => to \in {"marking", "completing"}
    BY <1>2, <1>5, <1>6, <1>7, <1>12, <2>2
  <2> QED BY <1>5, <2>1, <2>2, <2>4, <2>5, <2>6
<1>13. \A i \in Job \ {j} : \A l \in Clerk : Serves(l, i)' => Serves(l, i) /\ clerk'[l] = clerk[l]
  BY <1>3, <1>8
<1>14. TakenIsOutOfReach'
  <2> SUFFICES ASSUME NEW i \in Job \ reprinted'
               PROVE  /\ \A l \in Clerk : Serves(l, i)' /\ ~ At(l, "claiming")' => job'[i] \notin Confirmable
                      /\ prints'[i] = 1 =>
                           /\ job'[i] \notin Confirmable
                           /\ \A l \in Clerk : Serves(l, i)' => clerk'[l].at \in {"marking", "completing"}
    BY DEF TakenIsOutOfReach, Confirmable
  <2>1. CASE i = j
    BY <1>3, <1>8, <1>12, <2>1
  <2>2. CASE i # j
    BY <1>4, <1>5, <1>6, <1>13, <2>2 DEF JobsInv, TakenIsOutOfReach, At
  <2> QED BY <2>1, <2>2
<1>15. PrintedOnce'
  <2> SUFFICES ASSUME NEW i \in Job \ reprinted' PROVE prints'[i] <= 1
    BY DEF PrintedOnce
  <2> QED BY <1>5, <1>6, <1>12 DEF JobsInv, PrintedOnce
<1>16. ProcessingIsServed'
  <2> SUFFICES ASSUME NEW i \in Job \ abandoned, job'[i] = "PROCESSING"
               PROVE  \E l \in Clerk : (Mine(l) = i /\ clerk[l].at \in Confirming \ {"claiming"})'
    BY <1>6 DEF ProcessingIsServed
  <2>1. CASE i = j
    BY <1>3, <2>1 DEF Confirming, Mine
  <2>2. CASE i # j
    <3>1. PICK l \in Clerk : Mine(l) = i /\ clerk[l].at \in Confirming \ {"claiming"}
      BY <1>4, <2>2 DEF JobsInv, ProcessingIsServed
    <3> QED BY <1>1, <1>3, <2>2, <3>1 DEF Mine
  <2> QED BY <2>1, <2>2
<1> QED BY <1>9, <1>10, <1>11, <1>14, <1>15, <1>16 DEF JobsInv

(* A clerk writes the outcome, and is through. *)
LEMMA EndsInv ==
  ASSUME JobsInv, NEW k \in Clerk, Completes(k) \/ Fails(k) \/ Cancels(k)
  PROVE  JobsInv'
<1>1. PICK j \in Job : j = Mine(k)
  BY MineIsJob DEF Completes, Fails, Cancels, At, JobsInv
<1>2. PICK s \in {"COMPLETED", "FAILED", "CANCELLED"} :
        /\ Write(k, s) /\ Done(k)
        /\ s = "FAILED" => At(k, "failing")
  BY DEF Completes, Fails, Cancels
<1>3. UNCHANGED <<item, prints, reprinted, abandoned>>
  BY DEF Completes, Fails, Cancels
<1>4. /\ clerk'[k].at = "away" /\ clerk'[k].job = NoJob
      /\ \A l \in Clerk \ {k} : clerk'[l] = clerk[l]
  BY <1>2, DoneAfter DEF JobsInv
<1>5. job'[j] = s /\ \A i \in Job \ {j} : job'[i] = job[i]
  BY <1>1, <1>2, WriteAfter DEF JobsInv
<1>6. /\ \A i \in Job : ~ Serves(k, i)'
      /\ \A i \in Job, l \in Clerk : Serves(l, i)' => l # k /\ Serves(l, i) /\ clerk'[l] = clerk[l]
  BY <1>4, NoJobAssumption DEF Serves, Mine
<1>7. ClerksOK'
  <2>1. job' \in [Job -> {"NONE", "PENDING", "PROCESSING", "COMPLETED", "FAILED", "CANCELLED"}]
    BY <1>1, <1>2 DEF Write, JobsInv, ClerksOK, JobsTypeOK
  <2>2. clerk' \in [Clerk -> [at : Confirming \cup {"away", "cancelling"}, job : Job \cup {NoJob}]]
    BY <1>2 DEF Done, Away, JobsInv, ClerksOK, JobsTypeOK
  <2>3. \A l \in Clerk : (Mine(l) = NoJob <=> At(l, "away"))'
    BY <1>4 DEF JobsInv, ClerksOK, Mine, At
  <2> QED BY <1>3, <2>1, <2>2, <2>3 DEF JobsInv, ClerksOK, JobsTypeOK
<1>8. UnknownIsUntouched'
  <2>1. \A l \in Clerk, i \in Job : Mine(l)' = i => Mine(l) = i
    BY <1>4, NoJobAssumption DEF Mine
  <2>2. job'[j] # "NONE"
    BY <1>5
  <2> QED BY <1>3, <1>5, <2>1, <2>2 DEF JobsInv, UnknownIsUntouched
<1>9. OneClerk' /\ PrintedOnce'
  BY <1>3, <1>6 DEF JobsInv, OneClerk, PrintedOnce
<1>10. TakenIsOutOfReach'
  <2> SUFFICES ASSUME NEW i \in Job \ reprinted
               PROVE  /\ \A l \in Clerk : Serves(l, i)' /\ ~ At(l, "claiming")' => job'[i] \notin Confirmable
                      /\ prints[i] = 1 =>
                           /\ job'[i] \notin Confirmable
                           /\ \A l \in Clerk : Serves(l, i)' => clerk'[l].at \in {"marking", "completing"}
    BY <1>3 DEF TakenIsOutOfReach, Confirmable
  <2>1. CASE i = j /\ s = "FAILED"
    <3>1. Serves(k, i) /\ clerk[k].at = "failing"
      BY <1>1, <1>2, <2>1 DEF Serves, Confirming, At
    <3>2. prints[i] # 1 /\ \A l \in Clerk : ~ Serves(l, i)'
      BY <1>6, <3>1 DEF JobsInv, TakenIsOutOfReach, OneClerk
    <3> QED BY <3>2
  <2>2. CASE i # j \/ s # "FAILED"
    <3>1. job'[i] \in Confirmable => job'[i] = job[i]
      BY <1>5, <2>2 DEF Confirmable
    <3> QED BY <1>6, <3>1 DEF JobsInv, TakenIsOutOfReach, At
  <2> QED BY <2>1, <2>2
<1>11. ProcessingIsServed'
  <2> SUFFICES ASSUME NEW i \in Job \ abandoned, job'[i] = "PROCESSING"
               PROVE  \E l \in Clerk : (Mine(l) = i /\ clerk[l].at \in Confirming \ {"claiming"})'
    BY <1>3 DEF ProcessingIsServed
  <2>1. i # j
    BY <1>5
  <2>2. PICK l \in Clerk : Mine(l) = i /\ clerk[l].at \in Confirming \ {"claiming"}
    BY <1>5, <2>1 DEF JobsInv, ProcessingIsServed
  <2> QED BY <1>1, <1>4, <2>1, <2>2 DEF Mine
<1> QED BY <1>7, <1>8, <1>9, <1>10, <1>11 DEF JobsInv

LEMMA ClerkInv ==
  ASSUME JobsInv, NEW k \in Clerk, ClerkWorks(k) \/ ClerkFails(k)
  PROVE  JobsInv'
BY ReadsInv, GoesOnInv, EndsInv, LostInv DEF ClerkWorks, ClerkFails, Uncaught

-----------------------------------------------------------------------------
(* PRODUCT REQUESTS *)

(* The types, that a manager has a request unless it is away, and that the *)
(* numbers of the products have a largest one for nextSku to go on from.   *)
ManagerRecord ==
  [at : {"away", "claiming", "numbering", "scanning", "creating", "stocking", "labelling",
         "linking", "undoing", "rejecting"},
   request : Request \cup {NoRequest}, product : Product \cup {NoProduct},
   sku : Nat, free : BOOLEAN]

ProductRecord == [request : Request \cup {NoRequest}, sku : Nat, box : SUBSET Boxes]

RowTypes ==
  /\ status \in [Request -> {"NONE", "PENDING", "APPROVED", "REJECTED"}]
  /\ created \in [Request -> Product \cup {NoProduct}]
  /\ product \in [Product -> ProductRecord]
  /\ stock \in [Product -> Nat]

ManagerTypes ==
  /\ manager \in [Manager -> ManagerRecord]
  /\ \A m \in Manager : Of(m) = NoRequest <=> Is(m, "away")

HistoryTypes == orphans \subseteq Product /\ unsettled \subseteq Request /\ errors \in Nat

Numbers == {product[p].sku : p \in Made} \cup {0}
SomeLargest == \E x \in Numbers : \A y \in Numbers : x >= y

Types == RowTypes /\ ManagerTypes /\ HistoryTypes /\ SomeLargest

(* m has claimed r and works on it; holding, it has made its product. *)
Owning == {"numbering", "scanning", "creating", "stocking", "labelling", "linking", "undoing"}
Claimant(m, r) == Of(m) = r /\ manager[m].at \in Owning
Holds(m) == manager[m].at \in {"stocking", "labelling", "linking"}

(* The inductive invariant: a request that is claimed has one claimant, ...*)
OneClaimant ==
  /\ \A r \in Request : \A m, n \in Manager : Claimant(m, r) /\ Claimant(n, r) => m = n
  /\ \A r \in Request, m \in Manager : Claimant(m, r) => status[r] \in {"APPROVED", "REJECTED"}

(* ... whoever holds a product has made it for its request, with its goods *)
(* booked once it is past that, ...                                        *)
HeldIsMade ==
  \A m \in Manager : Holds(m) =>
    /\ manager[m].product \in Made /\ product[manager[m].product].request = Of(m)
    /\ Owned(BoxOf[Of(m)])
    /\ Is(m, "stocking") => stock[manager[m].product] = 0
    /\ ~ Is(m, "stocking") /\ Of(m) \in Located => stock[manager[m].product] = 1

(* ... a product is held by the claimant of its request or linked to it,   *)
(* unless it is an orphan, ...                                             *)
MadeIsKept ==
  \A p \in Made \ orphans :
    \/ \E m \in Manager : Holds(m) /\ manager[m].product = p
    \/ \E r \in Request : created[r] = p

(* ... a linked request is through, ... *)
LinkedIsThrough ==
  \A r \in Request : created[r] # NoProduct =>
    /\ created[r] \in Made /\ product[created[r]].request = r
    /\ Owned(BoxOf[r])
    /\ status[r] \in {"APPROVED", "REJECTED"}
    /\ \A m \in Manager : ~ Claimant(m, r)

(* ... an approved one without a claimant is linked, ... *)
ApprovedIsLinked ==
  \A r \in Request \ unsettled :
    status[r] = "APPROVED" /\ (\A m \in Manager : ~ Claimant(m, r)) =>
      created[r] # NoProduct /\ (r \in Located => stock[created[r]] = 1)

(* ... nothing is booked for what is not made, and a box that is not free  *)
(* has an owner.                                                           *)
UnmadeIsEmpty == \A p \in Product : p \notin Made => stock[p] = 0

TakenHasOwner ==
  \A m \in Manager : Is(m, "creating") /\ ~ manager[m].free => Owned(BoxOf[Of(m)])

RequestsInv ==
  /\ Types
  /\ OneClaimant /\ HeldIsMade /\ MadeIsKept /\ LinkedIsThrough /\ ApprovedIsLinked
  /\ UnmadeIsEmpty /\ TakenHasOwner

LEMMA OfIsRequest ==
  ASSUME ManagerTypes, NEW m \in Manager, ~ Is(m, "away")
  PROVE  Of(m) \in Request
BY DEF ManagerTypes, ManagerRecord, Of

LEMMA SetAfter ==
  ASSUME ManagerTypes, NEW m \in Manager, NEW c, manager' = [manager EXCEPT ![m] = c]
  PROVE  manager'[m] = c /\ \A n \in Manager \ {m} : manager'[n] = manager[n]
BY DEF ManagerTypes

LEMMA StepsAfter ==
  ASSUME ManagerTypes, NEW m \in Manager, NEW label, StepsTo(m, label)
  PROVE  /\ manager'[m].at = label /\ manager'[m].request = Of(m)
         /\ manager'[m].product = manager[m].product /\ manager'[m].free = manager[m].free
         /\ \A n \in Manager \ {m} : manager'[n] = manager[n]
         /\ /\ label \in {"claiming", "numbering", "scanning", "creating", "stocking", "labelling",
                          "linking", "undoing", "rejecting"}
            /\ ~ Is(m, "away")
            => ManagerTypes'
<1> DEFINE c == [manager[m] EXCEPT !.at = label]
<1>1. manager[m] \in ManagerRecord
  BY DEF ManagerTypes
<1>2. manager' = [manager EXCEPT ![m] = c]
  BY DEF StepsTo, ManagerTypes
<1>3. manager'[m] = c /\ \A n \in Manager \ {m} : manager'[n] = manager[n]
  BY <1>2, SetAfter
<1>4. /\ c.at = label /\ c.request = manager[m].request /\ c.product = manager[m].product
      /\ c.free = manager[m].free
      /\ label \in {"claiming", "numbering", "scanning", "creating", "stocking", "labelling",
                    "linking", "undoing", "rejecting"} => c \in ManagerRecord
  BY <1>1 DEF ManagerRecord
<1> HIDE DEF c
<1>5. ASSUME label \in {"claiming", "numbering", "scanning", "creating", "stocking", "labelling",
                        "linking", "undoing", "rejecting"},
             ~ Is(m, "away")
      PROVE  ManagerTypes'
  <2>1. manager' \in [Manager -> ManagerRecord]
    BY <1>2, <1>4, <1>5 DEF ManagerTypes
  <2>2. \A n \in Manager : (Of(n) = NoRequest <=> Is(n, "away"))'
    BY <1>3, <1>4, <1>5 DEF ManagerTypes, Of, Is
  <2> QED BY <2>1, <2>2 DEF ManagerTypes
<1> QED BY <1>3, <1>4, <1>5 DEF Of

LEMMA OutIsManager == Out \in ManagerRecord /\ Out.at = "away" /\ Out.request = NoRequest
BY DEF Out, ManagerRecord

LEMMA LeavesAfter ==
  ASSUME ManagerTypes, NEW m \in Manager, Leaves(m)
  PROVE  /\ manager'[m] = Out /\ manager'[m].at = "away"
         /\ \A n \in Manager \ {m} : manager'[n] = manager[n]
         /\ ManagerTypes'
<1>1. manager' = [manager EXCEPT ![m] = Out]
  BY DEF Leaves
<1>2. manager'[m] = Out /\ \A n \in Manager \ {m} : manager'[n] = manager[n]
  BY <1>1, SetAfter
<1>3. manager' \in [Manager -> ManagerRecord]
  BY <1>1, OutIsManager DEF ManagerTypes
<1>4. \A n \in Manager : (Of(n) = NoRequest <=> Is(n, "away"))'
  BY <1>2, OutIsManager DEF ManagerTypes, Of, Is
<1> QED BY <1>2, <1>3, <1>4, OutIsManager DEF ManagerTypes

-----------------------------------------------------------------------------
(* Most steps make no claimant and no product: whoever lets its product go *)
(* leaves an orphan, and whoever lets its claim go takes the approval back *)
(* or leaves the request unsettled.                                        *)
Same(m) == Of(m)' = Of(m) /\ manager'[m].product = manager[m].product

Modest ==
  /\ Types' /\ UNCHANGED <<created, product, stock>>
  /\ orphans \subseteq orphans' /\ unsettled \subseteq unsettled'
  /\ \A m \in Manager :
       /\ manager'[m].at \in Owning => manager[m].at \in Owning /\ Same(m)
       /\ Holds(m)' => Holds(m) /\ (Is(m, "stocking")' <=> Is(m, "stocking"))
       /\ Holds(m) => Holds(m)' \/ manager[m].product \in orphans'
       /\ Is(m, "creating")' /\ ~ manager'[m].free => Owned(BoxOf[Of(m)'])
  /\ \A r \in Request :
       \/ status'[r] = status[r]
       \/ status'[r] = "REJECTED"
       \/ /\ status'[r] # "APPROVED" /\ created[r] = NoProduct
          /\ \A m \in Manager : ~ Claimant(m, r)'
  /\ \A r \in Request \ unsettled', m \in Manager :
       Claimant(m, r) => Claimant(m, r)' \/ status'[r] # "APPROVED"

LEMMA MadeSame ==
  ASSUME UNCHANGED product
  PROVE  Made' = Made /\ \A box : Owned(box)' <=> Owned(box)
BY DEF Made, Owned

LEMMA ModestStep == RequestsInv /\ Modest => RequestsInv'
<1> SUFFICES ASSUME RequestsInv, Modest PROVE RequestsInv'
  OBVIOUS
<1>1. /\ UNCHANGED <<created, product, stock>> /\ Made' = Made
      /\ \A box : Owned(box)' <=> Owned(box)
  BY MadeSame DEF Modest
<1>2. \A m \in Manager, r \in Request : Claimant(m, r)' => Claimant(m, r)
  BY DEF Modest, Claimant, Same
<1>3. \A m \in Manager : Holds(m) => manager[m].at \in Owning
  BY DEF Holds, Owning
<1>4. \A m \in Manager : Holds(m)' => Same(m) /\ Holds(m) /\ (Is(m, "stocking")' <=> Is(m, "stocking"))
  BY DEF Modest, Holds, Owning
<1>5. OneClaimant'
  <2>1. \A r \in Request, m \in Manager : Claimant(m, r)' => status'[r] \in {"APPROVED", "REJECTED"}
    BY <1>2 DEF RequestsInv, OneClaimant, Modest
  <2> QED BY <1>2, <2>1 DEF RequestsInv, OneClaimant
<1>6. HeldIsMade'
  BY <1>1, <1>4 DEF RequestsInv, HeldIsMade, Same
<1>7. MadeIsKept'
  <2> SUFFICES ASSUME NEW p \in Made \ orphans'
               PROVE  \/ \E m \in Manager : Holds(m)' /\ manager'[m].product = p
                      \/ \E r \in Request : created[r] = p
    BY <1>1 DEF MadeIsKept
  <2>1. p \in Made \ orphans
    BY DEF Modest
  <2>2. CASE \E m \in Manager : Holds(m) /\ manager[m].product = p
    BY <1>4, <2>2 DEF Modest, Same
  <2> QED BY <2>1, <2>2 DEF RequestsInv, MadeIsKept
<1>8. LinkedIsThrough'
  BY <1>1, <1>2 DEF RequestsInv, LinkedIsThrough, Modest
<1>9. ApprovedIsLinked'
  <2> SUFFICES ASSUME NEW r \in Request \ unsettled', status'[r] = "APPROVED",
                      \A m \in Manager : ~ Claimant(m, r)'
               PROVE  created[r] # NoProduct /\ (r \in Located => stock[created[r]] = 1)
    BY <1>1 DEF ApprovedIsLinked
  <2>1. status[r] = "APPROVED"
    BY DEF Modest
  <2>2. \A m \in Manager : ~ Claimant(m, r)
    BY DEF Modest
  <2>3. r \notin unsettled
    BY DEF Modest
  <2> QED BY <2>1, <2>2, <2>3 DEF RequestsInv, ApprovedIsLinked
<1>10. UnmadeIsEmpty'
  BY <1>1 DEF RequestsInv, UnmadeIsEmpty
<1>11. TakenHasOwner'
  BY <1>1 DEF TakenHasOwner, Modest
<1> QED BY <1>5, <1>6, <1>7, <1>8, <1>9, <1>10, <1>11 DEF RequestsInv, Modest

-----------------------------------------------------------------------------
(* One lemma per group of actions. *)

(* The types of the rows when only the status of one request is written.   *)
LEMMA StatusTypes ==
  ASSUME RowTypes, SomeLargest, NEW r \in Request,
         NEW s \in {"PENDING", "APPROVED", "REJECTED"},
         status' = [status EXCEPT ![r] = s], UNCHANGED <<created, product, stock>>
  PROVE  /\ RowTypes' /\ SomeLargest'
         /\ status'[r] = s /\ \A q \in Request \ {r} : status'[q] = status[q]
<1>1. RowTypes' /\ status'[r] = s /\ \A q \in Request \ {r} : status'[q] = status[q]
  BY DEF RowTypes
<1>2. SomeLargest'
  BY MadeSame DEF SomeLargest, Numbers
<1> QED BY <1>1, <1>2

LEMMA SameTypes ==
  ASSUME RowTypes, SomeLargest, UNCHANGED rows
  PROVE  RowTypes' /\ SomeLargest' /\ UNCHANGED <<status, created, product, stock>>
<1>1. UNCHANGED <<status, created, product, stock>>
  BY DEF rows
<1>2. SomeLargest'
  BY <1>1, MadeSame DEF SomeLargest, Numbers
<1> QED BY <1>1, <1>2 DEF RowTypes

LEMMA QuietTypes == ASSUME HistoryTypes, Quiet PROVE HistoryTypes'
BY DEF HistoryTypes, Quiet, Still, Works

(* No manager moves. *)
LEMMA CreateInv == ASSUME RequestsInv, NEW r \in Request, Create(r) PROVE RequestsInv'
<1>1. /\ status[r] = "NONE" /\ status' = [status EXCEPT ![r] = "PENDING"]
      /\ UNCHANGED <<created, product, stock, manager, orphans, unsettled>>
      /\ Quiet
  BY DEF Create, Quiet, Still
<1>2. RowTypes /\ ManagerTypes /\ HistoryTypes /\ SomeLargest
  BY DEF RequestsInv, Types
<1>3. /\ RowTypes' /\ SomeLargest'
      /\ status'[r] = "PENDING" /\ \A q \in Request \ {r} : status'[q] = status[q]
  BY <1>1, <1>2, StatusTypes
<1>4. Types'
  BY <1>1, <1>2, <1>3, QuietTypes DEF Types, ManagerTypes, Of, Is
<1>5. created[r] = NoProduct /\ \A m \in Manager : ~ Claimant(m, r)
  BY <1>1 DEF RequestsInv, LinkedIsThrough, OneClaimant
<1>6. \A m \in Manager, q \in Request : Claimant(m, q)' <=> Claimant(m, q)
  BY <1>1 DEF Claimant, Of
<1>7. Modest
  BY <1>1, <1>3, <1>4, <1>5, <1>6 DEF Modest, Same, Of, Holds, Is, RequestsInv, TakenHasOwner
<1> QED BY <1>7, ModestStep

LEMMA PrintStepInv == ASSUME RequestsInv, PrintStep PROVE RequestsInv'
<1>1. UNCHANGED <<status, created, product, stock, manager, orphans, unsettled>>
  BY DEF PrintStep, rows, Still
<1>2. errors \in Nat => errors' \in Nat
  BY DEF PrintStep, Works, Fail
<1>3. Types'
  BY <1>1, <1>2, SameTypes DEF rows, RequestsInv, Types, ManagerTypes, HistoryTypes, Of, Is
<1>4. Modest
  BY <1>1, <1>3 DEF Modest, Same, Of, Holds, Is, Claimant, RequestsInv, TakenHasOwner
<1> QED BY <1>4, ModestStep

(* A manager who is not a claimant takes a request up, loses the claim or  *)
(* rejects.                                                                *)
LEMMA BesideStep ==
  ASSUME RequestsInv, NEW m \in Manager, Types', UNCHANGED <<created, product, stock>>,
         Still, ~ (manager[m].at \in Owning), ~ (manager'[m].at \in Owning),
         \A n \in Manager \ {m} : manager'[n] = manager[n],
         \A r \in Request : status'[r] = status[r] \/ status'[r] = "REJECTED"
  PROVE  RequestsInv'
<1>1. \A n \in Manager, r \in Request : Claimant(n, r)' <=> Claimant(n, r)
  BY DEF Claimant, Of
<1>2. ~ Holds(m) /\ ~ Holds(m)' /\ ~ Is(m, "creating")'
  BY DEF Holds, Owning, Is
<1>3. \A n \in Manager \ {m} : /\ Same(n) /\ (Holds(n)' <=> Holds(n))
                               /\ Is(n, "stocking")' <=> Is(n, "stocking")
                               /\ Is(n, "creating")' <=> Is(n, "creating")
                               /\ manager'[n].free = manager[n].free
  BY DEF Same, Of, Holds, Is
<1>4. \A n \in Manager : Is(n, "creating")' /\ ~ manager'[n].free => Owned(BoxOf[Of(n)'])
  BY <1>2, <1>3 DEF RequestsInv, TakenHasOwner, Same
<1>5. Modest
  BY <1>1, <1>2, <1>3, <1>4 DEF Modest, Still
<1> QED BY <1>5, ModestStep

LEMMA BesideInv ==
  ASSUME RequestsInv, NEW m \in Manager,
         \/ \E r \in Request : ApproveReads(m, r) \/ RejectReads(m, r)
         \/ Rejects(m)
         \/ (Claims(m) /\ Leaves(m))
  PROVE  RequestsInv'
<1>0. RowTypes /\ ManagerTypes /\ HistoryTypes /\ SomeLargest
  BY DEF RequestsInv, Types
<1>1. Quiet /\ UNCHANGED <<created, product, stock>> /\ HistoryTypes'
  BY <1>0, QuietTypes DEF ApproveReads, RejectReads, Rejects, Claims, rows
<1>2. CASE \E r \in Request : ApproveReads(m, r) \/ RejectReads(m, r)
  <2>0. PICK r \in Request : ApproveReads(m, r) \/ RejectReads(m, r)
    BY <1>2
  <2>1. PICK label \in {"claiming", "rejecting"} :
          manager' = [manager EXCEPT ![m] = [Out EXCEPT !.at = label, !.request = r]]
    BY <2>0 DEF ApproveReads, RejectReads
  <2> DEFINE c == [Out EXCEPT !.at = label, !.request = r]
  <2>2. c \in ManagerRecord /\ c.at = label /\ c.request = r
    BY DEF Out, ManagerRecord
  <2>3. c = [Out EXCEPT !.at = label, !.request = r]
    OBVIOUS
  <2> HIDE DEF c
  <2>4. manager'[m] = c /\ \A n \in Manager \ {m} : manager'[n] = manager[n]
    BY <1>0, <2>1, <2>3, SetAfter
  <2>5. ManagerTypes'
    <3>1. manager' \in [Manager -> ManagerRecord]
      BY <1>0, <2>1, <2>2, <2>3 DEF ManagerTypes
    <3>2. \A n \in Manager : (Of(n) = NoRequest <=> Is(n, "away"))'
      BY <1>0, <2>2, <2>4, NoRequestAssumption DEF ManagerTypes, Of, Is
    <3> QED BY <3>1, <3>2 DEF ManagerTypes
  <2>6. UNCHANGED rows /\ manager[m].at = "away"
    BY <2>0 DEF ApproveReads, RejectReads, Is
  <2>7. Types' /\ status' = status
    BY <1>0, <1>1, <2>5, <2>6, SameTypes DEF Types
  <2>8. ~ (manager[m].at \in Owning) /\ ~ (manager'[m].at \in Owning)
    BY <2>2, <2>4, <2>6 DEF Owning
  <2> QED BY <1>1, <2>4, <2>7, <2>8, BesideStep DEF Quiet
<1>3. CASE Rejects(m) \/ (Claims(m) /\ Leaves(m))
  <2>1. manager[m].at \in {"rejecting", "claiming"} /\ Leaves(m) /\ Of(m) \in Request
    BY <1>0, <1>3, OfIsRequest DEF Rejects, Claims, Is
  <2>2. /\ manager'[m].at = "away" /\ \A n \in Manager \ {m} : manager'[n] = manager[n]
        /\ ManagerTypes'
    BY <1>0, <2>1, LeavesAfter
  <2>3. CASE Rejects(m)
    <3>1. /\ RowTypes' /\ SomeLargest'
          /\ status'[Of(m)] = "REJECTED" /\ \A r \in Request \ {Of(m)} : status'[r] = status[r]
      BY <1>0, <1>1, <2>1, <2>3, StatusTypes DEF Rejects
    <3> QED BY <1>1, <2>1, <2>2, <3>1, BesideStep DEF Quiet, Types, Owning
  <2>4. CASE Claims(m)
    <3>1. status' = status
      <4>1. CASE StepsTo(m, "numbering")
        BY <1>0, <2>2, <4>1, StepsAfter
      <4> QED BY <2>4, <4>1 DEF Claims
    <3>2. RowTypes' /\ SomeLargest'
      BY <1>0, <1>1, <3>1, SameTypes DEF rows
    <3> QED BY <1>1, <2>1, <2>2, <3>1, <3>2, BesideStep DEF Quiet, Types, Owning
  <2> QED BY <1>3, <2>3, <2>4
<1> QED BY <1>2, <1>3

(* The winner of the claim. *)
LEMMA ClaimsInv ==
  ASSUME RequestsInv, NEW m \in Manager, Claims(m), ~ Leaves(m)
  PROVE  RequestsInv'
<1>0. RowTypes /\ ManagerTypes /\ HistoryTypes /\ SomeLargest
  BY DEF RequestsInv, Types
<1>1. /\ manager[m].at = "claiming" /\ StepsTo(m, "numbering")
      /\ status[Of(m)] = "PENDING" /\ status' = [status EXCEPT ![Of(m)] = "APPROVED"]
      /\ UNCHANGED <<created, product, stock>> /\ Quiet
  BY DEF Claims, Is
<1>2. PICK r \in Request : r = Of(m)
  BY <1>0, <1>1, OfIsRequest DEF Is
<1>3. /\ RowTypes' /\ SomeLargest'
      /\ status'[r] = "APPROVED" /\ \A q \in Request \ {r} : status'[q] = status[q]
  BY <1>0, <1>1, <1>2, StatusTypes
<1>4. /\ manager'[m].at = "numbering" /\ manager'[m].request = r
      /\ \A n \in Manager \ {m} : manager'[n] = manager[n]
      /\ ManagerTypes'
  BY <1>0, <1>1, <1>2, StepsAfter DEF Is
<1>5. Types' /\ UNCHANGED <<orphans, unsettled>>
  BY <1>0, <1>1, <1>3, <1>4, QuietTypes DEF Types, Quiet, Still
<1>6. created[r] = NoProduct /\ \A n \in Manager : ~ Claimant(n, r)
  BY <1>1, <1>2 DEF RequestsInv, LinkedIsThrough, OneClaimant
<1>7. \A n \in Manager, q \in Request : Claimant(n, q)' <=> (n = m /\ q = r) \/ Claimant(n, q)
  BY <1>1, <1>2, <1>4 DEF Claimant, Of, Owning
<1>8. /\ ~ Holds(m) /\ ~ Holds(m)' /\ ~ Is(m, "creating")'
      /\ \A n \in Manager \ {m} : /\ Of(n)' = Of(n) /\ (Holds(n)' <=> Holds(n))
                                  /\ \A label : Is(n, label)' <=> Is(n, label)
  BY <1>1, <1>4 DEF Holds, Is, Of
<1>9. Made' = Made /\ \A box : Owned(box)' <=> Owned(box)
  BY <1>1, MadeSame
<1>10. OneClaimant'
  BY <1>3, <1>6, <1>7 DEF RequestsInv, OneClaimant
<1>11. HeldIsMade'
  BY <1>1, <1>4, <1>8, <1>9 DEF RequestsInv, HeldIsMade
<1>12. MadeIsKept'
  BY <1>1, <1>4, <1>5, <1>8, <1>9 DEF RequestsInv, MadeIsKept
<1>13. LinkedIsThrough'
  BY <1>1, <1>3, <1>6, <1>7, <1>9 DEF RequestsInv, LinkedIsThrough
<1>14. ApprovedIsLinked'
  BY <1>1, <1>3, <1>5, <1>7 DEF RequestsInv, ApprovedIsLinked
<1>15. UnmadeIsEmpty' /\ TakenHasOwner'
  BY <1>1, <1>4, <1>8, <1>9 DEF RequestsInv, UnmadeIsEmpty, TakenHasOwner
<1> QED BY <1>5, <1>10, <1>11, <1>12, <1>13, <1>14, <1>15 DEF RequestsInv

(* A claimant goes on without making, booking or linking anything.         *)
LEMMA GoesOnStep ==
  ASSUME RequestsInv, NEW m \in Manager, Types', UNCHANGED rows,
         orphans \subseteq orphans', unsettled \subseteq unsettled',
         manager[m].at \in Owning, manager'[m].at \in Owning, Same(m),
         \A n \in Manager \ {m} : manager'[n] = manager[n],
         Holds(m)' => Holds(m) /\ (Is(m, "stocking")' <=> Is(m, "stocking")),
         Holds(m) => Holds(m)' \/ manager[m].product \in orphans',
         Is(m, "creating")' /\ ~ manager'[m].free => Owned(BoxOf[Of(m)])
  PROVE  RequestsInv'
<1>1. \A n \in Manager, r \in Request : Claimant(n, r)' <=> Claimant(n, r)
  BY DEF Claimant, Of, Same
<1>2. \A n \in Manager \ {m} : /\ Same(n) /\ (Holds(n)' <=> Holds(n))
                               /\ Is(n, "stocking")' <=> Is(n, "stocking")
                               /\ Is(n, "creating")' <=> Is(n, "creating")
                               /\ manager'[n].free = manager[n].free
  BY DEF Same, Of, Holds, Is
<1>3. \A n \in Manager : Is(n, "creating")' /\ ~ manager'[n].free => Owned(BoxOf[Of(n)'])
  BY <1>2 DEF RequestsInv, TakenHasOwner, Same
<1>4. \A n \in Manager : manager'[n].at \in Owning => manager[n].at \in Owning /\ Same(n)
  BY <1>2
<1>5. Modest
  BY <1>1, <1>2, <1>3, <1>4 DEF Modest, rows
<1> QED BY <1>5, ModestStep

LEMMA ReadingInv ==
  ASSUME RequestsInv, NEW m \in Manager,
         ReadsSku(m) \/ ReadsBox(m) \/ Clashes(m) \/ Labels(m) \/ LabelsFail(m) \/ ApproveFails(m)
  PROVE  RequestsInv'
<1>0. RowTypes /\ ManagerTypes /\ HistoryTypes /\ SomeLargest /\ manager[m] \in ManagerRecord
  BY DEF RequestsInv, Types, ManagerTypes
<1>1. /\ UNCHANGED rows /\ RowTypes' /\ SomeLargest'
      /\ UNCHANGED <<status, created, product, stock>>
  BY <1>0, SameTypes DEF ReadsSku, ReadsBox, Clashes, Labels, LabelsFail, ApproveFails
<1>2. CASE ReadsSku(m)
  <2> DEFINE c == [manager[m] EXCEPT !.at = "scanning", !.sku = 1 + Max(Numbers)]
  <2>1. manager[m].at = "numbering" /\ Quiet /\ manager' = [manager EXCEPT ![m] = c]
    BY <1>0, <1>2 DEF ReadsSku, Is, Numbers, ManagerTypes
  <2>2. Max(Numbers) \in Numbers
    BY <1>0 DEF SomeLargest, Max
  <2>3. 1 + Max(Numbers) \in Nat
    BY <1>0, <2>2 DEF Numbers, Made, RowTypes, ProductRecord
  <2>4. /\ c \in ManagerRecord /\ c.at = "scanning" /\ c.request = Of(m)
        /\ c.product = manager[m].product
    BY <1>0, <2>3 DEF ManagerRecord, Of
  <2> HIDE DEF c
  <2>5. manager'[m] = c /\ \A n \in Manager \ {m} : manager'[n] = manager[n]
    BY <1>0, <2>1, SetAfter
  <2>6. ManagerTypes'
    <3>1. manager' \in [Manager -> ManagerRecord]
      BY <1>0, <2>1, <2>4 DEF ManagerTypes
    <3>2. \A n \in Manager : (Of(n) = NoRequest <=> Is(n, "away"))'
      BY <1>0, <2>1, <2>4, <2>5 DEF ManagerTypes, Of, Is
    <3> QED BY <3>1, <3>2 DEF ManagerTypes
  <2>7. Types' /\ UNCHANGED <<orphans, unsettled>>
    BY <1>0, <1>1, <2>1, <2>6, QuietTypes DEF Types, Quiet, Still
  <2>8. /\ manager[m].at \in Owning /\ manager'[m].at \in Owning /\ Same(m)
        /\ ~ Holds(m) /\ ~ Holds(m)' /\ ~ Is(m, "creating")'
    BY <2>1, <2>4, <2>5 DEF Owning, Same, Of, Holds, Is
  <2> QED BY <1>1, <2>5, <2>7, <2>8, GoesOnStep
<1>3. CASE ReadsBox(m)
  <2> DEFINE c == [manager[m] EXCEPT !.at = "creating", !.free = ~ Owned(BoxOf[Of(m)])]
  <2>1. manager[m].at = "scanning" /\ Quiet /\ manager' = [manager EXCEPT ![m] = c]
    BY <1>0, <1>3 DEF ReadsBox, Is, ManagerTypes
  <2>2. (~ Owned(BoxOf[Of(m)])) \in BOOLEAN
    BY DEF Owned
  <2>3. /\ c \in ManagerRecord /\ c.at = "creating" /\ c.request = Of(m)
        /\ c.product = manager[m].product
    BY <1>0, <2>2 DEF ManagerRecord, Of
  <2>4. c.free = ~ Owned(BoxOf[Of(m)])
    BY <1>0 DEF ManagerRecord
  <2> HIDE DEF c
  <2>5. manager'[m] = c /\ \A n \in Manager \ {m} : manager'[n] = manager[n]
    BY <1>0, <2>1, SetAfter
  <2>6. ManagerTypes'
    <3>1. manager' \in [Manager -> ManagerRecord]
      BY <1>0, <2>1, <2>3 DEF ManagerTypes
    <3>2. \A n \in Manager : (Of(n) = NoRequest <=> Is(n, "away"))'
      BY <1>0, <2>1, <2>3, <2>5 DEF ManagerTypes, Of, Is
    <3> QED BY <3>1, <3>2 DEF ManagerTypes
  <2>7. Types' /\ UNCHANGED <<orphans, unsettled>>
    BY <1>0, <1>1, <2>1, <2>6, QuietTypes DEF Types, Quiet, Still
  <2>8. /\ manager[m].at \in Owning /\ manager'[m].at \in Owning /\ Same(m)
        /\ ~ Holds(m) /\ ~ Holds(m)'
    BY <2>1, <2>3, <2>5 DEF Owning, Same, Of, Holds, Is
  <2>9. ~ manager'[m].free => Owned(BoxOf[Of(m)])
    BY <2>4, <2>5
  <2> QED BY <1>1, <2>5, <2>7, <2>8, <2>9, GoesOnStep
<1>4. ASSUME NEW label \in {"undoing", "linking"}, StepsTo(m, label), HistoryTypes',
             orphans \subseteq orphans', unsettled \subseteq unsettled',
             label = "linking" => Is(m, "labelling"),
             label = "undoing" => /\ manager[m].at \in {"numbering", "scanning", "creating", "stocking"}
                                  /\ Holds(m) => manager[m].product \in orphans'
      PROVE  RequestsInv'
  <2>1. /\ manager'[m].at = label /\ manager'[m].request = Of(m)
        /\ manager'[m].product = manager[m].product
        /\ \A n \in Manager \ {m} : manager'[n] = manager[n]
        /\ ManagerTypes'
    BY <1>0, <1>4, StepsAfter DEF Is
  <2>2. /\ manager[m].at \in Owning /\ manager'[m].at \in Owning /\ Same(m)
        /\ ~ Is(m, "creating")' /\ ~ Is(m, "stocking")'
        /\ Holds(m)' => Holds(m) /\ ~ Is(m, "stocking")
        /\ Holds(m) => Holds(m)' \/ manager[m].product \in orphans'
    BY <1>4, <2>1 DEF Owning, Same, Of, Holds, Is
  <2> QED BY <1>1, <1>4, <2>1, <2>2, GoesOnStep DEF Types
<1>5. CASE Clashes(m)
  <2>1. StepsTo(m, "undoing") /\ manager[m].at = "creating" /\ Quiet
    BY <1>5 DEF Clashes, Is
  <2> QED BY <1>0, <1>4, <2>1, QuietTypes DEF Quiet, Still, Holds
<1>6. CASE Labels(m) \/ LabelsFail(m)
  <2>1. StepsTo(m, "linking") /\ Is(m, "labelling") /\ Still /\ (Works \/ Fail)
    BY <1>6 DEF Labels, LabelsFail
  <2>2. HistoryTypes'
    BY <1>0, <2>1 DEF HistoryTypes, Still, Works, Fail
  <2> QED BY <1>4, <2>1, <2>2 DEF Still
<1>7. CASE ApproveFails(m)
  <2>1. /\ StepsTo(m, "undoing") /\ Fail /\ unsettled' = unsettled
        /\ manager[m].at \in {"numbering", "scanning", "creating", "stocking"}
        /\ orphans' = orphans \cup ({manager[m].product} \ {NoProduct})
    BY <1>7 DEF ApproveFails
  <2>2. HistoryTypes'
    BY <1>0, <2>1 DEF HistoryTypes, Fail, ManagerRecord
  <2>3. Holds(m) => manager[m].product \in orphans'
    BY <2>1, NoProductAssumption DEF RequestsInv, HeldIsMade, Made
  <2> QED BY <1>4, <2>1, <2>2, <2>3
<1> QED BY <1>2, <1>3, <1>5, <1>6, <1>7

(* Managers break off: one who is lost or undoes the claim, or all of them.*)
LEMMA BreakOffStep ==
  ASSUME RequestsInv, NEW lost \in SUBSET Manager, HistoryTypes', RowTypes', SomeLargest',
         UNCHANGED <<created, product, stock>>,
         manager' = [m \in Manager |-> IF m \in lost THEN Out ELSE manager[m]],
         orphans \subseteq orphans', unsettled \subseteq unsettled',
         \A m \in lost : Holds(m) => manager[m].product \in orphans',
         \A r \in Request : \/ status'[r] = status[r]
                            \/ /\ status'[r] # "APPROVED" /\ created[r] = NoProduct
                               /\ \A m \in Manager : ~ Claimant(m, r)',
         \A m \in lost, r \in Request :
           Claimant(m, r) => r \in unsettled' \/ status'[r] # "APPROVED"
  PROVE  RequestsInv'
<1>1. \A m \in Manager : manager'[m] = IF m \in lost THEN Out ELSE manager[m]
  OBVIOUS
<1>2. ManagerTypes'
  <2>1. manager \in [Manager -> ManagerRecord]
    BY DEF RequestsInv, Types, ManagerTypes
  <2>2. manager' \in [Manager -> ManagerRecord]
    BY <2>1, OutIsManager
  <2>3. \A m \in Manager : (Of(m) = NoRequest <=> Is(m, "away"))'
    BY <1>1, OutIsManager DEF RequestsInv, Types, ManagerTypes, Of, Is
  <2> QED BY <2>2, <2>3 DEF ManagerTypes
<1>3. \A m \in lost : manager'[m].at = "away"
  BY <1>1, OutIsManager
<1>4. \A m \in Manager \ lost : manager'[m] = manager[m]
  BY <1>1
<1>5. \A m \in lost : ~ (manager'[m].at \in Owning) /\ ~ Holds(m)' /\ ~ Is(m, "creating")'
  BY <1>3 DEF Owning, Holds, Is
<1>6. \A m \in Manager \ lost :
        /\ Same(m) /\ (Holds(m)' <=> Holds(m)) /\ manager'[m].at = manager[m].at
        /\ Is(m, "stocking")' <=> Is(m, "stocking")
        /\ Is(m, "creating")' <=> Is(m, "creating")
        /\ manager'[m].free = manager[m].free
        /\ \A r \in Request : Claimant(m, r)' <=> Claimant(m, r)
  BY <1>4 DEF Same, Of, Holds, Is, Claimant
<1>7. \A m \in Manager : Is(m, "creating")' /\ ~ manager'[m].free => Owned(BoxOf[Of(m)'])
  BY <1>5, <1>6 DEF RequestsInv, TakenHasOwner, Same
<1>8. \A m \in Manager :
        /\ manager'[m].at \in Owning => manager[m].at \in Owning /\ Same(m)
        /\ Holds(m)' => Holds(m) /\ (Is(m, "stocking")' <=> Is(m, "stocking"))
        /\ Holds(m) => Holds(m)' \/ manager[m].product \in orphans'
  BY <1>5, <1>6
<1>9. \A r \in Request \ unsettled', m \in Manager :
        Claimant(m, r) => Claimant(m, r)' \/ status'[r] # "APPROVED"
  BY <1>6
<1>10. Modest
  BY <1>2, <1>7, <1>8, <1>9 DEF Modest, Types
<1> QED BY <1>10, ModestStep

LEMMA LosesInv ==
  ASSUME RequestsInv, NEW lost \in SUBSET Manager, Loses(lost), Fail, UNCHANGED rows
  PROVE  RequestsInv'
<1>0. RowTypes /\ ManagerTypes /\ HistoryTypes /\ SomeLargest
  BY DEF RequestsInv, Types
<1>1. /\ RowTypes' /\ SomeLargest'
      /\ UNCHANGED <<status, created, product, stock>>
  BY <1>0, SameTypes
<1>2. /\ manager' = [m \in Manager |-> IF m \in lost THEN Out ELSE manager[m]]
      /\ orphans' = orphans \cup ({manager[m].product : m \in lost} \ {NoProduct})
      /\ unsettled' = unsettled \cup
           {Of(m) : m \in {n \in lost : manager[n].at \notin {"away", "claiming", "rejecting"}}}
  BY DEF Loses
<1>3. \A m \in lost : Holds(m) => manager[m].product \in orphans'
  BY <1>2, NoProductAssumption DEF RequestsInv, HeldIsMade, Made
<1>4. \A m \in lost, r \in Request : Claimant(m, r) => r \in unsettled'
  BY <1>2 DEF Claimant, Owning
<1>5. HistoryTypes'
  <2>1. \A m \in lost : manager[m].product \in Product \cup {NoProduct}
    BY <1>0 DEF ManagerTypes, ManagerRecord
  <2>2. \A m \in lost : ~ Is(m, "away") => Of(m) \in Request
    BY <1>0, OfIsRequest
  <2>3. orphans' \subseteq Product
    BY <1>0, <1>2, <2>1 DEF HistoryTypes
  <2>4. unsettled' \subseteq Request
    BY <1>0, <1>2, <2>2 DEF HistoryTypes, Is
  <2> QED BY <1>0, <2>3, <2>4 DEF HistoryTypes, Fail
<1> QED BY <1>1, <1>2, <1>3, <1>4, <1>5, BreakOffStep

LEMMA UndoesInv == ASSUME RequestsInv, NEW m \in Manager, Undoes(m) PROVE RequestsInv'
<1>0. RowTypes /\ ManagerTypes /\ HistoryTypes /\ SomeLargest
  BY DEF RequestsInv, Types
<1>1. /\ manager[m].at = "undoing" /\ Leaves(m) /\ Quiet
      /\ status' = [status EXCEPT ![Of(m)] = "PENDING"]
      /\ UNCHANGED <<created, product, stock>>
  BY DEF Undoes, Is
<1>2. PICK r \in Request : r = Of(m)
  BY <1>0, <1>1, OfIsRequest DEF Is
<1>3. /\ RowTypes' /\ SomeLargest'
      /\ status'[r] = "PENDING" /\ \A q \in Request \ {r} : status'[q] = status[q]
  BY <1>0, <1>1, <1>2, StatusTypes
<1>4. HistoryTypes' /\ UNCHANGED <<orphans, unsettled>>
  BY <1>0, <1>1, QuietTypes DEF Quiet, Still
<1>5. /\ manager'[m].at = "away" /\ \A n \in Manager \ {m} : manager'[n] = manager[n]
      /\ manager' = [n \in Manager |-> IF n \in {m} THEN Out ELSE manager[n]]
  BY <1>0, <1>1, OutIsManager DEF Leaves, ManagerTypes
<1>6. Claimant(m, r) /\ ~ Holds(m) /\ \A q \in Request : Claimant(m, q) => q = r
  BY <1>1, <1>2 DEF Claimant, Owning, Holds
<1>7. created[r] = NoProduct /\ \A n \in Manager \ {m} : ~ Claimant(n, r)
  BY <1>6 DEF RequestsInv, LinkedIsThrough, OneClaimant
<1>8. \A n \in Manager : ~ Claimant(n, r)'
  BY <1>5, <1>7 DEF Claimant, Of, Owning
<1> QED BY <1>1, <1>3, <1>4, <1>5, <1>6, <1>7, <1>8, BreakOffStep

(* Making the product: it is not an orphan and nobody else has it. *)
LEMMA CreatesInv ==
  ASSUME RequestsInv, NEW m \in Manager, NEW p \in Product, CreatesProduct(m, p)
  PROVE  RequestsInv'
<1>0. RowTypes /\ ManagerTypes /\ HistoryTypes /\ SomeLargest /\ manager[m] \in ManagerRecord
  BY DEF RequestsInv, Types, ManagerTypes
<1>1. manager[m].at = "creating" /\ p \notin Made /\ Quiet /\ UNCHANGED <<status, created, stock>>
  BY DEF CreatesProduct, Is
<1>2. PICK r \in Request : r = Of(m)
  BY <1>0, <1>1, OfIsRequest DEF Is
<1> DEFINE b == IF manager[m].free THEN {BoxOf[r]} ELSE {}
           new == [request |-> r, sku |-> manager[m].sku, box |-> b]
           c == [manager[m] EXCEPT !.at = "stocking", !.product = p]
<1>3. product' = [product EXCEPT ![p] = new] /\ manager' = [manager EXCEPT ![m] = c]
  BY <1>0, <1>2 DEF CreatesProduct, ManagerTypes
<1>4. /\ new \in ProductRecord /\ new.request = r /\ new.sku = manager[m].sku /\ new.box = b
      /\ new # Unmade
  BY <1>0, <1>2, BoxOfAssumption, NoRequestAssumption DEF ProductRecord, ManagerRecord, Unmade
<1>5. /\ c \in ManagerRecord /\ c.at = "stocking" /\ c.request = r /\ c.product = p
  BY <1>0, <1>2 DEF ManagerRecord, Of
<1>6. manager[m].free => b = {BoxOf[r]}
  OBVIOUS
<1> HIDE DEF b, new, c
<1>7. /\ product'[p] = new /\ \A q \in Product \ {p} : product'[q] = product[q]
      /\ product' \in [Product -> ProductRecord]
  BY <1>0, <1>3, <1>4 DEF RowTypes
<1>8. Made' = Made \cup {p}
  BY <1>1, <1>4, <1>7 DEF Made
<1>9. \A box : Owned(box) => Owned(box)'
  BY <1>1, <1>7, <1>8 DEF Owned, Made
<1>10. Owned(BoxOf[r])'
  <2>1. CASE manager[m].free
    BY <1>4, <1>6, <1>7, <1>8, <2>1 DEF Owned
  <2>2. CASE ~ manager[m].free
    BY <1>1, <1>2, <1>9, <2>2 DEF RequestsInv, TakenHasOwner, Is
  <2> QED BY <2>1, <2>2
<1>11. /\ manager'[m] = c /\ \A n \in Manager \ {m} : manager'[n] = manager[n]
  BY <1>0, <1>3, SetAfter
<1>12. Types'
  <2>1. RowTypes'
    BY <1>0, <1>1, <1>7 DEF RowTypes
  <2>2. manager' \in [Manager -> ManagerRecord]
    BY <1>0, <1>3, <1>5 DEF ManagerTypes
  <2>3. \A n \in Manager : (Of(n) = NoRequest <=> Is(n, "away"))'
    BY <1>0, <1>2, <1>5, <1>11, NoRequestAssumption DEF ManagerTypes, Of, Is
  <2>4. HistoryTypes'
    BY <1>0, <1>1, QuietTypes
  <2>5. SomeLargest'
    <3>1. Numbers' = Numbers \cup {manager[m].sku}
      BY <1>1, <1>4, <1>7, <1>8 DEF Numbers, Made
    <3>2. PICK x \in Numbers : \A y \in Numbers : x >= y
      BY <1>0 DEF SomeLargest
    <3>3. Numbers \subseteq Nat /\ manager[m].sku \in Nat
      BY <1>0 DEF Numbers, Made, RowTypes, ProductRecord, ManagerRecord
    <3>4. CASE x >= manager[m].sku
      BY <3>1, <3>2, <3>4 DEF SomeLargest
    <3>5. CASE ~ (x >= manager[m].sku)
      <4>1. \A y \in Numbers : manager[m].sku >= y
        BY <3>2, <3>3, <3>5
      <4> QED BY <3>1, <3>3, <4>1 DEF SomeLargest
    <3> QED BY <3>4, <3>5
  <2> QED BY <2>1, <2>2, <2>3, <2>4, <2>5 DEF Types, ManagerTypes
<1>13. Claimant(m, r) /\ ~ Holds(m)
  BY <1>1, <1>2 DEF Claimant, Owning, Holds
<1>14. /\ \A n \in Manager \ {m} : /\ Of(n)' = Of(n) /\ (Holds(n)' <=> Holds(n))
                                   /\ \A label : Is(n, label)' <=> Is(n, label)
       /\ Of(m)' = r /\ Holds(m)' /\ Is(m, "stocking")' /\ manager'[m].product = p
       /\ ~ Is(m, "creating")'
       /\ \A n \in Manager, q \in Request : Claimant(n, q)' <=> Claimant(n, q)
  BY <1>1, <1>2, <1>5, <1>11 DEF Of, Holds, Is, Claimant, Owning
<1>15. OneClaimant'
  BY <1>1, <1>14 DEF RequestsInv, OneClaimant
<1>16. HeldIsMade'
  <2> SUFFICES ASSUME NEW n \in Manager, Holds(n)'
               PROVE  /\ manager'[n].product \in Made' /\ product'[manager'[n].product].request = Of(n)'
                      /\ Owned(BoxOf[Of(n)])'
                      /\ Is(n, "stocking")' => stock[manager'[n].product] = 0
                      /\ ~ Is(n, "stocking")' /\ Of(n)' \in Located => stock[manager'[n].product] = 1
    BY <1>1 DEF HeldIsMade
  <2>1. CASE n = m
    BY <1>1, <1>4, <1>7, <1>8, <1>10, <1>14, <2>1 DEF RequestsInv, UnmadeIsEmpty
  <2>2. CASE n # m
    <3>1. /\ manager[n].product \in Made /\ product[manager[n].product].request = Of(n)
          /\ Owned(BoxOf[Of(n)])
          /\ Is(n, "stocking") => stock[manager[n].product] = 0
          /\ ~ Is(n, "stocking") /\ Of(n) \in Located => stock[manager[n].product] = 1
      BY <1>14, <2>2 DEF RequestsInv, HeldIsMade
    <3>2. product'[manager[n].product] = product[manager[n].product]
      BY <1>1, <1>7, <3>1 DEF Made
    <3>3. Owned(BoxOf[Of(n)])'
      BY <1>9, <1>14, <2>2, <3>1
    <3> QED BY <1>8, <1>11, <1>14, <2>2, <3>1, <3>2, <3>3
  <2> QED BY <2>1, <2>2
<1>17. MadeIsKept'
  <2> SUFFICES ASSUME NEW q \in Made' \ orphans'
               PROVE  \/ \E n \in Manager : Holds(n)' /\ manager'[n].product = q
                      \/ \E s \in Request : created[s] = q
    BY <1>1 DEF MadeIsKept
  <2>1. CASE q = p
    BY <1>14, <2>1
  <2>2. CASE q # p
    <3>1. q \in Made \ orphans
      BY <1>1, <1>8, <2>2 DEF Quiet, Still
    <3> QED BY <1>11, <1>13, <1>14, <3>1 DEF RequestsInv, MadeIsKept
  <2> QED BY <2>1, <2>2
<1>18. LinkedIsThrough'
  <2> SUFFICES ASSUME NEW s \in Request, created[s] # NoProduct
               PROVE  /\ created[s] \in Made' /\ product'[created[s]].request = s
                      /\ Owned(BoxOf[s])' /\ status[s] \in {"APPROVED", "REJECTED"}
                      /\ \A n \in Manager : ~ Claimant(n, s)'
    BY <1>1 DEF LinkedIsThrough
  <2>1. /\ created[s] \in Made /\ product[created[s]].request = s
        /\ Owned(BoxOf[s]) /\ status[s] \in {"APPROVED", "REJECTED"}
        /\ \A n \in Manager : ~ Claimant(n, s)
    BY DEF RequestsInv, LinkedIsThrough
  <2>2. product'[created[s]] = product[created[s]]
    BY <1>1, <1>7, <2>1 DEF Made
  <2> QED BY <1>8, <1>9, <1>14, <2>1, <2>2
<1>19. ApprovedIsLinked'
  BY <1>1, <1>14 DEF RequestsInv, ApprovedIsLinked, Quiet, Still
<1>20. UnmadeIsEmpty'
  BY <1>1, <1>8 DEF RequestsInv, UnmadeIsEmpty
<1>21. TakenHasOwner'
  BY <1>9, <1>11, <1>14 DEF RequestsInv, TakenHasOwner
<1> QED BY <1>12, <1>15, <1>16, <1>17, <1>18, <1>19, <1>20, <1>21 DEF RequestsInv

(* Booking the first goods of the product that m holds. *)
LEMMA StocksInv == ASSUME RequestsInv, NEW m \in Manager, Stocks(m) PROVE RequestsInv'
<1>0. RowTypes /\ ManagerTypes /\ HistoryTypes /\ SomeLargest
  BY DEF RequestsInv, Types
<1>1. /\ manager[m].at = "stocking" /\ StepsTo(m, "labelling") /\ Quiet
      /\ UNCHANGED <<status, created, product>>
      /\ stock' = IF Of(m) \in Located THEN [stock EXCEPT ![manager[m].product] = @ + 1] ELSE stock
  BY DEF Stocks, Is
<1>2. PICK r \in Request : r = Of(m)
  BY <1>0, <1>1, OfIsRequest DEF Is
<1>3. PICK p \in Product : p = manager[m].product
  BY <1>1 DEF RequestsInv, HeldIsMade, Holds, Made
<1>4. /\ Holds(m) /\ Claimant(m, r) /\ p \in Made /\ product[p].request = r /\ Owned(BoxOf[r])
      /\ stock[p] = 0
  BY <1>1, <1>2, <1>3 DEF RequestsInv, HeldIsMade, Holds, Claimant, Owning, Is
<1>5. /\ \A q \in Product \ {p} : stock'[q] = stock[q]
      /\ r \in Located => stock'[p] = 1
      /\ stock' \in [Product -> Nat]
  BY <1>0, <1>1, <1>2, <1>3, <1>4 DEF RowTypes
<1>6. /\ manager'[m].at = "labelling" /\ manager'[m].request = r /\ manager'[m].product = p
      /\ \A n \in Manager \ {m} : manager'[n] = manager[n]
      /\ ManagerTypes'
  BY <1>0, <1>1, <1>2, <1>3, StepsAfter DEF Is
<1>7. Made' = Made /\ \A box : Owned(box)' <=> Owned(box)
  BY <1>1, MadeSame
<1>8. Types' /\ UNCHANGED <<orphans, unsettled>>
  <2>1. SomeLargest'
    BY <1>0, <1>1, <1>7 DEF SomeLargest, Numbers
  <2> QED BY <1>0, <1>1, <1>5, <1>6, <2>1, QuietTypes DEF Types, RowTypes, Quiet, Still
<1>9. /\ \A n \in Manager \ {m} : /\ Of(n)' = Of(n) /\ (Holds(n)' <=> Holds(n))
                                  /\ \A label : Is(n, label)' <=> Is(n, label)
      /\ Of(m)' = r /\ Holds(m)' /\ ~ Is(m, "stocking")' /\ ~ Is(m, "creating")'
      /\ \A n \in Manager, q \in Request : Claimant(n, q)' <=> Claimant(n, q)
  BY <1>1, <1>2, <1>6 DEF Of, Holds, Is, Claimant, Owning
<1>10. \A n \in Manager \ {m} : Holds(n) => manager[n].product # p
  <2> SUFFICES ASSUME NEW n \in Manager \ {m}, Holds(n), manager[n].product = p PROVE FALSE
    OBVIOUS
  <2>1. Of(n) = r
    BY <1>4 DEF RequestsInv, HeldIsMade
  <2>2. Claimant(n, r)
    BY <2>1 DEF Claimant, Holds, Owning
  <2> QED BY <1>4, <2>2 DEF RequestsInv, OneClaimant
<1>11. \A s \in Request : created[s] # p
  BY <1>3, <1>4, NoProductAssumption DEF RequestsInv, LinkedIsThrough
<1>12. OneClaimant'
  BY <1>1, <1>9 DEF RequestsInv, OneClaimant
<1>13. HeldIsMade'
  <2> SUFFICES ASSUME NEW n \in Manager, Holds(n)'
               PROVE  /\ manager'[n].product \in Made /\ product[manager'[n].product].request = Of(n)'
                      /\ Owned(BoxOf[Of(n)'])
                      /\ Is(n, "stocking")' => stock'[manager'[n].product] = 0
                      /\ ~ Is(n, "stocking")' /\ Of(n)' \in Located => stock'[manager'[n].product] = 1
    BY <1>1, <1>7 DEF HeldIsMade
  <2>1. CASE n = m
    BY <1>4, <1>5, <1>6, <1>9, <2>1
  <2>2. CASE n # m
    <3>1. Holds(n) /\ manager[n].product # p /\ manager'[n] = manager[n]
      BY <1>6, <1>9, <1>10, <2>2
    <3>2. /\ manager[n].product \in Made /\ product[manager[n].product].request = Of(n)
          /\ Owned(BoxOf[Of(n)])
          /\ Is(n, "stocking") => stock[manager[n].product] = 0
          /\ ~ Is(n, "stocking") /\ Of(n) \in Located => stock[manager[n].product] = 1
      BY <3>1 DEF RequestsInv, HeldIsMade
    <3>3. stock'[manager[n].product] = stock[manager[n].product]
      BY <1>5, <3>1, <3>2 DEF Made
    <3> QED BY <1>9, <2>2, <3>1, <3>2, <3>3
  <2> QED BY <2>1, <2>2
<1>14. MadeIsKept'
  <2>1. \A n \in Manager : \A q : Holds(n) /\ manager[n].product = q => Holds(n)' /\ manager'[n].product = q
    BY <1>3, <1>6, <1>9
  <2> QED BY <1>1, <1>7, <1>8, <2>1 DEF RequestsInv, MadeIsKept
<1>15. LinkedIsThrough'
  BY <1>1, <1>7, <1>9 DEF RequestsInv, LinkedIsThrough
<1>16. ApprovedIsLinked'
  <2>1. \A s \in Request : created[s] # NoProduct => stock'[created[s]] = stock[created[s]]
    BY <1>0, <1>5, <1>11 DEF RowTypes
  <2> QED BY <1>1, <1>8, <1>9, <2>1 DEF RequestsInv, ApprovedIsLinked
<1>17. UnmadeIsEmpty'
  BY <1>4, <1>5, <1>7 DEF RequestsInv, UnmadeIsEmpty
<1>18. TakenHasOwner'
  BY <1>6, <1>7, <1>9 DEF RequestsInv, TakenHasOwner
<1> QED BY <1>8, <1>12, <1>13, <1>14, <1>15, <1>16, <1>17, <1>18 DEF RequestsInv

(* Linking the product that m holds to its request. *)
LEMMA LinksInv == ASSUME RequestsInv, NEW m \in Manager, Links(m) PROVE RequestsInv'
<1>0. RowTypes /\ ManagerTypes /\ HistoryTypes /\ SomeLargest
  BY DEF RequestsInv, Types
<1>1. /\ manager[m].at = "linking" /\ Leaves(m) /\ Quiet
      /\ UNCHANGED <<status, product, stock>>
      /\ created' = [created EXCEPT ![Of(m)] = manager[m].product]
  BY DEF Links, Is
<1>2. PICK r \in Request : r = Of(m)
  BY <1>0, <1>1, OfIsRequest DEF Is
<1>3. PICK p \in Product : p = manager[m].product
  BY <1>1 DEF RequestsInv, HeldIsMade, Holds, Made
<1>4. /\ Holds(m) /\ Claimant(m, r) /\ p \in Made /\ product[p].request = r /\ Owned(BoxOf[r])
      /\ r \in Located => stock[p] = 1
      /\ p # NoProduct
  BY <1>1, <1>2, <1>3, NoProductAssumption DEF RequestsInv, HeldIsMade, Holds, Claimant, Owning, Is
<1>5. /\ created'[r] = p /\ \A s \in Request \ {r} : created'[s] = created[s]
      /\ created' \in [Request -> Product \cup {NoProduct}]
  BY <1>0, <1>1, <1>2, <1>3 DEF RowTypes
<1>6. /\ manager'[m].at = "away" /\ \A n \in Manager \ {m} : manager'[n] = manager[n]
      /\ ManagerTypes'
  BY <1>0, <1>1, LeavesAfter
<1>7. Made' = Made /\ \A box : Owned(box)' <=> Owned(box)
  BY <1>1, MadeSame
<1>8. Types' /\ UNCHANGED <<orphans, unsettled>>
  <2>1. SomeLargest'
    BY <1>0, <1>1, <1>7 DEF SomeLargest, Numbers
  <2> QED BY <1>0, <1>1, <1>5, <1>6, <2>1, QuietTypes DEF Types, RowTypes, Quiet, Still
<1>9. /\ \A n \in Manager \ {m} : /\ Of(n)' = Of(n) /\ (Holds(n)' <=> Holds(n))
                                  /\ \A label : Is(n, label)' <=> Is(n, label)
                                  /\ \A q \in Request : Claimant(n, q)' <=> Claimant(n, q)
      /\ ~ Holds(m)' /\ ~ Is(m, "creating")' /\ \A q \in Request : ~ Claimant(m, q)'
  BY <1>6 DEF Of, Holds, Is, Claimant, Owning
<1>10. status[r] \in {"APPROVED", "REJECTED"} /\ \A n \in Manager : ~ Claimant(n, r)'
  BY <1>4, <1>9 DEF RequestsInv, OneClaimant
<1>11. \A q \in Request, n \in Manager : Claimant(n, q)' => Claimant(n, q)
  BY <1>9
<1>12. \A q \in Request : Claimant(m, q) => q = r
  BY <1>2 DEF Claimant
<1>13. OneClaimant'
  BY <1>1, <1>11 DEF RequestsInv, OneClaimant
<1>14. HeldIsMade'
  BY <1>1, <1>6, <1>7, <1>9 DEF RequestsInv, HeldIsMade
<1>15. MadeIsKept'
  <2> SUFFICES ASSUME NEW q \in Made \ orphans
               PROVE  \/ \E n \in Manager : Holds(n)' /\ manager'[n].product = q
                      \/ \E s \in Request : created'[s] = q
    BY <1>7, <1>8 DEF MadeIsKept
  <2>1. CASE \E n \in Manager : Holds(n) /\ manager[n].product = q
    <3>1. PICK n \in Manager : Holds(n) /\ manager[n].product = q
      BY <2>1
    <3>2. CASE n = m
      BY <1>3, <1>5, <3>1, <3>2
    <3>3. CASE n # m
      BY <1>6, <1>9, <3>1, <3>3
    <3> QED BY <3>2, <3>3
  <2>2. CASE \E s \in Request : created[s] = q
    <3>1. PICK s \in Request : created[s] = q
      BY <2>2
    <3>2. s # r
      <4>1. q # NoProduct
        BY NoProductAssumption DEF Made
      <4> QED BY <1>4, <3>1, <4>1 DEF RequestsInv, LinkedIsThrough
    <3> QED BY <1>5, <3>1, <3>2
  <2> QED BY <2>1, <2>2 DEF RequestsInv, MadeIsKept
<1>16. LinkedIsThrough'
  <2> SUFFICES ASSUME NEW s \in Request, created'[s] # NoProduct
               PROVE  /\ created'[s] \in Made /\ product[created'[s]].request = s
                      /\ Owned(BoxOf[s]) /\ status[s] \in {"APPROVED", "REJECTED"}
                      /\ \A n \in Manager : ~ Claimant(n, s)'
    BY <1>1, <1>7 DEF LinkedIsThrough
  <2>1. CASE s = r
    BY <1>4, <1>5, <1>10, <2>1
  <2>2. CASE s # r
    BY <1>5, <1>11, <2>2 DEF RequestsInv, LinkedIsThrough
  <2> QED BY <2>1, <2>2
<1>17. ApprovedIsLinked'
  <2> SUFFICES ASSUME NEW s \in Request \ unsettled, status[s] = "APPROVED",
                      \A n \in Manager : ~ Claimant(n, s)'
               PROVE  created'[s] # NoProduct /\ (s \in Located => stock[created'[s]] = 1)
    BY <1>1, <1>8 DEF ApprovedIsLinked
  <2>1. CASE s = r
    BY <1>4, <1>5, <2>1
  <2>2. CASE s # r
    <3>1. \A n \in Manager : ~ Claimant(n, s)
      BY <1>9, <1>12, <2>2
    <3> QED BY <1>5, <2>2, <3>1 DEF RequestsInv, ApprovedIsLinked
  <2> QED BY <2>1, <2>2
<1>18. UnmadeIsEmpty' /\ TakenHasOwner'
  BY <1>1, <1>6, <1>7, <1>9 DEF RequestsInv, UnmadeIsEmpty, TakenHasOwner
<1> QED BY <1>8, <1>13, <1>14, <1>15, <1>16, <1>17, <1>18 DEF RequestsInv

-----------------------------------------------------------------------------
(* THEOREMS *)

LEMMA PRInitInv == Init => RequestsInv /\ JobsInv
<1> SUFFICES ASSUME Init PROVE RequestsInv /\ JobsInv
  OBVIOUS
<1>1. \A m \in Manager : manager[m] = Out
  BY DEF Init
<1>2. Made = {} /\ UnmadeIsEmpty
  BY DEF Init, Made, UnmadeIsEmpty
<1>3. Types
  <2>1. Unmade \in ProductRecord
    BY DEF Unmade, ProductRecord
  <2>2. RowTypes
    BY <2>1 DEF Init, RowTypes
  <2>3. ManagerTypes
    BY OutIsManager DEF Init, ManagerTypes, Of, Is
  <2>4. HistoryTypes
    BY DEF Init, JobsInit, HistoryTypes
  <2>5. Numbers = {0}
    BY <1>2 DEF Numbers
  <2>6. SomeLargest
    BY <2>5 DEF SomeLargest
  <2> QED BY <2>2, <2>3, <2>4, <2>6 DEF Types
<1>4. \A m \in Manager : /\ ~ Holds(m) /\ ~ Is(m, "creating")
                         /\ \A r \in Request : ~ Claimant(m, r)
  BY <1>1, OutIsManager DEF Holds, Is, Claimant, Owning
<1>5. OneClaimant /\ HeldIsMade /\ TakenHasOwner
  BY <1>4 DEF OneClaimant, HeldIsMade, TakenHasOwner
<1>6. MadeIsKept /\ LinkedIsThrough /\ ApprovedIsLinked
  BY <1>2 DEF Init, MadeIsKept, LinkedIsThrough, ApprovedIsLinked
<1>7. RequestsInv
  BY <1>2, <1>3, <1>5, <1>6 DEF RequestsInv
<1>8. JobsInv
  <2>1. \A k \in Clerk : Mine(k) = NoJob /\ At(k, "away") /\ \A j \in Job : Mine(k) # j /\ ~ Serves(k, j)
    BY NoJobAssumption DEF Init, JobsInit, Away, Mine, At, Serves
  <2>2. ClerksOK
    BY <2>1 DEF Init, JobsInit, Away, ClerksOK, JobsTypeOK
  <2>3. UnknownIsUntouched /\ OneClerk /\ PrintedOnce /\ ProcessingIsServed
    BY <2>1 DEF Init, JobsInit, UnknownIsUntouched, OneClerk, PrintedOnce, ProcessingIsServed
  <2>4. TakenIsOutOfReach
    <3>1. \A j \in Job : prints[j] = 0
      BY DEF Init, JobsInit
    <3>2. ASSUME NEW j \in Job PROVE prints[j] # 1
      BY <3>1
    <3>3. ASSUME NEW j \in Job, NEW k \in Clerk PROVE ~ Serves(k, j)
      BY <2>1
    <3>4. ASSUME NEW j \in Job \ reprinted
          PROVE  /\ \A k \in Clerk : Serves(k, j) /\ ~ At(k, "claiming") => job[j] \notin Confirmable
                 /\ prints[j] = 1 => /\ job[j] \notin Confirmable
                                     /\ \A k \in Clerk : Serves(k, j) => clerk[k].at \in {"marking", "completing"}
      BY <3>2, <3>3
    <3> QED BY <3>4 DEF TakenIsOutOfReach
  <2> QED BY <2>2, <2>3, <2>4 DEF JobsInv
<1> QED BY <1>7, <1>8

(* The steps of the requests are steps of the jobs, or leave them alone.   *)
LEMMA JobsStep == JobsInv /\ RequestsInv /\ [Next]_vars => JobsInv'
<1> SUFFICES ASSUME JobsInv, RequestsInv, [Next]_vars PROVE JobsInv'
  OBVIOUS
<1>1. CASE UNCHANGED jobVars
  <2>1. UNCHANGED <<job, item, prints, clerk, reprinted, abandoned>>
    BY <1>1 DEF jobVars, jobRows
  <2>2. ClerksOK' /\ UnknownIsUntouched'
    BY <2>1 DEF JobsInv, ClerksOK, JobsTypeOK, UnknownIsUntouched, Mine, At
  <2>3. OneClerk' /\ TakenIsOutOfReach'
    BY <2>1 DEF JobsInv, OneClerk, TakenIsOutOfReach, Serves, Mine, At
  <2>4. PrintedOnce' /\ ProcessingIsServed'
    BY <2>1 DEF JobsInv, PrintedOnce, ProcessingIsServed, Mine
  <2> QED BY <2>2, <2>3, <2>4 DEF JobsInv
<1>2. CASE PrintStep
  BY <1>2, ClerkInv DEF PrintStep
<1>3. CASE Stops
  BY <1>3, LostInv DEF Stops
<1>4. ASSUME NEW m \in Manager, Labels(m) PROVE JobsInv'
  <2>1. manager[m].product \in Job
    BY <1>4 DEF Labels, RequestsInv, HeldIsMade, Holds, Is, Made, Product
  <2> QED BY <1>4, <2>1, EnqueuedInv DEF Labels
<1> QED
  BY <1>1, <1>2, <1>3, <1>4
  DEF Next, vars, Create, ApproveReads, RejectReads, Approves, Claims, ReadsSku, ReadsBox, Clashes,
      Stocks, Links, Undoes, CreatesProduct, Rejects, ApproveFails, LabelsFail, ManagerLost, Quiet

LEMMA RequestsStep == RequestsInv /\ [Next]_vars => RequestsInv'
<1> SUFFICES ASSUME RequestsInv, [Next]_vars PROVE RequestsInv'
  OBVIOUS
<1>1. CASE UNCHANGED vars
  <2>1. UNCHANGED <<status, created, product, stock, manager, orphans, unsettled, errors>>
    BY <1>1 DEF vars, rows
  <2>2. Types'
    BY <2>1, SameTypes DEF rows, RequestsInv, Types, ManagerTypes, HistoryTypes, Of, Is
  <2>3. Modest
    BY <2>1, <2>2 DEF Modest, Same, Of, Holds, Is, Claimant, RequestsInv, TakenHasOwner
  <2> QED BY <2>3, ModestStep
<1>2. CASE (\E r \in Request : Create(r)) \/ PrintStep
  BY <1>2, CreateInv, PrintStepInv
<1>3. CASE Stops
  BY <1>3, LosesInv DEF Stops
<1>4. ASSUME NEW m \in Manager,
             (\E r \in Request : ApproveReads(m, r) \/ RejectReads(m, r)) \/ Rejects(m)
      PROVE  RequestsInv'
  BY <1>4, BesideInv
<1>5. ASSUME NEW m \in Manager, Approves(m) PROVE RequestsInv'
  <2>1. CASE Claims(m)
    BY <2>1, ClaimsInv, BesideInv
  <2> QED BY <1>5, <2>1, ReadingInv, StocksInv, LinksInv, UndoesInv, CreatesInv DEF Approves
<1>6. ASSUME NEW m \in Manager, ApproveFails(m) \/ LabelsFail(m) PROVE RequestsInv'
  BY <1>6, ReadingInv
<1>7. ASSUME NEW m \in Manager, ManagerLost(m) PROVE RequestsInv'
  BY <1>7, LosesInv DEF ManagerLost
<1> QED BY <1>1, <1>2, <1>3, <1>4, <1>5, <1>6, <1>7 DEF Next

LEMMA PRInvariant == Spec => [](RequestsInv /\ JobsInv)
BY PRInitInv, RequestsStep, JobsStep, PTL DEF Spec

(* The variables keep their types; the number a new product gets is a      *)
(* number, for there is always a largest one to go on from (nextSku).      *)
THEOREM RequestsTypeCorrect == Spec => []TypeOK
<1>1. RequestsInv /\ JobsInv => TypeOK
  BY DEF RequestsInv, JobsInv, Types, RowTypes, ManagerTypes, HistoryTypes, ClerksOK, TypeOK,
         ManagerRecord, ProductRecord
<1> QED BY <1>1, PRInvariant, PTL

(* However many managers approve, reject and fail on a request, and        *)
(* whenever the API stops, it has one product, but for those whose         *)
(* approval broke off after making one.                                    *)
THEOREM OneProductForEach == Spec => []OneProductEach
<1>1. RequestsInv => OneProductEach
  <2> SUFFICES ASSUME RequestsInv, NEW p \in Made \ orphans, NEW q \in Made \ orphans,
                      product[p].request = product[q].request
               PROVE  p = q
    BY DEF OneProductEach
  <2>1. ASSUME NEW m \in Manager, Holds(m)
        PROVE  /\ Of(m) \in Request /\ Claimant(m, Of(m))
               /\ product[manager[m].product].request = Of(m)
    BY <2>1, OfIsRequest DEF RequestsInv, Types, HeldIsMade, Holds, Is, Claimant, Owning
  <2>2. ASSUME NEW s \in Made \ orphans
        PROVE  LET r == product[s].request
               IN  \/ \E m \in Manager : Holds(m) /\ manager[m].product = s /\ Claimant(m, r)
                   \/ created[r] = s /\ r \in Request /\ \A m \in Manager : ~ Claimant(m, r)
    <3>1. s # NoProduct
      BY NoProductAssumption DEF Made
    <3> QED BY <2>1, <3>1 DEF RequestsInv, MadeIsKept, LinkedIsThrough
  <2>3. ASSUME NEW m \in Manager, NEW n \in Manager, Holds(m), Holds(n),
               manager[m].product = p, manager[n].product = q
        PROVE  p = q
    BY <2>1, <2>3 DEF RequestsInv, OneClaimant
  <2> QED BY <2>2, <2>3
<1> QED BY <1>1, PRInvariant, PTL

(* A request that stands as APPROVED with nobody at it has its product,    *)
(* with its goods booked exactly once if the shelf is known, unless the    *)
(* claim of a broken approval could not be taken back.                     *)
THEOREM ApprovedOnShelf == Spec => []ApprovedIsOnShelf
<1>1. RequestsInv => ApprovedIsOnShelf
  <2> SUFFICES ASSUME RequestsInv, NEW r \in Request \ unsettled, status[r] = "APPROVED",
                      \A m \in Manager : Of(m) # r
               PROVE  created[r] \in Made /\ (r \in Located => stock[created[r]] = 1)
    BY DEF ApprovedIsOnShelf
  <2>1. \A m \in Manager : ~ Claimant(m, r)
    BY DEF Claimant
  <2> QED BY <2>1 DEF RequestsInv, ApprovedIsLinked, LinkedIsThrough
<1> QED BY <1>1, PRInvariant, PTL

(* The box that was scanned for a linked request belongs to a product,     *)
(* whichever of several requests for the box came first.                   *)
THEOREM BoxIsKnown == Spec => []ApprovedBoxIsKnown
<1>1. RequestsInv => ApprovedBoxIsKnown
  BY DEF RequestsInv, LinkedIsThrough, ApprovedBoxIsKnown
<1> QED BY <1>1, PRInvariant, PTL

(* The labels of a job come out once, unless a confirmation failed after   *)
(* the printer had them or two clerks were at the job at one time.         *)
THEOREM LabelsPrintedOnce == Spec => []PrintedOnce
<1>1. JobsInv => PrintedOnce
  BY DEF JobsInv
<1> QED BY <1>1, PRInvariant, PTL

(* A job in PROCESSING, which nobody else can confirm or cancel, has a     *)
(* clerk at work on it, unless its clerk was lost in the middle.           *)
THEOREM ProcessingServed == Spec => []ProcessingIsServed
<1>1. JobsInv => ProcessingIsServed
  BY DEF JobsInv
<1> QED BY <1>1, PRInvariant, PTL
=============================================================================
