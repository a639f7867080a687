--------------------------- MODULE BulkFlowProofs ---------------------------
(***************************************************************************)
(* Proofs about the toasts of jobs and about the bulk action that starts   *)
(* them, for any number of jobs, orders, pages and POSTs, any cap, lost    *)
(* connections and failing polls.  First JobToasts, alone; then BulkFlow,  *)
(* which adds the selection and the dialog to it.                          *)
(***************************************************************************)
EXTENDS BulkFlow, QueryProofs, FiniteSetTheorems

-----------------------------------------------------------------------------
(* JobToasts.                                                              *)

(* Only the toasts on the page poll, and a poll that has read is in flight. *)
PollsShown ==
    \A j \in Jobs : /\ poll[j].loading => j \in active
                    /\ read[j] # None => poll[j].loading

(* Its verdict was overwritten, and the event that is to tell of it is     *)
(* still to come, or was missed.                                           *)
Misled(j) == j \in overturned /\ (j \in settled => j \in event \cup missed)

(* What was read is the job's state still, or that it had not ended, or a  *)
(* verdict that was overwritten before its event.                          *)
ReadsRight ==
    \A j \in Jobs : read[j] \notin {None, job[j]} =>
        (read[j] = "processing" /\ j \notin terminal) \/ Misled(j)

(* A toast has a job, one that failed if its verdict was overwritten.      *)
JobsKnown == \A j \in active : job[j] # None /\ (j \in overturned => job[j] = "failed")

JobsInv == JobsTypeOK /\ SourceShared /\ ToastTruth /\ PollsShown /\ ReadsRight /\ JobsKnown

(* The toasts on the screen are finitely many.                             *)
LEMMA ActiveFinite ==
    ASSUME JobsTypeOK
    PROVE  IsFiniteSet(active) /\ Cardinality(active) \in Nat
BY JobsAssumption, FS_Subset, FS_CardinalityType DEF JobsTypeOK

(* Nothing runs and no EventSource is open.                                *)
LEMMA JobsInitInv == JobsInit => JobsInv
<1> SUFFICES ASSUME JobsInit PROVE JobsInv
  OBVIOUS
<1>1. JobsTypeOK
  BY LimitsAssumption, NewQueryFacts DEF JobsInit, JobsTypeOK
<1>2. SourceShared
  BY FS_EmptySet DEF JobsInit, SourceShared
<1>3. ToastTruth /\ PollsShown /\ ReadsRight /\ JobsKnown
  BY NewQueryFacts DEF JobsInit, ToastTruth, PollsShown, ReadsRight, JobsKnown
<1> QED
  BY <1>1, <1>2, <1>3 DEF JobsInv

(* A toast that comes: it counts once, listens, and begins to poll.        *)
LEMMA MountInv ==
    ASSUME JobsInv, NEW j \in Jobs, j \notin active, Mount(j),
           job' \in [Jobs -> JobStates \cup {None}], job'[j] # None,
           \A k \in Jobs \ {j} : job'[k] = job[k], UNCHANGED <<settled, overturned>>
    PROVE  JobsInv'
<1> USE DEF JobsInv
<1> DEFINE q == Fetch(NewQuery)
<1>1. q \in QueryType(JobStates, {"failed"}) /\ q.loading
  BY DEF Fetch, Send, NewQuery, QueryType, HasData
<1>2. poll' = [poll EXCEPT ![j] = q]
  BY DEF Mount
<1> HIDE DEF q
<1>a. JobsTypeOK'
  <2>1. poll' \in [Jobs -> QueryType(JobStates, {"failed"})]
    BY <1>1, <1>2 DEF JobsTypeOK
  <2>2. /\ active' \subseteq Jobs /\ listeners' \subseteq Jobs
        /\ refCount' \in Nat /\ source' \in {"none", "connecting", "open"}
        /\ terminal' \subseteq active' /\ interacted' \subseteq terminal'
    BY DEF JobsTypeOK, Mount, ensureSource
  <2>3. UNCHANGED <<read, event, drops, failures, settled, overturned, missed>> /\ active \subseteq active'
    BY DEF Mount
  <2> QED
    BY <2>1, <2>2, <2>3 DEF JobsTypeOK
<1>3. SourceShared'
  <2>1. Cardinality(active \cup {j}) = Cardinality(active) + 1
    BY ActiveFinite, FS_AddElement
  <2> QED
    BY <2>1 DEF SourceShared, Mount, ensureSource
<1>4. ToastTruth' /\ JobsKnown'
  BY <1>2 DEF ToastTruth, PutRight, JobsKnown, Mount, JobsTypeOK
<1>5. PollsShown'
  BY <1>1, <1>2 DEF PollsShown, Mount, JobsTypeOK
<1>6. ReadsRight'
  BY DEF ReadsRight, Misled, PollsShown, Mount, JobsTypeOK
<1> QED
  BY <1>a, <1>3, <1>4, <1>5, <1>6

(* Toasts that go.                                                         *)
LEMMA UnmountInv ==
    ASSUME JobsInv, NEW S \in SUBSET active, Unmount(S)
    PROVE  JobsInv'
<1> USE DEF JobsInv
<1>1. \A q \in QueryType(JobStates, {"failed"}) :
         Abandon(q) \in QueryType(JobStates, {"failed"}) /\ Abandon(q).data = q.data
           /\ ~Abandon(q).loading
  BY AbandonFacts
<1>2. /\ IsFiniteSet(active \ S) /\ refCount' = Cardinality(active \ S)
      /\ refCount' \in Nat
  <2>1. IsFiniteSet(active) /\ IsFiniteSet(S)
    BY ActiveFinite, FS_Subset
  <2>2. /\ IsFiniteSet(active \ S)
        /\ Cardinality(active \ S) = Cardinality(active) - Cardinality(active \cap S)
    BY <2>1, FS_Difference
  <2>3. active \cap S = S
    OBVIOUS
  <2>4. refCount' = refCount - Cardinality(S)
    BY DEF Unmount
  <2> QED
    BY <2>2, <2>3, <2>4, FS_CardinalityType DEF SourceShared
<1>3. refCount' = 0 <=> active \ S = {}
  BY <1>2, FS_EmptySet
<1>4. JobsTypeOK'
  BY <1>1, <1>2 DEF JobsTypeOK, Unmount, teardownIfIdle
<1>5. SourceShared'
  BY <1>2, <1>3 DEF SourceShared, Unmount, teardownIfIdle
<1>6. ToastTruth' /\ JobsKnown'
  BY <1>1, <1>3 DEF ToastTruth, PutRight, JobsKnown, Unmount, JobsTypeOK
<1>7. PollsShown'
  BY <1>1 DEF PollsShown, Unmount, JobsTypeOK
<1>8. ReadsRight'
  BY <1>3 DEF ReadsRight, Misled, PollsShown, Unmount, JobsTypeOK
<1> QED
  BY <1>4, <1>5, <1>6, <1>7, <1>8

(* An explanation that is opened, and the polls.                           *)
LEMMA OpenInv ==
    ASSUME JobsInv, NEW j \in Jobs, OpenExplanation(j)
    PROVE  JobsInv'
BY DEF JobsInv, OpenExplanation, streamVars, serverVars, JobsTypeOK, SourceShared, ToastTruth,
       PutRight, PollsShown, ReadsRight, Misled, JobsKnown

(* The poll interval of a toast elapses.                                   *)
LEMMA TickInv ==
    ASSUME JobsInv, NEW j \in Jobs, Tick(j)
    PROVE  JobsInv'
<1> USE DEF JobsInv
<1>1. /\ Fetch(poll[j]) \in QueryType(JobStates, {"failed"})
      /\ Fetch(poll[j]).loading /\ Fetch(poll[j]).data = poll[j].data
  BY FetchFacts DEF JobsTypeOK
<1>2. JobsTypeOK'
  BY <1>1 DEF Tick, streamVars, serverVars, JobsTypeOK
<1>3. SourceShared' /\ JobsKnown' /\ ReadsRight'
  BY DEF Tick, streamVars, serverVars, SourceShared, JobsKnown, ReadsRight, Misled
<1>4. ToastTruth' /\ PollsShown'
  BY <1>1 DEF Tick, Polls, streamVars, serverVars, ToastTruth, PutRight, PollsShown, JobsTypeOK
<1> QED
  BY <1>2, <1>3, <1>4

(* The host reads the job for a poll.                                      *)
LEMMA ReadInv ==
    ASSUME JobsInv, NEW j \in Jobs, ReadJob(j)
    PROVE  JobsInv'
BY DEF JobsInv, ReadJob, streamVars, serverVars, JobsTypeOK, SourceShared, ToastTruth,
       PutRight, PollsShown, ReadsRight, Misled, JobsKnown

(* The answer of a poll arrives at its toast.                              *)
LEMMA AnswerInv ==
    ASSUME JobsInv, NEW j \in Jobs, AnswerPoll(j)
    PROVE  JobsInv'
<1> USE DEF JobsInv
<1>1. /\ read[j] \in JobStates /\ j \in active
      /\ read[j] \in TERMINAL \/ j \in terminal => read[j] = job[j] \/ Misled(j)
      /\ read[j] \in TERMINAL \/ j \in terminal => job[j] \in TERMINAL
  BY DEF AnswerPoll, JobsTypeOK, PollsShown, ReadsRight, Misled, JobsKnown, ToastTruth, TERMINAL
<1>2. /\ Succeed(poll[j], read[j]) \in QueryType(JobStates, {"failed"})
      /\ ~Succeed(poll[j], read[j]).loading /\ Succeed(poll[j], read[j]).data = read[j]
  BY <1>1, SucceedFacts DEF JobsTypeOK
<1>3. JobsTypeOK'
  BY <1>1, <1>2 DEF AnswerPoll, streamVars, serverVars, JobsTypeOK
<1>4. SourceShared' /\ JobsKnown'
  BY DEF AnswerPoll, streamVars, serverVars, SourceShared, JobsKnown
<1>5. ToastTruth'
  BY <1>1, <1>2
     DEF AnswerPoll, streamVars, serverVars, IsTerminal, ToastTruth, PutRight, Misled, JobsTypeOK
<1>6. PollsShown' /\ ReadsRight'
  BY <1>2 DEF AnswerPoll, streamVars, serverVars, PollsShown, ReadsRight, Misled, JobsTypeOK
<1> QED
  BY <1>3, <1>4, <1>5, <1>6

(* A poll fails: it is tried again or the interval goes on.                *)
LEMMA PollFailsInv ==
    ASSUME JobsInv, NEW j \in Jobs, PollFails(j)
    PROVE  JobsInv'
<1> USE DEF JobsInv
<1> DEFINE old == poll[j]
           q == Fail(old, "failed", TRUE)
<1>0. old \in QueryType(JobStates, {"failed"}) /\ old.loading
  BY DEF PollFails, JobsTypeOK
<1>1. /\ q \in QueryType(JobStates, {"failed"})
      /\ q.data = poll[j].data /\ poll[j].loading /\ (q.loading \/ q.error # None)
  <2>1. /\ q \in QueryType(JobStates, {"failed"})
        /\ q.data = old.data /\ (q.loading \/ q.error # None)
    <3> HIDE DEF old
    <3> QED
      BY <1>0, NoneAssumption DEF Fail, MayRetry, QueryType, HasData
  <2> QED
    BY <1>0, <2>1
<1> HIDE DEF q
<1>2. /\ poll' = [poll EXCEPT ![j] = q] /\ read' = [read EXCEPT ![j] = None]
      /\ UNCHANGED <<active, terminal, interacted, streamVars, serverVars>>
      /\ failures' \in 0 .. MaxFailures
  BY LimitsAssumption DEF PollFails, q, JobsTypeOK
<1>3. JobsTypeOK'
  BY <1>1, <1>2 DEF streamVars, serverVars, JobsTypeOK
<1>4. SourceShared' /\ JobsKnown'
  BY <1>2 DEF streamVars, serverVars, SourceShared, JobsKnown
<1>5. ToastTruth'
  BY <1>1, <1>2 DEF streamVars, serverVars, ToastTruth, PutRight, JobsTypeOK
<1>6. PollsShown' /\ ReadsRight'
  BY <1>1, <1>2 DEF streamVars, serverVars, PollsShown, ReadsRight, Misled, JobsTypeOK
<1> QED
  BY <1>3, <1>4, <1>5, <1>6

(* The worker's verdict: no toast has seen an end of this job before.      *)
LEMMA VerdictInv ==
    ASSUME JobsInv, NEW j \in Jobs, Verdict(j)
    PROVE  JobsInv'
<1> USE DEF JobsInv
<1>1. PICK s \in TERMINAL : job' = [job EXCEPT ![j] = s]
  BY DEF Verdict
<1>2. j \notin terminal /\ s # None
  BY NoneAssumption DEF Verdict, ToastTruth, TERMINAL, JobStates
<1>a. j \notin overturned
  BY DEF Verdict, JobsKnown, JobsTypeOK
<1>3. JobsTypeOK'
  BY <1>1 DEF Verdict, toastVars, streamVars, JobsTypeOK, JobStates
<1>4. SourceShared' /\ PollsShown'
  BY DEF Verdict, toastVars, streamVars, SourceShared, PollsShown
<1>5. ToastTruth' /\ JobsKnown'
  BY <1>1, <1>2, <1>a DEF Verdict, toastVars, streamVars, ToastTruth, PutRight, JobsKnown, JobsTypeOK
<1>6. ReadsRight'
  BY <1>1, <1>2 DEF Verdict, toastVars, streamVars, ReadsRight, Misled, JobsTypeOK
<1> QED
  BY <1>3, <1>4, <1>5, <1>6

(* The catch: whoever has read the verdict it overwrites is misled, for    *)
(* the job was not settled.                                                *)
LEMMA RescueInv ==
    ASSUME JobsInv, NEW j \in Jobs, Rescue(j)
    PROVE  JobsInv'
<1> USE DEF JobsInv
<1>1. /\ job' = [job EXCEPT ![j] = "failed"] /\ j \notin settled
      /\ UNCHANGED <<toastVars, streamVars, settled, failures>>
      /\ overturned \subseteq overturned' /\ overturned' \subseteq overturned \cup ({j} \cap active)
      /\ job[j] = "completed" /\ j \in active => j \in overturned'
      /\ job[j] \in {"processing", "completed"}
  BY DEF Rescue
<1>2. "failed" \in TERMINAL /\ "failed" # None /\ "processing" \notin TERMINAL
  BY NoneAssumption DEF TERMINAL, JobStates
<1>3. JobsTypeOK'
  BY <1>1, <1>2 DEF toastVars, streamVars, JobsTypeOK, JobStates
<1>4. SourceShared' /\ PollsShown'
  BY <1>1 DEF toastVars, streamVars, SourceShared, PollsShown
<1>5. ToastTruth' /\ JobsKnown'
  <2>1. j \in terminal => j \in overturned'
    BY <1>1, <1>2 DEF ToastTruth, JobsTypeOK
  <2>2. \A k \in Jobs \ {j} : job'[k] = job[k] /\ (k \in overturned' <=> k \in overturned)
    BY <1>1 DEF JobsTypeOK
  <2>3. job'[j] = "failed"
    BY <1>1 DEF JobsTypeOK
  <2> QED
    BY <1>1, <1>2, <2>1, <2>2, <2>3
       DEF toastVars, streamVars, ToastTruth, PutRight, JobsKnown, JobsTypeOK
<1>6. ReadsRight'
  <2>1. read[j] # None => j \in active
    BY DEF PollsShown
  <2>2. job[j] = "processing" => j \notin terminal
    BY <1>2 DEF ToastTruth
  <2> QED
    BY <1>1, <2>1, <2>2 DEF toastVars, streamVars, ReadsRight, Misled, JobsTypeOK
<1> QED
  BY <1>3, <1>4, <1>5, <1>6

(* The event: it is on its way to the toast of the job, or it is missed.   *)
LEMMA AnnounceInv ==
    ASSUME JobsInv, NEW j \in Jobs, Announce(j)
    PROVE  JobsInv'
<1> USE DEF JobsInv
<1>1. /\ UNCHANGED <<toastVars, refCount, listeners, source, drops, job, overturned, failures>>
      /\ settled' = settled \cup {j}
      /\ event \subseteq event' /\ event' \subseteq event \cup {j}
      /\ missed \subseteq missed' /\ missed' \subseteq missed \cup ({j} \cap active)
      /\ j \in active => j \in event' \cup missed'
  BY DEF Announce
<1>2. JobsTypeOK'
  BY <1>1 DEF toastVars, JobsTypeOK
<1>3. SourceShared' /\ PollsShown' /\ JobsKnown'
  BY <1>1 DEF toastVars, SourceShared, PollsShown, JobsKnown
<1>4. ToastTruth'
  BY <1>1 DEF toastVars, ToastTruth, PutRight, JobsTypeOK
<1>5. ReadsRight'
  BY <1>1 DEF toastVars, PollsShown, ReadsRight, Misled
<1> QED
  BY <1>2, <1>3, <1>4, <1>5

(* The EventSource connects, or loses its connection.                      *)
LEMMA ConnectionInv ==
    ASSUME JobsInv, Connect \/ Drop
    PROVE  JobsInv'
<1>1. CASE Connect
  BY <1>1 DEF JobsInv, Connect, toastVars, serverVars, JobsTypeOK, SourceShared, ToastTruth,
              PutRight, PollsShown, ReadsRight, Misled, JobsKnown
<1>2. CASE Drop
  BY <1>2, LimitsAssumption
     DEF JobsInv, Drop, toastVars, serverVars, JobsTypeOK, SourceShared, ToastTruth,
         PutRight, PollsShown, ReadsRight, Misled, JobsKnown
<1> QED
  BY <1>1, <1>2

(* A bulk_completed arrives and asks for the job at once.                  *)
LEMMA DeliverInv ==
    ASSUME JobsInv, NEW j \in Jobs, Deliver(j)
    PROVE  JobsInv'
<1> USE DEF JobsInv
<1>1. /\ Refetch(poll[j]) \in QueryType(JobStates, {"failed"})
      /\ Refetch(poll[j]).data = poll[j].data /\ Refetch(poll[j]).loading
  BY RefetchFacts DEF JobsTypeOK
<1>2. /\ UNCHANGED <<active, terminal, interacted, refCount, listeners, source, drops, serverVars, failures>>
      /\ event' = event \ {j} /\ missed \subseteq missed' /\ missed' \subseteq missed \cup {j}
  BY DEF Deliver
<1>3. CASE j \in active
  <2>1. /\ poll' = [poll EXCEPT ![j] = Refetch(poll[j])]
        /\ read' = [read EXCEPT ![j] = IF Restarts(poll[j]) THEN None ELSE @]
        /\ Restarts(poll[j]) \/ j \in missed'
    BY <1>3 DEF Deliver, onCompleted, SourceShared
  <2>2. JobsTypeOK'
    BY <1>1, <1>2, <1>3, <2>1 DEF serverVars, JobsTypeOK
  <2>3. SourceShared' /\ JobsKnown' /\ PollsShown'
    BY <1>1, <1>2, <1>3, <2>1 DEF serverVars, SourceShared, JobsKnown, PollsShown, JobsTypeOK
  <2>4. ToastTruth'
    BY <1>1, <1>2, <2>1 DEF serverVars, ToastTruth, PutRight, JobsTypeOK
  <2>5. ReadsRight'
    BY <1>2, <2>1 DEF serverVars, ReadsRight, Misled, JobsTypeOK
  <2> QED
    BY <2>2, <2>3, <2>4, <2>5
<1>4. CASE j \notin active
  <2>1. UNCHANGED <<poll, read, missed>> /\ read[j] = None
    BY <1>4 DEF Deliver, SourceShared, Restarts, PollsShown
  <2> QED
    BY <1>2, <1>4, <2>1
       DEF serverVars, JobsTypeOK, SourceShared, JobsKnown, PollsShown, ToastTruth, PutRight,
           ReadsRight, Misled
<1> QED
  BY <1>3, <1>4

(* Every step of a toast, its query, its job and its connection.           *)
LEMMA ToastStepInv ==
    ASSUME JobsInv, NEW j \in Jobs, ToastStep(j)
    PROVE  JobsInv'
<1>1. CASE Dismiss(j) \/ AutoDismiss(j)
  <2>1. {j} \in SUBSET active /\ Unmount({j})
    BY <1>1 DEF Dismiss, AutoDismiss, JobsInv, JobsTypeOK
  <2> QED
    BY <2>1, UnmountInv
<1>2. CASE OpenExplanation(j)
  BY <1>2, OpenInv
<1>3. CASE Tick(j)
  BY <1>3, TickInv
<1>4. CASE Polling(j)
  BY <1>4, ReadInv, AnswerInv, PollFailsInv DEF Polling
<1>5. CASE JobAdvances(j) \/ Rescue(j)
  BY <1>5, VerdictInv, AnnounceInv, RescueInv DEF JobAdvances
<1>6. CASE Deliver(j)
  BY <1>6, DeliverInv
<1> QED
  BY <1>1, <1>2, <1>3, <1>4, <1>5, <1>6 DEF ToastStep

(* A job of this page starts and its toast is mounted.                     *)
LEMMA StartInv ==
    ASSUME JobsInv, NEW j \in Jobs, Start(j)
    PROVE  JobsInv'
<1>1. job' = [job EXCEPT ![j] = "processing"] /\ "processing" \in JobStates
  BY DEF Start, JobStates
<1>2. Mount(j) /\ j \notin active /\ UNCHANGED <<settled, overturned>>
  BY DEF Start, JobsInv, JobsKnown
<1>3. /\ job' \in [Jobs -> JobStates \cup {None}] /\ job'[j] # None
      /\ \A k \in Jobs \ {j} : job'[k] = job[k]
  BY <1>1, NoneAssumption DEF JobsInv, JobsTypeOK
<1> QED
  BY <1>2, <1>3, MountInv

(* Every step keeps the invariant.                                         *)
LEMMA JobsStepInv == JobsInv /\ [Next]_jobVars => JobsInv'
<1> SUFFICES ASSUME JobsInv, [Next]_jobVars PROVE JobsInv'
  OBVIOUS
<1>1. ASSUME NEW j \in Jobs, Start(j) \/ ToastStep(j) PROVE JobsInv'
  BY <1>1, StartInv, ToastStepInv
<1>2. CASE LeavePage
  BY <1>2, UnmountInv DEF LeavePage
<1>3. CASE Connect \/ Drop
  BY <1>3, ConnectionInv
<1>4. CASE UNCHANGED jobVars
  BY <1>4 DEF jobVars, toastVars, streamVars, serverVars, JobsInv, JobsTypeOK, SourceShared,
              ToastTruth, PutRight, PollsShown, ReadsRight, Misled, JobsKnown
<1> QED
  BY <1>1, <1>2, <1>3, <1>4 DEF Next

(* The inductive invariant: besides the two properties, that only toasts   *)
(* on the page poll and that what a poll has read can only have got older  *)
(* while its job had not ended, or when the catch overwrote it and the     *)
(* event of the job is still to come or was missed.                        *)
THEOREM JobsInvariant == Spec => []JobsInv
<1>1. Init => JobsInv
  BY JobsInitInv DEF Init
<1> QED
  BY <1>1, JobsStepInv, PTL DEF Spec

(* However toasts come and go, the EventSource is there exactly while one  *)
(* is, counts them and calls each of them (useBulkJobEvents.ts).           *)
THEOREM SourceIsShared == Spec => []SourceShared
<1>1. JobsInv => SourceShared
  BY DEF JobsInv
<1> QED
  BY <1>1, JobsInvariant, PTL

(* A toast stops polling only with a verdict of its job, and shows another *)
(* than the last only if the worker's catch overwrote it: until the event  *)
(* has come and its refetch has succeeded, and after that only if the      *)
(* event was lost or joined the first poll (BulkJobToast.tsx,              *)
(* BulkWorker.cs).                                                         *)
THEOREM ToastsTellTheTruth == Spec => []ToastTruth
<1>1. JobsInv => ToastTruth
  BY DEF JobsInv
<1> QED
  BY <1>1, JobsInvariant, PTL

(* Only its delivery takes an event from a source that stays open.         *)
LEMMA DeliverOnly ==
    ASSUME JobsInv, Next, NEW j \in Jobs, j \in event, j \notin event', source' = "open"
    PROVE  \E k \in Jobs : Deliver(k)
<1>1. ASSUME NEW S \in SUBSET active, Unmount(S) PROVE FALSE
  BY <1>1 DEF Unmount, teardownIfIdle
<1>2. ASSUME NEW k \in Jobs, Start(k) PROVE FALSE
  BY <1>2 DEF Start, Mount
<1>3. ASSUME NEW k \in Jobs, ToastStep(k) PROVE Deliver(k)
  <2>1. Dismiss(k) \/ AutoDismiss(k) => \E S \in SUBSET active : Unmount(S)
    <3>1. {k} \in SUBSET active <=> k \in active
      OBVIOUS
    <3> QED
      BY <3>1 DEF Dismiss, AutoDismiss, JobsInv, JobsTypeOK
  <2>2. ~OpenExplanation(k) /\ ~Tick(k) /\ ~Polling(k)
    BY DEF OpenExplanation, Tick, Polling, ReadJob, AnswerPoll, PollFails, streamVars
  <2>3. ~JobAdvances(k) /\ ~Rescue(k)
    BY DEF JobAdvances, Verdict, Announce, Rescue, streamVars
  <2> QED
    BY <1>1, <1>3, <2>1, <2>2, <2>3 DEF ToastStep
<1>4. ~LeavePage
  BY <1>1 DEF LeavePage
<1>5. ~Connect /\ ~Drop
  BY DEF Connect, Drop
<1> QED
  BY <1>2, <1>3, <1>4, <1>5 DEF Next

(* An event that finds data is not outrun by an answer read before the     *)
(* end, or of a verdict overwritten since: its refetch throws it away.     *)
THEOREM EventsAreNotOutrun == Spec => EventNotOutrun
<1> DEFINE A == \A j \in active : Delivered(j) /\ HasData(poll[j]) => read'[j] \in {None, job[j]}
<1>1. JobsInv /\ [Next]_jobVars => [A]_jobVars
  <2> SUFFICES ASSUME JobsInv, Next,
                      NEW j \in active, Delivered(j), HasData(poll[j])
               PROVE  read'[j] \in {None, job[j]}
    OBVIOUS
  <2>0. j \in Jobs /\ j \in event /\ j \notin event' /\ source' = "open"
    BY DEF Delivered, JobsInv, JobsTypeOK
  <2>1. PICK k \in Jobs : Deliver(k)
    BY <2>0, DeliverOnly
  <2>2. k = j
    BY <2>0, <2>1 DEF Deliver
  <2>3. read'[j] = None
    BY <2>0, <2>1, <2>2 DEF Deliver, onCompleted, Restarts, JobsInv, JobsTypeOK, SourceShared
  <2> QED
    BY <2>3
<1>2. []JobsInv /\ [][Next]_jobVars => [][A]_jobVars
  BY <1>1, PTL
<1> QED
  BY <1>2, JobsInvariant, PTL DEF Spec, EventNotOutrun

-----------------------------------------------------------------------------
(* BulkFlow.                                                               *)

(* A job comes with the acceptance of its POST, its toast with the answer. *)
PostsFollowed ==
    \A j \in Jobs : /\ post[j] \in {"unused", "sent"} => job[j] = None
                    /\ post[j] = "accepted" => job[j] # None
                    /\ post[j] # "answered" => j \notin active

(* Nothing of a page that was left is there when it comes back.            *)
LeftEmpty == ~onPage => selected = {} /\ ~pending /\ busy = None /\ mine = {} /\ ~behind

(* The dialog that was not gone behind: it is open for what is selected,   *)
(* and waits for the only POST of the page that is in flight.              *)
OneSubmission ==
    /\ pending => onPage /\ selected # {} /\ selected = seen
    /\ busy = None => InFlight = {}
    /\ busy # None => /\ pending /\ InFlight = {busy} /\ body[busy] = seen
                      /\ Cardinality(body[busy]) \in 1 .. BULK_MAX_BATCH

FlowInv == FlowTypeOK /\ JobsInv /\ PostsFollowed /\ LeftEmpty /\ (behind \/ OneSubmission)

(* A selection is finite, and one within the limit is a job's size.        *)
LEMMA SelectionFinite ==
    ASSUME NEW S \in SUBSET Ids
    PROVE  /\ IsFiniteSet(S) /\ Cardinality(S) \in Nat
           /\ S # {} /\ Cardinality(S) <= BULK_MAX_BATCH => Cardinality(S) \in 1 .. BULK_MAX_BATCH
<1>1. IsFiniteSet(S) /\ Cardinality(S) \in Nat
  BY SelectionAssumption, FS_Subset, FS_CardinalityType
<1>2. Cardinality(S) = 0 <=> S = {}
  BY <1>1, FS_EmptySet
<1> QED
  BY <1>1, <1>2, SelectionAssumption

(* The page starts with nothing selected and no dialog.                    *)
LEMMA FlowInitInv == FlowInit => FlowInv
<1> SUFFICES ASSUME FlowInit PROVE FlowInv
  OBVIOUS
<1>1. JobsInv
  BY JobsInitInv DEF FlowInit
<1>2. FlowTypeOK
  <2>1. acts \in 0 .. MaxActs /\ leaves \in 0 .. MaxLeaves
    BY SelectionAssumption DEF FlowInit
  <2>2. /\ post \in [Jobs -> {"unused", "sent", "accepted", "answered", "failed"}]
        /\ body \in [Jobs -> SUBSET Ids]
    BY DEF FlowInit
  <2> QED
    BY <1>1, <2>1, <2>2 DEF FlowInit, FlowTypeOK, JobsInv
<1>3. PostsFollowed
  BY DEF FlowInit, PostsFollowed, JobsInit
<1>4. LeftEmpty /\ OneSubmission
  BY DEF FlowInit, LeftEmpty, OneSubmission, InFlight
<1> QED
  BY <1>1, <1>2, <1>3, <1>4 DEF FlowInv

(* Steps that leave the toasts and the jobs alone.                         *)
LEMMA JobsAlone ==
    ASSUME FlowInv, UNCHANGED jobVars
    PROVE  JobsInv'
BY JobsStepInv DEF FlowInv

(* The page is used: behind the dialog, or without one.                    *)
LEMMA ActFacts ==
    ASSUME FlowInv, Act
    PROVE  /\ acts' \in 0 .. MaxActs /\ onPage /\ behind' \in BOOLEAN
           /\ behind' \/ (~behind /\ ~pending /\ busy = None /\ InFlight = {})
BY SelectionAssumption DEF Act, FlowInv, FlowTypeOK, OneSubmission, Dialog, Bar

(* Changing the selection is done with no dialog open.                     *)
LEMMA SelectInv ==
    ASSUME FlowInv, Act, NEW S \in SUBSET Ids, Select(S)
    PROVE  FlowInv'
<1> USE DEF FlowInv
<1>0. UNCHANGED jobVars /\ UNCHANGED posts
  BY DEF Select
<1>1. JobsInv'
  BY <1>0, JobsAlone
<1>2. FlowTypeOK'
  BY <1>1, ActFacts DEF JobsInv, FlowTypeOK, Select, posts
<1>3. PostsFollowed'
  BY <1>0 DEF PostsFollowed, posts, jobVars, toastVars, serverVars
<1>4. LeftEmpty'
  BY ActFacts DEF LeftEmpty, Select
<1>5. (behind \/ OneSubmission)'
  BY ActFacts DEF OneSubmission, Select, posts, InFlight
<1> QED
  BY <1>1, <1>2, <1>3, <1>4, <1>5

(* Each of the user's acts on the list, and the opening of the dialog.     *)
LEMMA ActsInv ==
    ASSUME FlowInv, ToggleRow \/ ToggleHeader \/ ClearSelection \/ TurnPage \/ OpenDialog
    PROVE  FlowInv'
<1> USE DEF FlowInv
<1>0. selected \subseteq Ids /\ pageIds \subseteq Ids
  BY SelectionAssumption DEF FlowTypeOK
<1>1. CASE ToggleRow
  <2>1. PICK i \in pageIds :
           Act /\ Select(IF i \in selected THEN selected \ {i} ELSE selected \cup {i})
    BY <1>1 DEF ToggleRow
  <2> QED
    BY <1>0, <2>1, SelectInv
<1>2. CASE ToggleHeader
  BY <1>0, <1>2, SelectInv DEF ToggleHeader
<1>3. CASE ClearSelection
  BY <1>3, SelectInv DEF ClearSelection
<1>4. CASE TurnPage
  <2>0. Act /\ UNCHANGED jobVars /\ pageIds' \in Pages
    BY <1>4 DEF TurnPage
  <2>1. JobsInv'
    BY <2>0, JobsAlone
  <2>2. FlowTypeOK' /\ LeftEmpty'
    BY <1>4, <2>0, <2>1, ActFacts DEF JobsInv, FlowTypeOK, LeftEmpty, TurnPage, posts
  <2>3. PostsFollowed'
    BY <1>4 DEF PostsFollowed, TurnPage, posts, jobVars, toastVars, serverVars
  <2>4. (behind \/ OneSubmission)'
    BY <1>4, <2>0, ActFacts DEF OneSubmission, TurnPage, posts, InFlight
  <2> QED
    BY <2>1, <2>2, <2>3, <2>4
<1>5. CASE OpenDialog
  <2>0. Act /\ UNCHANGED jobVars /\ UNCHANGED posts
    BY <1>5 DEF OpenDialog
  <2>1. JobsInv'
    BY <2>0, JobsAlone
  <2>2. FlowTypeOK' /\ LeftEmpty'
    BY <1>5, <2>0, <2>1, ActFacts DEF JobsInv, FlowTypeOK, LeftEmpty, OpenDialog, posts
  <2>3. PostsFollowed'
    BY <2>0 DEF PostsFollowed, posts, jobVars, toastVars, serverVars
  <2>4. (behind \/ OneSubmission)'
    BY <1>5, <2>0, ActFacts DEF OneSubmission, OpenDialog, Bar, posts, InFlight
  <2> QED
    BY <2>1, <2>2, <2>3, <2>4
<1> QED
  BY <1>1, <1>2, <1>3, <1>4, <1>5

(* Cancelling the dialog is refused while its POST is pending.             *)
LEMMA CloseInv ==
    ASSUME FlowInv, CloseDialog
    PROVE  FlowInv'
<1> USE DEF FlowInv
<1>1. JobsInv'
  BY JobsAlone DEF CloseDialog
<1>2. FlowTypeOK' /\ LeftEmpty'
  BY <1>1 DEF JobsInv, FlowTypeOK, LeftEmpty, CloseDialog, posts
<1>3. PostsFollowed'
  BY DEF PostsFollowed, CloseDialog, posts, jobVars, toastVars, serverVars
<1>4. (behind \/ OneSubmission)'
  BY DEF OneSubmission, CloseDialog, Closable, posts, InFlight
<1> QED
  BY <1>1, <1>2, <1>3, <1>4

(* The POST is sent for what is selected, which is what the dialog was     *)
(* opened for, and none of this page is in flight.                         *)
LEMMA ConfirmInv ==
    ASSUME FlowInv, NEW j \in Jobs, Confirm(j)
    PROVE  FlowInv'
<1> USE DEF FlowInv
<1>1. JobsInv'
  BY JobsAlone DEF Confirm
<1>2. FlowTypeOK'
  BY <1>1 DEF JobsInv, FlowTypeOK, Confirm
<1>3. PostsFollowed' /\ LeftEmpty'
  BY DEF PostsFollowed, LeftEmpty, Confirm, Dialog, Bar, jobVars, toastVars, serverVars, FlowTypeOK
<1>4. ASSUME ~behind PROVE OneSubmission'
  <2>1. /\ busy = None /\ InFlight = {} /\ selected = seen
        /\ Cardinality(selected) \in 1 .. BULK_MAX_BATCH
    <3>1. selected \subseteq Ids /\ selected # {} /\ ~(Cardinality(selected) > BULK_MAX_BATCH)
      BY DEF FlowTypeOK, Confirm, Disabled, overCap
    <3>2. Cardinality(selected) \in 1 .. BULK_MAX_BATCH
      BY <3>1, SelectionFinite, SelectionAssumption
    <3> QED
      BY <1>4, <3>2 DEF OneSubmission, Confirm, Disabled, Dialog
  <2>2. /\ busy' = j /\ j # None /\ body'[j] = selected /\ UNCHANGED <<onPage, selected, pending, seen>>
        /\ pending /\ onPage /\ selected # {}
    BY SelectionAssumption DEF FlowTypeOK, Confirm, Dialog, Bar
  <2>3. InFlight' = {j}
    BY <2>1 DEF InFlight, Confirm, FlowTypeOK
  <2> QED
    BY <2>1, <2>2, <2>3 DEF OneSubmission
<1> QED
  BY <1>1, <1>2, <1>3, <1>4 DEF Confirm

(* The host accepts the ids as they were submitted.                        *)
LEMMA AcceptInv ==
    ASSUME FlowInv, NEW j \in Jobs, Accept(j)
    PROVE  FlowInv'
<1> USE DEF FlowInv
<1>0. /\ job[j] = None /\ j \notin active /\ read[j] = None /\ ~poll[j].loading
      /\ job' = [job EXCEPT ![j] = "processing"]
      /\ UNCHANGED <<toastVars, streamVars, settled, overturned, failures>>
  BY DEF Accept, PostsFollowed, JobsInv, JobsTypeOK, PollsShown
<1>1. JobsInv'
  <2> USE DEF JobsInv
  <2>1. JobsTypeOK'
    BY <1>0 DEF JobsTypeOK, JobStates, toastVars, streamVars
  <2>2. SourceShared' /\ PollsShown'
    BY <1>0 DEF SourceShared, PollsShown, toastVars, streamVars
  <2>3. ToastTruth' /\ JobsKnown' /\ ReadsRight'
    BY <1>0 DEF ToastTruth, PutRight, JobsKnown, ReadsRight, Misled, JobsTypeOK, toastVars, streamVars
  <2> QED
    BY <2>1, <2>2, <2>3
<1>2. FlowTypeOK'
  BY <1>1 DEF JobsInv, FlowTypeOK, Accept, screen
<1>3. PostsFollowed'
  BY <1>0, NoneAssumption DEF PostsFollowed, Accept, toastVars, FlowTypeOK, JobsTypeOK, JobStates
<1>4. LeftEmpty'
  BY DEF LeftEmpty, Accept, screen
<1>5. InFlight' = InFlight
  BY DEF InFlight, Accept, FlowTypeOK
<1>6. (behind \/ OneSubmission)'
  BY <1>5 DEF OneSubmission, Accept, screen
<1> QED
  BY <1>1, <1>2, <1>3, <1>4, <1>6

(* The answer takes the submitted ids from the selection and shows the     *)
(* toast.                                                                  *)
LEMMA PostAnsweredInv ==
    ASSUME FlowInv, NEW j \in Jobs, PostAnswered(j)
    PROVE  FlowInv'
<1> USE DEF FlowInv
<1>0. /\ job[j] # None /\ j \notin active /\ post' = [post EXCEPT ![j] = "answered"]
      /\ post[j] = "accepted" /\ UNCHANGED <<onPage, pageIds, seen, behind, body, mine, acts, leaves>>
  BY DEF PostAnswered, PostsFollowed
<1>1. CASE j \in mine
  <2>0. /\ pending' = FALSE /\ selected' = {} /\ busy' = None /\ Mount(j) /\ UNCHANGED serverVars
    BY <1>1 DEF PostAnswered
  <2>1. JobsInv'
    BY <1>0, <2>0, MountInv DEF JobsInv, JobsTypeOK, serverVars
  <2>2. FlowTypeOK' /\ LeftEmpty'
    BY <1>0, <2>0, <2>1 DEF JobsInv, FlowTypeOK, LeftEmpty
  <2>3. PostsFollowed'
    BY <1>0, <2>0 DEF PostsFollowed, FlowTypeOK, Mount, serverVars
  <2>4. ASSUME ~behind PROVE OneSubmission'
    <3>1. j \in InFlight
      BY <1>0, <1>1 DEF InFlight
    <3>2. InFlight = {j}
      BY <2>4, <3>1 DEF OneSubmission
    <3>3. InFlight' = {}
      BY <1>0, <3>2 DEF InFlight, FlowTypeOK
    <3> QED
      BY <2>0, <3>3 DEF OneSubmission
  <2> QED
    BY <1>0, <2>1, <2>2, <2>3, <2>4
<1>2. CASE j \notin mine
  <2>0. UNCHANGED <<pending, selected, busy, jobVars>>
    BY <1>2 DEF PostAnswered
  <2>1. JobsInv'
    BY <2>0, JobsAlone
  <2>2. FlowTypeOK' /\ LeftEmpty'
    BY <1>0, <2>0, <2>1 DEF JobsInv, FlowTypeOK, LeftEmpty
  <2>3. PostsFollowed'
    BY <1>0, <2>0 DEF PostsFollowed, FlowTypeOK, jobVars, toastVars, serverVars
  <2>4. InFlight' = InFlight
    BY <1>0, <1>2 DEF InFlight, FlowTypeOK
  <2>5. (behind \/ OneSubmission)'
    BY <1>0, <2>0, <2>4 DEF OneSubmission
  <2> QED
    BY <2>1, <2>2, <2>3, <2>5
<1> QED
  BY <1>1, <1>2

(* A POST that fails leaves the dialog and the selection as they are.      *)
LEMMA PostFailsInv ==
    ASSUME FlowInv, NEW j \in Jobs, PostFails(j)
    PROVE  FlowInv'
<1> USE DEF FlowInv
<1>0. /\ failures' \in 0 .. MaxFailures /\ UNCHANGED <<toastVars, streamVars, serverVars>>
      /\ post[j] \in {"sent", "accepted"} /\ post' = [post EXCEPT ![j] = "failed"]
      /\ busy' = IF busy = j THEN None ELSE busy
      /\ UNCHANGED <<onPage, pageIds, selected, pending, seen, behind, body, mine, acts, leaves>>
  BY LimitsAssumption DEF PostFails, FlowTypeOK, JobsTypeOK
<1>1. JobsInv'
  BY <1>0 DEF JobsInv, JobsTypeOK, SourceShared, ToastTruth, PutRight, PollsShown, ReadsRight,
              Misled, JobsKnown, toastVars, streamVars, serverVars
<1>2. FlowTypeOK' /\ LeftEmpty'
  BY <1>0, <1>1 DEF JobsInv, FlowTypeOK, LeftEmpty
<1>3. PostsFollowed'
  BY <1>0 DEF PostsFollowed, FlowTypeOK, toastVars, serverVars
<1>4. ASSUME ~behind PROVE OneSubmission'
  <2>1. InFlight' = InFlight \ {j}
    BY <1>0 DEF InFlight, FlowTypeOK
  <2>2. CASE busy = j
    BY <1>0, <1>4, <2>1, <2>2 DEF OneSubmission
  <2>3. CASE busy # j
    BY <1>0, <1>4, <2>1, <2>3 DEF OneSubmission
  <2> QED
    BY <2>2, <2>3
<1> QED
  BY <1>0, <1>1, <1>2, <1>3, <1>4

(* Leaving drops the page's state; its POST may still be in flight.        *)
LEMMA LeaveInv ==
    ASSUME FlowInv, LeaveOrders \/ Return
    PROVE  FlowInv'
<1> USE DEF FlowInv
<1>1. CASE LeaveOrders
  <2>0. Unmount(active) /\ leaves' \in 0 .. MaxLeaves
    BY <1>1, SelectionAssumption DEF LeaveOrders, FlowTypeOK
  <2>1. JobsInv'
    BY <2>0, UnmountInv
  <2>2. FlowTypeOK' /\ LeftEmpty'
    BY <1>1, <2>0, <2>1 DEF JobsInv, FlowTypeOK, LeftEmpty, LeaveOrders
  <2>3. PostsFollowed'
    BY <1>1, <2>0 DEF PostsFollowed, LeaveOrders, Unmount
  <2>4. OneSubmission'
    BY <1>1 DEF OneSubmission, LeaveOrders, InFlight
  <2> QED
    BY <2>1, <2>2, <2>3, <2>4
<1>2. CASE Return
  <2>1. JobsInv'
    BY <1>2, JobsAlone DEF Return
  <2>2. FlowTypeOK' /\ LeftEmpty'
    BY <1>2, <2>1 DEF JobsInv, FlowTypeOK, LeftEmpty, Return, posts
  <2>3. PostsFollowed'
    BY <1>2 DEF PostsFollowed, Return, posts, jobVars, toastVars, serverVars
  <2>4. (behind \/ OneSubmission)'
    BY <1>2 DEF OneSubmission, Return, posts, InFlight, LeftEmpty
  <2> QED
    BY <2>1, <2>2, <2>3, <2>4
<1> QED
  BY <1>1, <1>2

(* What the toasts, the jobs and the connection do.                        *)
LEMMA FollowInv ==
    ASSUME FlowInv, FollowJobs, UNCHANGED flowVars
    PROVE  FlowInv'
<1> USE DEF FlowInv
<1>1. JobsInv'
  BY ToastStepInv, ConnectionInv DEF FollowJobs
<1>2. FlowTypeOK' /\ LeftEmpty'
  BY <1>1 DEF JobsInv, FlowTypeOK, LeftEmpty, flowVars, screen, posts
<1>3. active' \subseteq active /\ \A j \in Jobs : job'[j] = None <=> job[j] = None
  <2>1. ASSUME NEW k \in Jobs, ToastStep(k)
        PROVE  active' \subseteq active /\ \A j \in Jobs : job'[j] = None <=> job[j] = None
    <3>1. CASE Dismiss(k) \/ AutoDismiss(k)
      BY <3>1 DEF Dismiss, AutoDismiss, Unmount
    <3>2. CASE OpenExplanation(k) \/ Tick(k) \/ Polling(k) \/ Deliver(k) \/ Announce(k)
      BY <3>2 DEF OpenExplanation, Tick, Polling, ReadJob, AnswerPoll, PollFails, Deliver, Announce,
                  toastVars, serverVars
    <3>3. CASE Verdict(k) \/ Rescue(k)
      <4>1. PICK s \in TERMINAL : job' = [job EXCEPT ![k] = s]
        BY <3>3 DEF Verdict, Rescue, TERMINAL
      <4>2. s # None /\ job[k] # None
        BY <3>3, NoneAssumption DEF Verdict, Rescue, JobStates, TERMINAL
      <4> QED
        BY <3>3, <4>1, <4>2 DEF Verdict, Rescue, toastVars, JobsInv, JobsTypeOK
    <3> QED
      BY <2>1, <3>1, <3>2, <3>3 DEF ToastStep, JobAdvances
  <2>2. CASE Connect \/ Drop
    BY <2>2 DEF Connect, Drop, toastVars, serverVars
  <2> QED
    BY <2>1, <2>2 DEF FollowJobs
<1>4. PostsFollowed'
  BY <1>3 DEF PostsFollowed, flowVars, posts
<1>5. (behind \/ OneSubmission)'
  BY DEF OneSubmission, flowVars, screen, posts, InFlight
<1> QED
  BY <1>1, <1>2, <1>4, <1>5

(* Every step keeps the invariant.                                         *)
LEMMA FlowStepInv == FlowInv /\ [FlowNext]_vars => FlowInv'
<1> SUFFICES ASSUME FlowInv, [FlowNext]_vars PROVE FlowInv'
  OBVIOUS
<1>1. ASSUME NEW j \in Jobs, Confirm(j) \/ Accept(j) \/ PostAnswered(j) \/ PostFails(j)
      PROVE  FlowInv'
  BY <1>1, ConfirmInv, AcceptInv, PostAnsweredInv, PostFailsInv
<1>2. CASE UNCHANGED vars
  <2>1. JobsInv'
    BY <1>2, JobsAlone DEF vars
  <2> QED
    BY <1>2, <2>1 DEF vars, flowVars, screen, posts, jobVars, toastVars, serverVars, FlowInv, FlowTypeOK,
                      JobsInv, PostsFollowed, LeftEmpty, OneSubmission, InFlight
<1> QED
  BY <1>1, <1>2, ActsInv, CloseInv, LeaveInv, FollowInv DEF FlowNext

(* The inductive invariant: that of the toasts, which POSTs have a job and *)
(* a toast, and that an undisturbed dialog is open for what is selected    *)
(* and waits for the only POST in flight.                                  *)
THEOREM FlowInvariant == FlowSpec => []FlowInv
BY FlowInitInv, FlowStepInv, PTL DEF FlowSpec

(* Unless the keyboard is used behind the dialog, what is submitted is     *)
(* what it was opened for, once, and never more than the cap               *)
(* (BulkActionBar.tsx, BulkConfirmDialog.tsx).                             *)
THEOREM SubmissionsAreAsSeen == FlowSpec => []SubmittedAsSeen
<1>1. FlowInv => SubmittedAsSeen
  BY DEF FlowInv, OneSubmission, SubmittedAsSeen
<1> QED
  BY <1>1, FlowInvariant, PTL

(* The shared EventSource, and what a toast may show of its job's end,     *)
(* survive what the bulk action adds: toasts that begin with the answer to a POST, and a    *)
(* page that is left and comes back with its toasts gone.                  *)
THEOREM ToastsOfThePage == FlowSpec => [](SourceShared /\ ToastTruth)
<1>1. FlowInv => SourceShared /\ ToastTruth
  BY DEF FlowInv, JobsInv
<1> QED
  BY <1>1, FlowInvariant, PTL

(* The answer clears only ticks that were submitted (OrdersPage.tsx).      *)
THEOREM SelectionIsNotLost == FlowSpec => SelectionNotLost
<1> DEFINE A == \A j \in Jobs : post[j] = "accepted" /\ post'[j] = "answered" =>
                   behind \/ selected \ selected' \subseteq body[j]
<1>1. FlowInv /\ [FlowNext]_vars => [A]_vars
  <2> SUFFICES ASSUME FlowInv, FlowNext, NEW j \in Jobs,
                      post[j] = "accepted", post'[j] = "answered", ~behind
               PROVE  selected \ selected' \subseteq body[j]
    OBVIOUS
  <2>1. post \in [Jobs -> {"unused", "sent", "accepted", "answered", "failed"}] /\ post' # post
    BY DEF FlowInv, FlowTypeOK
  <2>2. PostAnswered(j)
    <3>1. ~ToggleRow /\ ~ToggleHeader /\ ~ClearSelection /\ ~TurnPage /\ ~OpenDialog
      BY <2>1 DEF ToggleRow, ToggleHeader, ClearSelection, Select, TurnPage, OpenDialog, posts
    <3>2. ~CloseDialog /\ ~LeaveOrders /\ ~Return /\ ~UNCHANGED flowVars
      BY <2>1 DEF CloseDialog, LeaveOrders, Return, posts, flowVars
    <3>3. \A k \in Jobs : ~Confirm(k) /\ ~Accept(k) /\ ~PostFails(k)
      BY <2>1 DEF Confirm, Accept, PostFails
    <3>4. PICK k \in Jobs : PostAnswered(k)
      BY <3>1, <3>2, <3>3 DEF FlowNext
    <3> QED
      BY <2>1, <3>4 DEF PostAnswered
  <2>3. CASE j \in mine
    <3>1. j \in InFlight
      BY <2>3 DEF InFlight
    <3> QED
      BY <3>1 DEF FlowInv, OneSubmission
  <2>4. CASE j \notin mine
    BY <2>2, <2>4 DEF PostAnswered
  <2> QED
    BY <2>3, <2>4
<1> QED
  BY <1>1, FlowInvariant, PTL DEF FlowSpec, SelectionNotLost
=============================================================================
