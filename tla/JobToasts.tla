------------------------------ MODULE JobToasts ------------------------------
(***************************************************************************)
(* The toasts that follow bulk jobs on the orders page.  Each polls its    *)
(* job every second until it has ended, and refetches at once when the     *)
(* event stream says so; all share one EventSource, counted by its users.  *)
(* A toast that has ended goes after 8 seconds unless its explanation was  *)
(* opened.                                                                 *)
(*                                                                         *)
(* A verdict can be read before the worker is done with the job: if a call *)
(* throws after it, the worker's catch overwrites it.  bulk_completed is   *)
(* published when neither can happen any more (BulkPipeline has the steps  *)
(* in between, and the stops of the host, left out here).  Timers have no  *)
(* duration: each may run out whenever it is armed.  MaxDrops bounds the   *)
(* losses of the connection, MaxFailures the polls that fail.              *)
(***************************************************************************)
EXTENDS Integers, FiniteSets, Query

CONSTANTS Jobs, MaxDrops, MaxFailures

ASSUME JobsAssumption == IsFiniteSet(Jobs)
ASSUME LimitsAssumption == MaxDrops \in Nat /\ MaxFailures \in Nat

VARIABLES
    active,       \* activeJobIds: the toasts on the page
    poll,         \* their queries ["job", j]
    read,         \* what the poll in flight has read, or None
    terminal,     \* the toasts that know the end of their job
    interacted,   \* those whose explanation was opened
    refCount, listeners, source,  \* useBulkJobEvents' module variables
    event,        \* the bulk_completed events on their way to the source
    job,          \* what a poll reads of the jobs on the server
    settled,      \* those the worker is done with, and has announced
    drops, failures,
    \* history
    overturned,   \* the toasts on the page while their verdict was overwritten
    missed        \* those whose event was lost, or only joined their first poll

toastVars == <<active, poll, read, terminal, interacted>>
streamVars == <<refCount, listeners, source, event, missed, drops>>
serverVars == <<job, settled, overturned>>
jobVars == <<toastVars, streamVars, serverVars, failures>>

TERMINAL == {"completed", "failed"}
JobStates == {"processing"} \cup TERMINAL

ASSUME NoneAssumption == None \notin JobStates \cup {"failed"}

JobsTypeOK ==
    /\ active \subseteq Jobs
    /\ poll \in [Jobs -> QueryType(JobStates, {"failed"})]
    /\ read \in [Jobs -> JobStates \cup {None}]
    /\ terminal \subseteq active /\ interacted \subseteq terminal
    /\ refCount \in Nat /\ listeners \subseteq Jobs
    /\ source \in {"none", "connecting", "open"}
    /\ event \subseteq Jobs
    /\ job \in [Jobs -> JobStates \cup {None}]
    /\ settled \subseteq Jobs /\ overturned \subseteq active /\ missed \subseteq active
    /\ drops \in 0 .. MaxDrops /\ failures \in 0 .. MaxFailures

JobsInit ==
    /\ active = {} /\ terminal = {} /\ interacted = {}
    /\ poll = [j \in Jobs |-> NewQuery] /\ read = [j \in Jobs |-> None]
    /\ refCount = 0 /\ listeners = {} /\ source = "none" /\ event = {}
    /\ job = [j \in Jobs |-> None] /\ settled = {}
    /\ drops = 0 /\ failures = 0
    /\ overturned = {} /\ missed = {}

-----------------------------------------------------------------------------
(* Toasts come and go.                                                     *)

ensureSource == IF source = "none" THEN "connecting" ELSE source

Mount(j) ==
    /\ active' = active \cup {j}
    /\ poll' = [poll EXCEPT ![j] = Fetch(NewQuery)]
    /\ refCount' = refCount + 1 /\ listeners' = listeners \cup {j}
    /\ source' = ensureSource
    /\ UNCHANGED <<read, terminal, interacted, event, missed, drops, failures>>

teardownIfIdle_Always(n) == "none"
teardownIfIdle(n) == IF n = 0 THEN "none" ELSE source

(* The toasts S leave the page.                                            *)
Unmount(S) ==
    LET n == refCount - Cardinality(S)
    IN  /\ active' = active \ S
        /\ terminal' = terminal \ S /\ interacted' = interacted \ S
        /\ poll' = [j \in Jobs |-> IF j \in S THEN Abandon(poll[j]) ELSE poll[j]]
        /\ read' = [j \in Jobs |-> IF j \in S THEN None ELSE read[j]]
        /\ refCount' = n /\ listeners' = listeners \ S
        /\ source' = teardownIfIdle(n)
        /\ event' = IF n = 0 THEN {} ELSE event
        /\ overturned' = overturned \ S /\ missed' = missed \ S
        /\ UNCHANGED <<drops, job, settled, failures>>

(* A POST was answered.  What its job has done by then it might as well do *)
(* before the first poll reads it: BulkFlow has the two apart.             *)
Start(j) ==
    /\ job[j] = None /\ job' = [job EXCEPT ![j] = "processing"]
    /\ Mount(j)
    /\ UNCHANGED <<settled, overturned>>

(* The page is left with all its toasts.                                   *)
LeavePage == active # {} /\ Unmount(active)

(* Its button, or 8 seconds after its end.                                 *)
Dismiss(j) == j \in active /\ Unmount({j})
AutoDismiss(j) == j \in terminal \ interacted /\ Unmount({j})

(* "Why some failed" is offered with a count of failed orders, which may   *)
(* come with either end.                                                   *)
OpenExplanation(j) ==
    /\ j \in terminal \ interacted
    /\ interacted' = interacted \cup {j}
    /\ UNCHANGED <<active, poll, read, terminal, streamVars, serverVars, failures>>

-----------------------------------------------------------------------------
(* Polls.                                                                  *)

Polls_UntilError(j) == j \in active /\ j \notin terminal /\ poll[j].error = None
Polls(j) == j \in active /\ j \notin terminal

(* The interval of one second: it joins a fetch in flight.                 *)
Tick(j) ==
    /\ Polls(j) /\ ~poll[j].loading
    /\ poll' = [poll EXCEPT ![j] = Fetch(@)]
    /\ UNCHANGED <<active, read, terminal, interacted, streamVars, serverVars, failures>>

ReadJob(j) ==
    /\ poll[j].loading /\ read[j] = None
    /\ read' = [read EXCEPT ![j] = job[j]]
    /\ UNCHANGED <<active, poll, terminal, interacted, streamVars, serverVars, failures>>

IsTerminal(s) == s \in TERMINAL

(* The answer, and the effect on query.data.                               *)
AnswerPoll(j) ==
    /\ poll[j].loading /\ read[j] # None
    /\ poll' = [poll EXCEPT ![j] = Succeed(@, read[j])]
    /\ read' = [read EXCEPT ![j] = None]
    /\ terminal' = IF IsTerminal(read[j]) THEN terminal \cup {j} ELSE terminal
    /\ UNCHANGED <<active, interacted, streamVars, serverVars, failures>>

PollFails(j) ==
    /\ poll[j].loading
    /\ failures < MaxFailures /\ failures' = failures + 1
    /\ poll' = [poll EXCEPT ![j] = Fail(@, "failed", TRUE)]
    /\ read' = [read EXCEPT ![j] = None]
    /\ UNCHANGED <<active, terminal, interacted, streamVars, serverVars>>

-----------------------------------------------------------------------------
(* The jobs and their events.                                              *)

(* TryFinalize writes its verdict to the hash.                             *)
Verdict(j) ==
    /\ job[j] = "processing"
    /\ \E s \in TERMINAL : job' = [job EXCEPT ![j] = s]
    /\ UNCHANGED <<toastVars, streamVars, settled, overturned, failures>>

(* A call of the worker throws, and its catch writes "failed" to the hash, *)
(* over a verdict if there is one.  A second exception would end the host. *)
Rescue(j) ==
    /\ job[j] \in {"processing", "completed"} /\ j \notin settled
    /\ job' = [job EXCEPT ![j] = "failed"]
    /\ overturned' = IF job[j] = "completed" THEN overturned \cup ({j} \cap active) ELSE overturned
    /\ UNCHANGED <<toastVars, streamVars, settled, failures>>

(* The worker is done with the job and bulk_completed is published: nobody *)
(* keeps it for a source that is not connected.                            *)
Announce(j) ==
    /\ job[j] \in TERMINAL /\ j \notin settled
    /\ settled' = settled \cup {j}
    /\ event' = IF source = "open" THEN event \cup {j} ELSE event
    /\ missed' = IF source = "open" THEN missed ELSE missed \cup ({j} \cap active)
    /\ UNCHANGED <<toastVars, refCount, listeners, source, drops, job, overturned, failures>>

JobAdvances(j) == Verdict(j) \/ Announce(j)

Connect == /\ source = "connecting" /\ source' = "open"
           /\ UNCHANGED <<toastVars, refCount, listeners, event, missed, drops, serverVars, failures>>

(* The connection is lost, with what was on its way; EventSource comes     *)
(* back by itself.                                                         *)
Drop == /\ source = "open" /\ drops < MaxDrops
        /\ source' = "connecting" /\ event' = {} /\ drops' = drops + 1
        /\ missed' = missed \cup (event \cap active)
        /\ UNCHANGED <<toastVars, refCount, listeners, serverVars, failures>>

onCompleted_Joins(j) ==
    poll' = [poll EXCEPT ![j] = Fetch(@)] /\ UNCHANGED read
onCompleted(j) ==
    /\ poll' = [poll EXCEPT ![j] = Refetch(@)]
    /\ read' = [read EXCEPT ![j] = IF Restarts(poll[j]) THEN None ELSE @]

(* onmessage: every listener is called, the one of the job refetches; its  *)
(* first poll, if still in flight, is only joined.                         *)
Deliver(j) ==
    /\ j \in event /\ event' = event \ {j}
    /\ IF j \in listeners THEN onCompleted(j) ELSE UNCHANGED <<poll, read>>
    /\ missed' = IF Restarts(poll[j]) THEN missed ELSE missed \cup {j}
    /\ UNCHANGED <<active, terminal, interacted, refCount, listeners, source, drops, serverVars, failures>>

Polling(j) == ReadJob(j) \/ AnswerPoll(j) \/ PollFails(j)

ToastStep(j) == \/ Dismiss(j) \/ AutoDismiss(j) \/ OpenExplanation(j)
                \/ Tick(j) \/ Polling(j)
                \/ JobAdvances(j) \/ Rescue(j) \/ Deliver(j)

Init == JobsInit

Next == \/ \E j \in Jobs : Start(j) \/ ToastStep(j)
        \/ LeavePage \/ Connect \/ Drop

(* Polls are answered or fail, the interval ticks, and a job that was      *)
(* accepted ends (BulkPipeline's AcceptedFinishes); nothing need throw.    *)
Spec == /\ Init /\ [][Next]_jobVars
        /\ \A j \in Jobs : /\ WF_jobVars(Polling(j)) /\ WF_jobVars(Tick(j))
                           /\ WF_jobVars(JobAdvances(j))

-----------------------------------------------------------------------------
(* The module variables of useBulkJobEvents, shared by all toasts: the     *)
(* source exists exactly while some toast is there, its count is that of   *)
(* the toasts, and each of them listens, in whatever order they come, go   *)
(* and are thrown away with their page.                                    *)
SourceShared ==
    /\ refCount = Cardinality(active) /\ listeners = active
    /\ source = "none" <=> active = {}

(* A toast that stops polling shows what its job ended with.  Otherwise it *)
(* has read a verdict that was overwritten since, and then it is put right *)
(* by the event: until the worker is done with the job or while the event  *)
(* is on its way it may still be wrong, afterwards only if the event was   *)
(* lost or joined the first poll, or if the refetch it made is in flight   *)
(* or has failed.                                                          *)
PutRight(j) == /\ j \in settled /\ j \notin event \cup missed
               /\ ~poll[j].loading /\ poll[j].error = None
ToastTruth ==
    \A j \in terminal :
       /\ job[j] \in TERMINAL
       /\ j \notin overturned \/ PutRight(j) => poll[j].data = job[j]

(* An event that finds data refetches at once: no answer that was read     *)
(* before the end, or of a verdict overwritten since, can come after it.   *)
Delivered(j) == j \in event \ event' /\ source = "open" /\ source' = "open"
EventNotOutrun ==
    [][\A j \in active : Delivered(j) /\ HasData(poll[j]) => read'[j] \in {None, job[j]}]_jobVars

(* Every toast learns the end of its job or leaves, also when the event is *)
(* lost and polls fail: the poll is the safety net.                        *)
ToastLearns == \A j \in Jobs : j \in active ~> (j \in terminal \/ j \notin active)
==============================================================================
