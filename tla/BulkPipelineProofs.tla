-------------------------- MODULE BulkPipelineProofs --------------------------
(***************************************************************************)
(* Proofs about BulkPipeline, for any jobs, batch and chunk sizes, and any *)
(* number of failing calls, stops and kills.                               *)
(***************************************************************************)
EXTENDS BulkPipeline, TLAPS

Loop == {"chunk", "incCompleted", "incFailed"}
Finishing == {"finStatus", "finExpire", "finMirror", "publish"}

(* The loop has counted the ids of the chunks it is through with.          *)
LoopInv ==
    wpc \in Loop =>
       /\ ~inCatch
       /\ sum.completed <= reported[wjob]
       /\ offset < total[wjob]
       /\ sum.completed + sum.failed = IF wpc = "chunk" THEN offset ELSE offset + ChunkLen

(* What TryFinalize is about to store accounts for the whole request, and  *)
(* what it stored is in the stores.                                        *)
FinishInv ==
    /\ wpc \in Finishing =>
          /\ final.status \in Terminal
          /\ final.completed + final.failed = total[wjob]
          /\ final.completed <= reported[wjob]
          /\ final.status = "completed" => final.completed > 0
    /\ wpc \in {"finExpire", "finMirror", "publish"} =>
          (redis[wjob].exists => redis[wjob].status = final.status)
    /\ wpc = "publish" => mirror[wjob].status = final.status

(* A job is in the queue, with the worker or announced, never in two of    *)
(* these, and only once it was recorded.                                   *)
JobsInv ==
    /\ \A j \in Jobs :
          /\ enq[j] = "idle" => mirror[j].status = "none"
          /\ enq[j] \in {"inserting", "initing", "queueing", "accepted"} =>
                total[j] \in 1..MaxBatch
          /\ enq[j] \in {"initing", "queueing", "accepted"} => mirror[j].status # "none"
          /\ announced[j] <= 1
          /\ announced[j] = 1 => enq[j] = "accepted" /\ j # wjob /\ j \notin Range(queue)
          /\ j = wjob => enq[j] = "accepted"
          /\ j \in Range(queue) => enq[j] = "accepted" /\ j # wjob
    /\ \A m, n \in 1..Len(queue) : queue[m] = queue[n] => m = n
    /\ poll.pc # "idle" => poll.job \in Jobs /\ enq[poll.job] = "accepted"

(* An exception was counted before the catch, two before the host ends.    *)
FaultsInv == /\ inCatch => faults >= 1 /\ wpc \in Busy
             /\ host # "up" => faults >= 2 \/ stops > 0

PipelineInv == /\ TypeOK /\ LoopInv /\ FinishInv /\ JobsInv /\ FaultsInv
               /\ MirrorAccounting /\ AnnouncedWhenSettled /\ AcceptedIsKnown

(* The host starts with an empty queue, no jobs and an idle worker.        *)
THEOREM PipelineInit == Init => PipelineInv
<1> SUFFICES ASSUME Init PROVE PipelineInv
  OBVIOUS
<1>1. TypeOK
  <2>1. NoJob \notin Jobs /\ 0 \in Sizes /\ 0 \in 0..MaxStops /\ 0 \in 0..MaxFaults
    BY SizesAssumption, FaultsAssumption DEF Sizes
  <2>2. NoHash \in HashType /\ NoMirror \in MirrorType /\ NoAnswer \in AnswerType
    BY DEF NoHash, NoMirror, NoAnswer, HashType, MirrorType, AnswerType
  <2>3. Count \in CountType /\ NoFinal \in FinalType
    BY DEF Count, NoFinal, CountType, FinalType
  <2>6. /\ queue \in Seq(Jobs) /\ offset \in Nat
        /\ wpc \in Busy \cup {"idle", "ended"}
        /\ wjob \in Jobs \cup {NoJob} /\ (wjob \in Jobs <=> wpc \in Busy)
    BY <2>1 DEF Init, Busy
  <2>7. /\ total \in [Jobs -> Sizes] /\ redis \in [Jobs -> {NoHash}]
        /\ mirror \in [Jobs -> {NoMirror}] /\ answer \in [Jobs -> {NoAnswer}]
        /\ reported \in [Jobs -> Nat] /\ announced \in [Jobs -> Nat]
    BY <2>1 DEF Init
  <2>8. /\ enq \in [Jobs -> {"idle"}] /\ poll = [pc |-> "idle", job |-> NoJob]
        /\ host = "up" /\ stops = 0 /\ faults = 0 /\ flushed = FALSE /\ inCatch = FALSE
        /\ chunkRes = Count /\ sum = Count /\ final = NoFinal
    BY DEF Init
  <2>9. /\ enq \in [Jobs -> {"idle", "rejected", "inserting", "initing", "queueing",
                              "accepted", "failed"}]
        /\ poll \in [pc : {"idle", "redis", "mirror"}, job : Jobs \cup {NoJob}]
        /\ host \in {"up", "stopping", "down"} /\ stops \in 0..MaxStops
        /\ faults \in 0..MaxFaults /\ flushed \in BOOLEAN /\ inCatch \in BOOLEAN
    BY <2>1, <2>8
  <2> QED
    BY <2>2, <2>3, <2>6, <2>7, <2>8, <2>9 DEF TypeOK
<1>2. LoopInv /\ FinishInv /\ FaultsInv
  BY DEF Init, LoopInv, FinishInv, FaultsInv, Loop, Finishing
<1>3. JobsInv
  BY FaultsAssumption DEF Init, JobsInv, NoMirror, Range
<1>4. MirrorAccounting /\ AnnouncedWhenSettled /\ AcceptedIsKnown
  BY DEF Init, MirrorAccounting, AnnouncedWhenSettled, AcceptedIsKnown, NoMirror, NoAnswer,
         Terminal
<1> QED
  BY <1>1, <1>2, <1>3, <1>4 DEF PipelineInv

(* Steps that touch neither the worker nor its job.                        *)
LEMMA WorkerApart ==
    ASSUME PipelineInv, UNCHANGED workVars,
           wjob \in Jobs => /\ total'[wjob] = total[wjob] /\ reported'[wjob] = reported[wjob]
                            /\ redis'[wjob] = redis[wjob] \/ ~redis'[wjob].exists
                            /\ mirror'[wjob] = mirror[wjob]
    PROVE  LoopInv' /\ FinishInv'
<1>1. wjob \in Jobs <=> wpc \in Busy
  BY DEF PipelineInv, TypeOK
<1>2. CASE wpc \in Busy
  <2>1. ChunkLen' = ChunkLen
    BY <1>1, <1>2 DEF ChunkLen, workVars
  <2>2. LoopInv'
    BY <1>1, <1>2, <2>1 DEF PipelineInv, LoopInv, workVars
  <2>3. FinishInv'
    BY <1>1, <1>2 DEF PipelineInv, FinishInv, workVars
  <2> QED
    BY <2>2, <2>3
<1>3. CASE wpc \notin Busy
  BY <1>3 DEF LoopInv, FinishInv, workVars, Busy, Loop, Finishing
<1> QED
  BY <1>2, <1>3

(* POST /api/orders/bulk-actions: a job that was not accepted is nowhere.  *)
LEMMA NotAccepted ==
    ASSUME PipelineInv, NEW j \in Jobs, enq[j] # "accepted"
    PROVE  /\ j # wjob /\ j \notin Range(queue)
           /\ announced[j] # 1
           /\ poll.pc # "idle" => poll.job # j
  BY DEF PipelineInv, JobsInv

(* A request with a valid number of ids gets a job id nobody knows yet.    *)
LEMMA ReceiveKeeps ==
    ASSUME PipelineInv, NEW j \in Jobs, NEW n \in 0..MaxBatch + 1, EnqueueReceive(j, n)
    PROVE  PipelineInv'
<1>1. /\ enq[j] = "idle" /\ j # wjob /\ j \notin Range(queue) /\ announced[j] # 1
      /\ poll.pc # "idle" => poll.job # j
  BY NotAccepted DEF EnqueueReceive
<1>2. /\ total' = [total EXCEPT ![j] = n]
      /\ enq' = [enq EXCEPT ![j] = IF ValidBatch(n) THEN "inserting" ELSE "rejected"]
      /\ UNCHANGED <<queue, workVars, redis, mirror, pollVars, hostVars, faults, reported, announced>>
  BY DEF EnqueueReceive
<1>3. TypeOK'
  BY <1>2 DEF PipelineInv, TypeOK, Sizes, workVars, pollVars, hostVars
<1>4. LoopInv' /\ FinishInv'
  BY <1>1, <1>2, WorkerApart DEF PipelineInv, TypeOK
<1>5. JobsInv'
  <2>1. ValidBatch(n) => n \in 1..MaxBatch
    BY SizesAssumption DEF ValidBatch
  <2> QED
    BY <1>1, <1>2, <2>1 DEF PipelineInv, TypeOK, JobsInv, workVars, pollVars
<1>6. FaultsInv'
  BY <1>2 DEF PipelineInv, FaultsInv, workVars, hostVars
<1>7. MirrorAccounting'
  <2>1. mirror[j].status = "none"
    BY <1>1 DEF PipelineInv, JobsInv
  <2> QED
    BY <1>2, <2>1 DEF PipelineInv, TypeOK, MirrorAccounting, Terminal
<1>8. AnnouncedWhenSettled' /\ AcceptedIsKnown'
  BY <1>1, <1>2 DEF PipelineInv, TypeOK, AnnouncedWhenSettled, AcceptedIsKnown, pollVars
<1> QED
  BY <1>3, <1>4, <1>5, <1>6, <1>7, <1>8 DEF PipelineInv

(* The row of the job is inserted as processing, with its total.           *)
LEMMA InsertKeeps ==
    ASSUME PipelineInv, NEW j \in Jobs, EnqueueInsert(j)
    PROVE  PipelineInv'
<1> DEFINE m == [status |-> "processing", total |-> total[j], completed |-> 0, failed |-> 0]
<1>1. /\ enq[j] = "inserting" /\ j # wjob /\ j \notin Range(queue) /\ announced[j] # 1
      /\ poll.pc # "idle" => poll.job # j
  BY NotAccepted DEF EnqueueInsert
<1>2. /\ mirror' = [mirror EXCEPT ![j] = m] /\ enq' = [enq EXCEPT ![j] = "initing"]
      /\ UNCHANGED <<total, queue, workVars, redis, pollVars, hostVars, faults, reported, announced>>
  BY DEF EnqueueInsert, Works
<1>3. m \in MirrorType /\ m.status = "processing"
  BY DEF PipelineInv, TypeOK, Sizes, MirrorType, JobStatus
<1> HIDE DEF m
<1>4. TypeOK'
  BY <1>2, <1>3 DEF PipelineInv, TypeOK, workVars, pollVars, hostVars
<1>5. LoopInv' /\ FinishInv'
  BY <1>1, <1>2, WorkerApart DEF PipelineInv, TypeOK
<1>6. JobsInv'
  BY <1>1, <1>2, <1>3 DEF PipelineInv, TypeOK, JobsInv, workVars, pollVars
<1>7. FaultsInv'
  BY <1>2 DEF PipelineInv, FaultsInv, workVars, hostVars
<1>8. MirrorAccounting'
  BY <1>2, <1>3 DEF PipelineInv, TypeOK, MirrorAccounting, Terminal
<1>9. AnnouncedWhenSettled' /\ AcceptedIsKnown'
  BY <1>1, <1>2, <1>3 DEF PipelineInv, TypeOK, AnnouncedWhenSettled, AcceptedIsKnown, pollVars
<1> QED
  BY <1>4, <1>5, <1>6, <1>7, <1>8, <1>9 DEF PipelineInv

(* The hash is written with the same figures.                              *)
LEMMA InitKeeps ==
    ASSUME PipelineInv, NEW j \in Jobs, EnqueueInit(j)
    PROVE  PipelineInv'
<1> DEFINE h == [exists |-> TRUE, status |-> "processing", total |-> total[j],
                 completed |-> 0, failed |-> 0, ttl |-> FALSE]
<1>1. /\ enq[j] = "initing" /\ j # wjob /\ j \notin Range(queue) /\ announced[j] # 1
      /\ poll.pc # "idle" => poll.job # j
  BY NotAccepted DEF EnqueueInit
<1>2. /\ redis' = [redis EXCEPT ![j] = h] /\ enq' = [enq EXCEPT ![j] = "queueing"]
      /\ UNCHANGED <<total, queue, workVars, mirror, pollVars, hostVars, faults, reported, announced>>
  BY DEF EnqueueInit, Works
<1>3. h \in HashType
  <2>1. total[j] \in Nat
    BY DEF PipelineInv, TypeOK, Sizes
  <2> QED
    BY <2>1 DEF HashType, JobStatus
<1> HIDE DEF h
<1>4. TypeOK'
  BY <1>2, <1>3 DEF PipelineInv, TypeOK, workVars, pollVars, hostVars
<1>5. LoopInv' /\ FinishInv'
  BY <1>1, <1>2, WorkerApart DEF PipelineInv, TypeOK
<1>6. JobsInv'
  BY <1>1, <1>2 DEF PipelineInv, TypeOK, JobsInv, workVars, pollVars
<1>7. FaultsInv'
  BY <1>2 DEF PipelineInv, FaultsInv, workVars, hostVars
<1>8. MirrorAccounting'
  BY <1>2 DEF PipelineInv, MirrorAccounting
<1>9. AnnouncedWhenSettled' /\ AcceptedIsKnown'
  BY <1>1, <1>2 DEF PipelineInv, TypeOK, AnnouncedWhenSettled, AcceptedIsKnown, JobsInv, pollVars
<1> QED
  BY <1>4, <1>5, <1>6, <1>7, <1>8, <1>9 DEF PipelineInv

(* A job that joins the queue was not there, with the worker or announced. *)
LEMMA WriteKeeps ==
    ASSUME PipelineInv, NEW j \in Jobs, EnqueueWrite(j)
    PROVE  PipelineInv'
<1>1. /\ enq[j] = "queueing" /\ j # wjob /\ j \notin Range(queue) /\ announced[j] # 1
      /\ poll.pc # "idle" => poll.job # j
  BY NotAccepted DEF EnqueueWrite
<1>2. /\ queue' = Append(queue, j) /\ enq' = [enq EXCEPT ![j] = "accepted"]
      /\ UNCHANGED <<total, workVars, redis, mirror, pollVars, hostVars, faults, reported, announced>>
  BY DEF EnqueueWrite
<1>3. /\ queue \in Seq(Jobs) /\ queue' \in Seq(Jobs)
      /\ Len(queue) \in Nat /\ Len(queue') = Len(queue) + 1
      /\ \A k \in 1..Len(queue) : queue'[k] = queue[k]
      /\ queue'[Len(queue) + 1] = j
  <2>1. queue \in Seq(Jobs)
    BY DEF PipelineInv, TypeOK
  <2>2. queue' = Append(queue, j)
    BY <1>2
  <2> HIDE <1>2
  <2> QED
    BY <2>1, <2>2
<1>4. Range(queue') = Range(queue) \cup {j}
  <2>1. DOMAIN queue = 1..Len(queue) /\ DOMAIN queue' = 1..Len(queue')
    BY <1>3
  <2> HIDE <1>2
  <2> QED
    BY <1>3, <2>1 DEF Range
<1>5. TypeOK'
  BY <1>2, <1>3 DEF PipelineInv, TypeOK, workVars, pollVars, hostVars
<1>6. LoopInv' /\ FinishInv'
  BY <1>1, <1>2, WorkerApart DEF PipelineInv, TypeOK
<1>7. JobsInv'
  <2>1. \A m, n \in 1..Len(queue') : queue'[m] = queue'[n] => m = n
    <3>1. \A k \in 1..Len(queue) : queue[k] # j
      BY <1>1, <1>3 DEF Range
    <3>2. \A m, n \in 1..Len(queue) : queue[m] = queue[n] => m = n
      BY DEF PipelineInv, JobsInv
    <3> HIDE <1>2
    <3> DEFINE l == Len(queue)
               l2 == Len(queue')
    <3>3. /\ l \in Nat /\ l2 = l + 1 /\ \A k \in 1..l : queue'[k] = queue[k] /\ queue[k] # j
          /\ queue'[l + 1] = j /\ \A m, n \in 1..l : queue[m] = queue[n] => m = n
      BY <1>3, <3>1, <3>2
    <3> HIDE DEF l, l2
    <3>4. \A m, n \in 1..l2 : queue'[m] = queue'[n] => m = n
      BY <3>3
    <3> QED
      BY <3>4 DEF l2
  <2>2. total[j] \in 1..MaxBatch /\ mirror[j].status # "none"
    BY <1>1 DEF PipelineInv, JobsInv
  <2>3. ASSUME NEW k \in Jobs
        PROVE  /\ enq'[k] = "idle" => mirror'[k].status = "none"
               /\ enq'[k] \in {"inserting", "initing", "queueing", "accepted"} =>
                     total'[k] \in 1..MaxBatch
               /\ enq'[k] \in {"initing", "queueing", "accepted"} => mirror'[k].status # "none"
               /\ announced'[k] <= 1
               /\ announced'[k] = 1 =>
                     enq'[k] = "accepted" /\ k # wjob' /\ k \notin Range(queue')
               /\ k = wjob' => enq'[k] = "accepted"
               /\ k \in Range(queue') => enq'[k] = "accepted" /\ k # wjob'
    BY <1>1, <1>2, <1>4, <2>2 DEF PipelineInv, TypeOK, JobsInv, workVars
  <2>4. poll'.pc # "idle" => poll'.job \in Jobs /\ enq'[poll'.job] = "accepted"
    BY <1>2 DEF PipelineInv, TypeOK, JobsInv, pollVars
  <2> QED
    BY <2>1, <2>3, <2>4 DEF JobsInv
<1>8. FaultsInv'
  BY <1>2 DEF PipelineInv, FaultsInv, workVars, hostVars
<1>9. MirrorAccounting' /\ AnnouncedWhenSettled'
  BY <1>2 DEF PipelineInv, MirrorAccounting, AnnouncedWhenSettled
<1>10. AcceptedIsKnown'
  <2>1. mirror[j].status # "none"
    BY <1>1 DEF PipelineInv, JobsInv
  <2> QED
    BY <1>2, <2>1 DEF PipelineInv, TypeOK, AcceptedIsKnown, pollVars
<1> QED
  BY <1>5, <1>6, <1>7, <1>8, <1>9, <1>10 DEF PipelineInv

(* A failed enqueue leaves its row, and no other job, behind.              *)
LEMMA EnqueueFailKeeps ==
    ASSUME PipelineInv, NEW j \in Jobs, EnqueueFail(j)
    PROVE  PipelineInv'
<1>1. /\ enq[j] # "idle" /\ j # wjob /\ j \notin Range(queue) /\ announced[j] # 1
      /\ poll.pc # "idle" => poll.job # j
  BY NotAccepted DEF EnqueueFail
<1>2. /\ enq' = [enq EXCEPT ![j] = "failed"] /\ faults < MaxFaults /\ faults' = faults + 1
      /\ UNCHANGED <<total, queue, workVars, redis, mirror, pollVars, hostVars, reported, announced>>
  BY DEF EnqueueFail, Throws
<1>3. TypeOK'
  BY <1>2, FaultsAssumption DEF PipelineInv, TypeOK, workVars, pollVars, hostVars
<1>4. LoopInv' /\ FinishInv'
  BY <1>1, <1>2, WorkerApart DEF PipelineInv, TypeOK
<1>5. JobsInv'
  BY <1>1, <1>2 DEF PipelineInv, TypeOK, JobsInv, workVars, pollVars
<1>6. FaultsInv'
  BY <1>2, FaultsAssumption DEF PipelineInv, TypeOK, FaultsInv, workVars, hostVars
<1>7. MirrorAccounting' /\ AnnouncedWhenSettled' /\ AcceptedIsKnown'
  BY <1>2 DEF PipelineInv, TypeOK, MirrorAccounting, AnnouncedWhenSettled, AcceptedIsKnown, pollVars
<1> QED
  BY <1>3, <1>4, <1>5, <1>6, <1>7 DEF PipelineInv

(* GET /api/jobs/:id reads the stores.                                     *)
LEMMA PollKeeps ==
    ASSUME PipelineInv, (\E j \in Jobs : PollStart(j)) \/ Poll
    PROVE  PipelineInv'
<1>1. ASSUME NEW code \in {200, 404, 500}, NEW from, PollAnswer(code, from),
             poll.pc # "idle",
             [code |-> code, status |-> from.status, total |-> from.total,
              completed |-> from.completed, failed |-> from.failed] \in AnswerType,
             code # 404, faults' \in {faults, faults + 1}, faults' <= MaxFaults
      PROVE  PipelineInv'
  <2> DEFINE a == [code |-> code, status |-> from.status, total |-> from.total,
                   completed |-> from.completed, failed |-> from.failed]
  <2>1. /\ a \in AnswerType /\ a.code # 404 /\ poll.job \in Jobs
        /\ answer' = [answer EXCEPT ![poll.job] = a]
        /\ poll' = [pc |-> "idle", job |-> NoJob]
        /\ UNCHANGED <<enqVars, queue, workVars, redis, mirror, hostVars, reported, announced>>
    BY <1>1 DEF PollAnswer, PipelineInv, JobsInv
  <2> HIDE DEF a
  <2>2. TypeOK'
    BY <1>1, <2>1, FaultsAssumption DEF PipelineInv, TypeOK, enqVars, workVars, hostVars
  <2>3. LoopInv' /\ FinishInv'
    BY <2>1, WorkerApart DEF enqVars
  <2>4. JobsInv' /\ FaultsInv'
    BY <1>1, <2>1, FaultsAssumption
       DEF PipelineInv, TypeOK, JobsInv, FaultsInv, enqVars, workVars, hostVars
  <2>5. MirrorAccounting' /\ AnnouncedWhenSettled' /\ AcceptedIsKnown'
    BY <2>1 DEF PipelineInv, TypeOK, MirrorAccounting, AnnouncedWhenSettled, AcceptedIsKnown, enqVars
  <2> QED
    BY <2>2, <2>3, <2>4, <2>5 DEF PipelineInv
<1>2. poll.pc # "idle" => poll.job \in Jobs /\ mirror[poll.job].status # "none"
  BY DEF PipelineInv, JobsInv
<1>3. faults \in Nat /\ faults <= MaxFaults
  BY FaultsAssumption DEF PipelineInv, TypeOK
<1>4. CASE PollRedis
  <2>1. redis[poll.job] \in HashType
    BY <1>2, <1>4 DEF PollRedis, PipelineInv, TypeOK
  <2> DEFINE r == redis[poll.job]
  <2>2. [code |-> 200, status |-> r.status, total |-> r.total,
         completed |-> r.completed, failed |-> r.failed] \in AnswerType
    BY <2>1 DEF HashType, AnswerType
  <2> QED
    BY <1>1, <1>3, <1>4, <2>2 DEF PollRedis, Works
<1>5. CASE PollMirror
  <2>1. mirror[poll.job] \in MirrorType /\ mirror[poll.job].status # "none"
    BY <1>2, <1>5 DEF PollMirror, PipelineInv, TypeOK
  <2> DEFINE r == mirror[poll.job]
  <2>2. [code |-> 200, status |-> r.status, total |-> r.total,
         completed |-> r.completed, failed |-> r.failed] \in AnswerType
    BY <2>1 DEF MirrorType, AnswerType
  <2> QED
    BY <1>1, <1>3, <1>5, <2>1, <2>2 DEF PollMirror, Works
<1>6. CASE PollThrows
  <2>1. [code |-> 500, status |-> NoMirror.status, total |-> NoMirror.total,
         completed |-> NoMirror.completed, failed |-> NoMirror.failed] \in AnswerType
    BY DEF NoMirror, AnswerType
  <2>2. faults' = faults + 1 /\ faults' <= MaxFaults
    BY <1>3, <1>6, FaultsAssumption DEF PollThrows, Throws
  <2> QED
    BY <1>1, <1>6, <2>1, <2>2 DEF PollThrows
<1>7. ASSUME UNCHANGED <<enqVars, queue, workVars, redis, mirror, answer, hostVars, faults,
                         reported, announced>>,
             poll' \in [pc : {"redis", "mirror"}, job : Jobs], enq[poll'.job] = "accepted"
      PROVE  PipelineInv'
  <2>1. TypeOK'
    BY <1>7 DEF PipelineInv, TypeOK, enqVars, workVars, hostVars
  <2>2. LoopInv' /\ FinishInv'
    BY <1>7, WorkerApart DEF enqVars
  <2>3. JobsInv' /\ FaultsInv'
    BY <1>7 DEF PipelineInv, JobsInv, FaultsInv, enqVars, workVars, hostVars
  <2>4. MirrorAccounting' /\ AnnouncedWhenSettled' /\ AcceptedIsKnown'
    BY <1>7 DEF PipelineInv, MirrorAccounting, AnnouncedWhenSettled, AcceptedIsKnown, enqVars
  <2> QED
    BY <2>1, <2>2, <2>3, <2>4 DEF PipelineInv
<1>8. CASE PollMiss
  <2>1. /\ poll' \in [pc : {"redis", "mirror"}, job : Jobs] /\ poll'.job = poll.job
        /\ enq[poll.job] = "accepted"
    BY <1>2, <1>8 DEF PollMiss, PipelineInv, TypeOK, JobsInv
  <2> QED
    BY <1>7, <1>8, <2>1 DEF PollMiss
<1>9. ASSUME NEW j \in Jobs, PollStart(j) PROVE PipelineInv'
  <2>1. poll' \in [pc : {"redis", "mirror"}, job : Jobs] /\ enq[poll'.job] = "accepted"
    BY <1>9 DEF PollStart
  <2> QED
    BY <1>7, <1>9, <2>1 DEF PollStart
<1> QED
  BY <1>4, <1>5, <1>6, <1>8, <1>9 DEF Poll

(* Stops, kills, restarts, expiry and loss.                                *)
LEMMA HostKeeps ==
    ASSUME PipelineInv, \/ Stop \/ StopEnds \/ Kill \/ Restart \/ Flush
                        \/ \E j \in Jobs : Expire(j)
    PROVE  PipelineInv'
<1>1. CASE Stop \/ Restart
  <2>1. /\ UNCHANGED <<enqVars, queue, workVars, redis, mirror, pollVars, flushed, faults,
                       reported, announced>>
        /\ host' \in {"up", "stopping"} /\ stops' \in 0..MaxStops
        /\ host' = "up" \/ stops' > 0
    BY <1>1, FaultsAssumption DEF Stop, Restart, PipelineInv, TypeOK
  <2>2. TypeOK'
    BY <2>1 DEF PipelineInv, TypeOK, enqVars, workVars, pollVars
  <2>3. LoopInv' /\ FinishInv'
    BY <2>1, WorkerApart DEF enqVars
  <2>4. JobsInv' /\ FaultsInv'
    BY <2>1 DEF PipelineInv, JobsInv, FaultsInv, enqVars, workVars, pollVars
  <2>5. MirrorAccounting' /\ AnnouncedWhenSettled' /\ AcceptedIsKnown'
    BY <2>1 DEF PipelineInv, MirrorAccounting, AnnouncedWhenSettled, AcceptedIsKnown,
                enqVars, pollVars
  <2> QED
    BY <2>2, <2>3, <2>4, <2>5 DEF PipelineInv
<1>2. CASE StopEnds \/ Kill
  <2>1. /\ GoDown /\ stops' \in 0..MaxStops
        /\ faults >= 2 \/ stops' > 0
    <3>1. CASE StopEnds
      BY <3>1 DEF StopEnds, Stopping, PipelineInv, TypeOK, FaultsInv
    <3>2. CASE Kill
      BY <3>2, FaultsAssumption DEF Kill, PipelineInv, TypeOK
    <3> QED
      BY <1>2, <3>1, <3>2
  <2>2. /\ host' = "down" /\ queue' = <<>> /\ wpc' = "idle" /\ wjob' = NoJob /\ inCatch' = FALSE
        /\ poll' = [pc |-> "idle", job |-> NoJob]
        /\ enq' = [j \in Jobs |-> IF enq[j] \in {"inserting", "initing", "queueing"}
                                  THEN "failed" ELSE enq[j]]
        /\ offset' = 0 /\ chunkRes' = Count /\ sum' = Count /\ final' = NoFinal
        /\ UNCHANGED <<total, redis, mirror, answer, flushed, faults, reported, announced>>
    BY <2>1 DEF GoDown, Forget
  <2>3. TypeOK'
    <3>1. Count \in CountType /\ NoFinal \in FinalType
      BY DEF Count, NoFinal, CountType, FinalType
    <3>2. NoJob \notin Jobs
      BY FaultsAssumption
    <3>3. /\ enq' \in [Jobs -> {"idle", "rejected", "inserting", "initing", "queueing",
                                "accepted", "failed"}]
          /\ queue' \in Seq(Jobs)
      BY <2>2 DEF PipelineInv, TypeOK
    <3>4. /\ wpc' \in Busy \cup {"idle", "ended"} /\ wjob' \in Jobs \cup {NoJob}
          /\ wjob' \in Jobs <=> wpc' \in Busy
          /\ offset' \in Nat /\ inCatch' \in BOOLEAN
          /\ poll' \in [pc : {"idle", "redis", "mirror"}, job : Jobs \cup {NoJob}]
          /\ host' \in {"up", "stopping", "down"}
      BY <2>2, <3>2 DEF Busy
    <3> QED
      BY <2>1, <2>2, <3>1, <3>3, <3>4 DEF PipelineInv, TypeOK
  <2>4. LoopInv' /\ FinishInv' /\ FaultsInv'
    BY <2>1, <2>2 DEF PipelineInv, LoopInv, FinishInv, FaultsInv, Loop, Finishing
  <2>5. JobsInv'
    <3>1. NoJob \notin Jobs /\ Range(queue') = {} /\ Len(queue') = 0
      BY <2>2, FaultsAssumption DEF Range
    <3> QED
      BY <2>2, <3>1 DEF PipelineInv, TypeOK, JobsInv
  <2>6. MirrorAccounting' /\ AnnouncedWhenSettled' /\ AcceptedIsKnown'
    BY <2>2 DEF PipelineInv, TypeOK, MirrorAccounting, AnnouncedWhenSettled, AcceptedIsKnown
  <2> QED
    BY <2>3, <2>4, <2>5, <2>6 DEF PipelineInv
<1>3. CASE Flush \/ \E j \in Jobs : Expire(j)
  <2>1. /\ UNCHANGED <<enqVars, queue, workVars, mirror, pollVars, host, stops, faults,
                       reported, announced>>
        /\ flushed' \in BOOLEAN
        /\ redis' \in [Jobs -> HashType]
        /\ \A j \in Jobs : redis'[j] = redis[j] \/ ~redis'[j].exists
    <3>1. NoHash \in HashType /\ ~NoHash.exists
      BY DEF NoHash, HashType
    <3>2. CASE Flush
      BY <3>1, <3>2 DEF Flush, PipelineInv, TypeOK
    <3>3. ASSUME NEW j \in Jobs, Expire(j)
          PROVE  /\ UNCHANGED <<enqVars, queue, workVars, mirror, pollVars, hostVars, faults,
                                reported, announced>>
                 /\ redis' \in [Jobs -> HashType]
                 /\ \A k \in Jobs : redis'[k] = redis[k] \/ ~redis'[k].exists
      BY <3>1, <3>3 DEF Expire, PipelineInv, TypeOK
    <3> QED
      BY <1>3, <3>2, <3>3 DEF PipelineInv, TypeOK, hostVars
  <2>2. TypeOK'
    BY <2>1 DEF PipelineInv, TypeOK, enqVars, workVars, pollVars
  <2>3. LoopInv' /\ FinishInv'
    BY <2>1, WorkerApart DEF enqVars
  <2>4. JobsInv' /\ FaultsInv'
    BY <2>1 DEF PipelineInv, JobsInv, FaultsInv, enqVars, workVars, pollVars
  <2>5. MirrorAccounting' /\ AnnouncedWhenSettled' /\ AcceptedIsKnown'
    BY <2>1 DEF PipelineInv, MirrorAccounting, AnnouncedWhenSettled, AcceptedIsKnown,
                enqVars, pollVars
  <2> QED
    BY <2>2, <2>3, <2>4, <2>5 DEF PipelineInv
<1> QED
  BY <1>1, <1>2, <1>3

(* A step of the worker changes what is stored of its own job only, and    *)
(* the row only to a final and complete one.                               *)
Accounted(m, j) ==
    /\ m.status \in Terminal /\ m.completed + m.failed = total[j]
    /\ m.completed <= reported[j]
    /\ m.status = "completed" => m.completed > 0

(* What the worker does to its own job's row and hash keeps the invariant, *)
(* if it keeps the row's accounting and takes nothing from the counts.     *)
LEMMA OwnJobOnly ==
    ASSUME PipelineInv, UNCHANGED <<enqVars, queue, pollVars, announced>>,
           wjob' \in {wjob, NoJob},
           \A j \in Jobs : \/ mirror'[j] = mirror[j]
                           \/ j = wjob /\ Accounted(mirror'[j], j),
           \A j \in Jobs : j = wjob \/ redis'[j] = redis[j],
           \A j \in Jobs : reported[j] \in Nat /\ reported'[j] \in Nat /\ reported[j] <= reported'[j],
           mirror \in [Jobs -> MirrorType], mirror' \in [Jobs -> MirrorType]
    PROVE  JobsInv' /\ MirrorAccounting' /\ AnnouncedWhenSettled' /\ AcceptedIsKnown'
<1>1. NoJob \notin Jobs
  BY FaultsAssumption
<1>2. \A j \in Jobs : mirror'[j].status = mirror[j].status
                      \/ (j = wjob /\ mirror'[j].status # "none")
  BY DEF Accounted, Terminal
<1>3. JobsInv'
  BY <1>1, <1>2 DEF PipelineInv, JobsInv, enqVars, pollVars
<1>4. MirrorAccounting'
  <2> SUFFICES ASSUME NEW j \in Jobs, mirror'[j].status \in Terminal
               PROVE  /\ mirror'[j].completed + mirror'[j].failed = total'[j]
                      /\ mirror'[j].completed <= reported'[j]
                      /\ mirror'[j].status = "completed" => mirror'[j].completed > 0
    BY DEF MirrorAccounting
  <2>1. total'[j] = total[j] /\ mirror'[j].completed \in Nat
    BY DEF enqVars, MirrorType
  <2>2. /\ mirror'[j].completed + mirror'[j].failed = total[j]
        /\ mirror'[j].completed <= reported[j]
        /\ mirror'[j].status = "completed" => mirror'[j].completed > 0
    BY DEF PipelineInv, MirrorAccounting, Accounted
  <2>3. mirror'[j].completed <= reported'[j]
    BY <2>1, <2>2
  <2> QED
    BY <2>1, <2>2, <2>3
<1>5. AnnouncedWhenSettled'
  <2> SUFFICES ASSUME NEW j \in Jobs
               PROVE  /\ announced'[j] <= 1
                      /\ announced'[j] = 1 =>
                           /\ mirror'[j].status \in Terminal
                           /\ redis'[j].exists => redis'[j].status = mirror'[j].status
    BY DEF AnnouncedWhenSettled
  <2>1. announced[j] = 1 => j # wjob
    BY DEF PipelineInv, JobsInv
  <2>2. announced[j] = 1 => mirror'[j] = mirror[j] /\ redis'[j] = redis[j]
    BY <2>1
  <2> QED
    BY <2>2 DEF PipelineInv, AnnouncedWhenSettled
<1>6. AcceptedIsKnown'
  BY <1>2 DEF PipelineInv, AcceptedIsKnown, enqVars, pollVars
<1> QED
  BY <1>3, <1>4, <1>5, <1>6

(* The worker has a job while it is busy, and its numbers are numbers.     *)
LEMMA BusyFacts ==
    ASSUME PipelineInv, wpc \in Busy
    PROVE  /\ wjob \in Jobs /\ NoJob \notin Jobs
           /\ total[wjob] \in Nat /\ total[wjob] >= 1 /\ offset \in Nat
           /\ sum.completed \in Nat /\ sum.failed \in Nat
           /\ reported[wjob] \in Nat /\ reported \in [Jobs -> Nat]
           /\ ChunkSize \in Nat /\ ChunkSize >= 1
           /\ ChunkLen \in Int /\ (wpc \in Loop => ChunkLen \in Nat)
           /\ faults \in Nat
<1>1. wjob \in Jobs /\ NoJob \notin Jobs
  BY FaultsAssumption DEF PipelineInv, TypeOK
<1>2. total[wjob] \in 1..MaxBatch
  BY <1>1 DEF PipelineInv, JobsInv
<1>3. total[wjob] \in Nat /\ total[wjob] >= 1
  BY <1>2, SizesAssumption
<1>4. sum.completed \in Nat /\ sum.failed \in Nat /\ offset \in Nat
      /\ reported[wjob] \in Nat /\ reported \in [Jobs -> Nat] /\ faults \in Nat
  BY <1>1, FaultsAssumption DEF PipelineInv, TypeOK, CountType
<1>5. ChunkSize \in Nat /\ ChunkSize >= 1
  BY SizesAssumption
<1>6. ChunkLen \in Int /\ (wpc \in Loop => ChunkLen \in Nat)
  BY <1>3, <1>4, <1>5 DEF ChunkLen, PipelineInv, LoopInv
<1> QED
  BY <1>1, <1>3, <1>4, <1>5, <1>6

(* A chunk's result, whatever the chunk did.                               *)
LEMMA ChunkKeeps ==
    ASSUME PipelineInv, ApplyChunk \/ ApplyChunkThrows
    PROVE  PipelineInv'
<1>1. /\ wpc = "chunk" /\ wpc \in Busy /\ wpc \in Loop
      /\ faults' \in 0..MaxFaults /\ faults <= faults'
  <2>1. wpc = "chunk"
    BY DEF ApplyChunk, ApplyChunkThrows
  <2>2. faults' = faults \/ (faults < MaxFaults /\ faults' = faults + 1)
    BY DEF ApplyChunk, ApplyChunkThrows, Works, Throws
  <2> QED
    BY <2>1, <2>2, FaultsAssumption DEF Busy, Loop, PipelineInv, TypeOK
<1>2. PICK k \in 0..ChunkLen :
         /\ ChunkResult(k, ChunkLen - k)
         /\ \/ reported' = [reported EXCEPT ![wjob] = @ + k]
            \/ k = 0 /\ UNCHANGED reported
  <2>1. CASE ApplyChunk
    BY <2>1 DEF ApplyChunk
  <2>2. CASE ApplyChunkThrows
    <3>1. ChunkLen - 0 = ChunkLen /\ 0 \in 0..ChunkLen
      BY <1>1, BusyFacts
    <3> QED
      BY <2>2, <3>1 DEF ApplyChunkThrows
  <2> QED
    BY <2>1, <2>2
<1>3. /\ wjob \in Jobs /\ ChunkLen \in Nat /\ k \in Nat /\ ChunkLen - k \in Nat
      /\ sum.completed \in Nat /\ sum.failed \in Nat /\ reported[wjob] \in Nat
      /\ reported \in [Jobs -> Nat]
  BY <1>1, <1>2, BusyFacts
<1>4. /\ wpc' = "incCompleted" /\ chunkRes' = [completed |-> k, failed |-> ChunkLen - k]
      /\ sum' = [completed |-> sum.completed + k, failed |-> sum.failed + (ChunkLen - k)]
      /\ UNCHANGED <<enqVars, queue, wjob, offset, final, inCatch, redis, mirror, pollVars,
                     hostVars, announced>>
  BY <1>2 DEF ChunkResult
<1>5. /\ reported' \in [Jobs -> Nat] /\ reported'[wjob] = reported[wjob] + k
      /\ \A j \in Jobs : reported[j] <= reported'[j]
  <2>1. CASE reported' = [reported EXCEPT ![wjob] = @ + k]
    BY <1>3, <2>1
  <2>2. CASE k = 0 /\ UNCHANGED reported
    BY <1>3, <2>2
  <2> QED
    BY <1>2, <2>1, <2>2
<1>6. TypeOK'
  <2>1. chunkRes' \in CountType /\ sum' \in CountType
    BY <1>3, <1>4 DEF CountType
  <2>2. wpc' \in Busy \cup {"idle", "ended"} /\ (wjob' \in Jobs <=> wpc' \in Busy)
    BY <1>3, <1>4 DEF Busy
  <2> QED
    BY <1>1, <1>4, <1>5, <2>1, <2>2 DEF PipelineInv, TypeOK, enqVars, pollVars, hostVars
<1>7. LoopInv'
  <2>1. /\ ~inCatch /\ sum.completed <= reported[wjob] /\ offset < total[wjob]
        /\ sum.completed + sum.failed = offset
    BY <1>1 DEF PipelineInv, LoopInv
  <2>2. ChunkLen' = ChunkLen
    BY <1>4 DEF ChunkLen, enqVars
  <2>3. /\ sum'.completed = sum.completed + k /\ sum'.failed = sum.failed + (ChunkLen - k)
    BY <1>4
  <2>4. sum'.completed <= reported'[wjob] /\ sum'.completed + sum'.failed = offset + ChunkLen
    BY <1>3, <1>5, <2>1, <2>3
  <2> QED
    BY <1>4, <2>1, <2>2, <2>4 DEF LoopInv, enqVars
<1>8. FinishInv' /\ FaultsInv'
  BY <1>1, <1>4, FaultsAssumption
     DEF FinishInv, Finishing, FaultsInv, PipelineInv, TypeOK, Busy, hostVars
<1>9. JobsInv' /\ MirrorAccounting' /\ AnnouncedWhenSettled' /\ AcceptedIsKnown'
  BY <1>3, <1>4, <1>5, OwnJobOnly DEF PipelineInv, TypeOK
<1> QED
  BY <1>6, <1>7, <1>8, <1>9 DEF PipelineInv

(* The counters of a hash stay numbers when they are incremented.          *)
LEMMA HashNumbers ==
    ASSUME NEW r \in HashType, NEW n \in Nat
    PROVE  r.completed + n \in Nat /\ r.failed + n \in Nat
<1>1. r.completed \in Nat /\ r.failed \in Nat
  BY DEF HashType
<1> QED
  BY <1>1

(* What a call of the worker may do to the hash of its job.                *)
HashOnly == /\ redis' \in [Jobs -> HashType]
            /\ \A j \in Jobs : j = wjob \/ redis'[j] = redis[j]

(* Each of the worker's commands changes the hash of its job only.         *)
LEMMA HashSteps ==
    ASSUME PipelineInv, wpc \in Busy
    PROVE  /\ \A n \in Nat : redis' = [redis EXCEPT ![wjob].exists = TRUE,
                                                    ![wjob].completed = @ + n] => HashOnly
           /\ \A n \in Nat : redis' = [redis EXCEPT ![wjob].exists = TRUE,
                                                    ![wjob].failed = @ + n] => HashOnly
           /\ \A s \in JobStatus : redis' = [redis EXCEPT ![wjob].exists = TRUE,
                                                          ![wjob].status = s] =>
                 HashOnly /\ redis'[wjob].status = s
           /\ redis' = [redis EXCEPT ![wjob].ttl = redis[wjob].exists] =>
                 /\ HashOnly /\ redis'[wjob].exists = redis[wjob].exists
                 /\ redis'[wjob].status = redis[wjob].status
           /\ redis' = redis => HashOnly
<1>1. wjob \in Jobs /\ redis \in [Jobs -> HashType] /\ redis[wjob] \in HashType
  BY BusyFacts DEF PipelineInv, TypeOK
<1>2. ASSUME NEW h \in HashType, redis' = [redis EXCEPT ![wjob] = h]
      PROVE  HashOnly /\ redis'[wjob] = h
  BY <1>1, <1>2 DEF HashOnly
<1>3. ASSUME NEW n \in Nat,
             redis' = [redis EXCEPT ![wjob].exists = TRUE, ![wjob].completed = @ + n]
      PROVE  HashOnly
  <2> DEFINE m == redis[wjob].completed + n
             h == [redis[wjob] EXCEPT !.exists = TRUE, !.completed = m]
  <2>1. h \in HashType
    <3>1. m \in Nat
      BY <1>1, HashNumbers
    <3> HIDE DEF m
    <3> QED
      BY <1>1, <3>1 DEF HashType
  <2>2. redis' = [redis EXCEPT ![wjob] = h]
    BY <1>1, <1>3
  <2> HIDE DEF h
  <2> QED
    BY <1>2, <2>1, <2>2
<1>4. ASSUME NEW n \in Nat,
             redis' = [redis EXCEPT ![wjob].exists = TRUE, ![wjob].failed = @ + n]
      PROVE  HashOnly
  <2> DEFINE m == redis[wjob].failed + n
             h == [redis[wjob] EXCEPT !.exists = TRUE, !.failed = m]
  <2>1. h \in HashType
    <3>1. m \in Nat
      BY <1>1, HashNumbers
    <3> HIDE DEF m
    <3> QED
      BY <1>1, <3>1 DEF HashType
  <2>2. redis' = [redis EXCEPT ![wjob] = h]
    BY <1>1, <1>4
  <2> HIDE DEF h
  <2> QED
    BY <1>2, <2>1, <2>2
<1>5. ASSUME NEW s \in JobStatus,
             redis' = [redis EXCEPT ![wjob].exists = TRUE, ![wjob].status = s]
      PROVE  HashOnly /\ redis'[wjob].status = s
  <2> DEFINE h == [redis[wjob] EXCEPT !.exists = TRUE, !.status = s]
  <2>1. h \in HashType /\ h.status = s
    BY <1>1 DEF HashType
  <2>2. redis' = [redis EXCEPT ![wjob] = h]
    BY <1>1, <1>5
  <2> HIDE DEF h
  <2> QED
    BY <1>2, <2>1, <2>2
<1>6. ASSUME redis' = [redis EXCEPT ![wjob].ttl = redis[wjob].exists]
      PROVE  /\ HashOnly /\ redis'[wjob].exists = redis[wjob].exists
             /\ redis'[wjob].status = redis[wjob].status
  <2> DEFINE h == [redis[wjob] EXCEPT !.ttl = redis[wjob].exists]
  <2>1. h \in HashType /\ h.exists = redis[wjob].exists /\ h.status = redis[wjob].status
    BY <1>1 DEF HashType
  <2>2. redis' = [redis EXCEPT ![wjob] = h]
    BY <1>1, <1>6
  <2> HIDE DEF h
  <2> QED
    BY <1>2, <2>1, <2>2
<1>7. redis' = redis => HashOnly
  BY <1>1 DEF HashOnly
<1> QED
  BY <1>3, <1>4, <1>5, <1>6, <1>7

(* The increments, and the verdict when the loop is over.                  *)
LEMMA IncrementKeeps ==
    ASSUME PipelineInv, IncrementCompleted \/ IncrementFailed
    PROVE  PipelineInv'
<1>1. wpc \in {"incCompleted", "incFailed"} /\ wpc \in Busy /\ wpc \in Loop
  BY DEF IncrementCompleted, IncrementFailed, Busy, Loop
<1>2. /\ UNCHANGED <<enqVars, queue, wjob, chunkRes, sum, inCatch, mirror, pollVars, hostVars,
                     faults, reported, announced>>
      /\ wjob \in Jobs /\ wjob' \in {wjob, NoJob}
  BY <1>1, BusyFacts DEF IncrementCompleted, IncrementFailed, Works
<1>3. HashOnly
  <2>1. chunkRes.completed \in Nat /\ chunkRes.failed \in Nat
    BY DEF PipelineInv, TypeOK, CountType
  <2>2. \/ redis' = redis
        \/ redis' = [redis EXCEPT ![wjob].exists = TRUE, ![wjob].completed = @ + chunkRes.completed]
        \/ redis' = [redis EXCEPT ![wjob].exists = TRUE, ![wjob].failed = @ + chunkRes.failed]
    BY DEF IncrementCompleted, IncrementFailed
  <2> QED
    BY <1>1, <2>1, <2>2, HashSteps
<1>4. JobsInv' /\ MirrorAccounting' /\ AnnouncedWhenSettled' /\ AcceptedIsKnown'
  BY <1>2, <1>3, OwnJobOnly DEF HashOnly, PipelineInv, TypeOK
<1>5. FaultsInv'
  BY <1>1, <1>2 DEF PipelineInv, LoopInv, FaultsInv, hostVars
<1>6. /\ ~inCatch /\ sum.completed <= reported[wjob] /\ offset < total[wjob]
      /\ sum.completed + sum.failed = offset + ChunkLen
  BY <1>1 DEF PipelineInv, LoopInv
<1>7. CASE IncrementCompleted
  <2>1. wpc' = "incFailed" /\ UNCHANGED <<offset, final>>
    BY <1>7 DEF IncrementCompleted
  <2>2. TypeOK'
    BY <1>2, <1>3, <2>1
       DEF PipelineInv, TypeOK, HashOnly, Busy, enqVars, pollVars, hostVars
  <2>3. ChunkLen' = ChunkLen
    BY <1>2, <2>1 DEF ChunkLen, enqVars
  <2>4. LoopInv' /\ FinishInv'
    BY <1>2, <1>6, <2>1, <2>3 DEF LoopInv, FinishInv, Loop, Finishing, enqVars
  <2> QED
    BY <1>4, <1>5, <2>2, <2>4 DEF PipelineInv
<1>8. CASE IncrementFailed /\ offset + ChunkSize < total[wjob]
  <2>1. wpc' = "chunk" /\ offset' = offset + ChunkSize /\ UNCHANGED final
    BY <1>8 DEF IncrementFailed
  <2>2. ChunkSize \in Nat /\ offset \in Nat /\ total[wjob] \in Nat
    BY <1>1, BusyFacts
  <2>3. TypeOK'
    BY <1>2, <1>3, <2>1, <2>2
       DEF PipelineInv, TypeOK, HashOnly, Busy, enqVars, pollVars, hostVars
  <2>4. ChunkLen = ChunkSize
    BY <1>8, <2>2 DEF ChunkLen
  <2>5. LoopInv' /\ FinishInv'
    BY <1>2, <1>6, <1>8, <2>1, <2>4 DEF LoopInv, FinishInv, Loop, Finishing, enqVars
  <2> QED
    BY <1>4, <1>5, <2>3, <2>5 DEF PipelineInv
<1>9. CASE IncrementFailed /\ ~(offset + ChunkSize < total[wjob])
  <2>1. /\ wpc' = "finStatus" /\ offset' = offset + ChunkSize
        /\ final' = [status |-> Verdict, completed |-> sum.completed, failed |-> sum.failed]
    BY <1>9 DEF IncrementFailed
  <2>2. /\ ChunkSize \in Nat /\ offset \in Nat /\ total[wjob] \in Nat /\ total[wjob] >= 1
        /\ sum.completed \in Nat /\ sum.failed \in Nat
    BY <1>1, BusyFacts
  <2>3. offset + ChunkLen = total[wjob]
    BY <1>9, <2>2 DEF ChunkLen
  <2>4. sum.completed + sum.failed = total[wjob]
    BY <1>6, <2>3
  <2>5. Verdict \in Terminal /\ (Verdict = "completed" => sum.completed > 0)
    BY <2>2, <2>4 DEF Verdict, Terminal
  <2>6. final' \in FinalType
    BY <2>1, <2>2, <2>5 DEF FinalType
  <2>7. TypeOK'
    BY <1>2, <1>3, <2>1, <2>2, <2>6
       DEF PipelineInv, TypeOK, HashOnly, Busy, enqVars, pollVars, hostVars
  <2>8. LoopInv' /\ FinishInv'
    <3>1. /\ final'.status \in Terminal /\ final'.completed + final'.failed = total[wjob]
          /\ final'.completed <= reported[wjob]
          /\ final'.status = "completed" => final'.completed > 0
      BY <1>6, <2>1, <2>4, <2>5
    <3> QED
      BY <1>2, <2>1, <3>1 DEF LoopInv, FinishInv, Loop, Finishing, enqVars
  <2> QED
    BY <1>4, <1>5, <2>7, <2>8 DEF PipelineInv
<1> QED
  BY <1>7, <1>8, <1>9

(* TryFinalize: the hash, its expiry, the row.                             *)
LEMMA FinalFacts ==
    ASSUME PipelineInv, wpc \in Finishing
    PROVE  /\ wpc \in Busy /\ wjob \in Jobs /\ final \in FinalType
           /\ final.status \in Terminal /\ final.status \in JobStatus
           /\ Accounted(final, wjob)
           /\ MirrorAfter(wjob) \in MirrorType /\ Accounted(MirrorAfter(wjob), wjob)
           /\ MirrorAfter(wjob).status = final.status
<1>1. wpc \in Busy
  BY DEF Finishing, Busy
<1>2. wjob \in Jobs /\ final \in FinalType /\ mirror[wjob] \in MirrorType
  BY <1>1, BusyFacts DEF PipelineInv, TypeOK
<1>3. final.status \in Terminal /\ Accounted(final, wjob)
  BY DEF PipelineInv, FinishInv, Accounted
<1>4. final.status \in JobStatus
  BY <1>3 DEF JobStatus
<1>5. /\ MirrorAfter(wjob).status = final.status
      /\ MirrorAfter(wjob).completed = final.completed
      /\ MirrorAfter(wjob).failed = final.failed
      /\ MirrorAfter(wjob) \in MirrorType
  BY <1>2, <1>4 DEF MirrorAfter, MirrorType, FinalType
<1>6. Accounted(MirrorAfter(wjob), wjob)
  BY <1>3, <1>5 DEF Accounted
<1> QED
  BY <1>1, <1>2, <1>3, <1>4, <1>5, <1>6

(* The three steps of the finalization, in their order.                    *)
LEMMA FinalizeKeeps ==
    ASSUME PipelineInv, FinalizeStatus \/ FinalizeExpire \/ FinalizeMirror
    PROVE  PipelineInv'
<1>1. wpc \in {"finStatus", "finExpire", "finMirror"} /\ wpc \in Finishing
  BY DEF FinalizeStatus, FinalizeExpire, FinalizeMirror, Finishing
<1>2. /\ wpc \in Busy /\ wjob \in Jobs /\ final.status \in Terminal /\ final.status \in JobStatus
      /\ MirrorAfter(wjob) \in MirrorType /\ Accounted(MirrorAfter(wjob), wjob)
      /\ MirrorAfter(wjob).status = final.status
  BY <1>1, FinalFacts
<1>3. /\ UNCHANGED <<enqVars, queue, wjob, offset, chunkRes, sum, final, inCatch, pollVars,
                     hostVars, faults, reported, announced>>
      /\ wjob' \in {wjob, NoJob}
      /\ wpc' \in {"finExpire", "finMirror", "publish"}
  BY DEF FinalizeStatus, FinalizeExpire, FinalizeMirror, Works
<1>4. /\ HashOnly
      /\ redis'[wjob].exists => redis'[wjob].status = final.status
  <2>1. CASE FinalizeStatus
    BY <1>2, <2>1, HashSteps DEF FinalizeStatus
  <2>2. CASE FinalizeExpire \/ FinalizeMirror
    <3>1. redis[wjob].exists => redis[wjob].status = final.status
      BY <2>2 DEF PipelineInv, FinishInv, FinalizeExpire, FinalizeMirror
    <3>2. \/ redis' = redis
          \/ redis' = [redis EXCEPT ![wjob].ttl = redis[wjob].exists]
      BY <2>2 DEF FinalizeExpire, FinalizeMirror
    <3> QED
      BY <1>2, <3>1, <3>2, HashSteps
  <2> QED
    BY <2>1, <2>2
<1>5. /\ mirror' \in [Jobs -> MirrorType]
      /\ \A j \in Jobs : \/ mirror'[j] = mirror[j]
                         \/ j = wjob /\ Accounted(mirror'[j], j)
      /\ wpc' = "publish" => mirror'[wjob].status = final.status
  <2>1. CASE FinalizeStatus \/ FinalizeExpire
    BY <2>1 DEF FinalizeStatus, FinalizeExpire, PipelineInv, TypeOK
  <2>2. CASE FinalizeMirror
    <3>1. mirror' = [mirror EXCEPT ![wjob] = MirrorAfter(wjob)]
      BY <2>2 DEF FinalizeMirror
    <3>2. mirror \in [Jobs -> MirrorType]
      BY DEF PipelineInv, TypeOK
    <3> QED
      BY <1>2, <3>1, <3>2
  <2> QED
    BY <2>1, <2>2
<1>6. JobsInv' /\ MirrorAccounting' /\ AnnouncedWhenSettled' /\ AcceptedIsKnown'
  BY <1>2, <1>3, <1>4, <1>5, OwnJobOnly DEF HashOnly, PipelineInv, TypeOK
<1>7. TypeOK'
  BY <1>2, <1>3, <1>4, <1>5
     DEF PipelineInv, TypeOK, HashOnly, Busy, enqVars, pollVars, hostVars
<1>8. LoopInv' /\ FaultsInv'
  BY <1>3 DEF PipelineInv, FaultsInv, LoopInv, Loop, Busy, hostVars
<1>9. FinishInv'
  BY <1>1, <1>3, <1>4, <1>5 DEF PipelineInv, FinishInv, Finishing, enqVars
<1> QED
  BY <1>6, <1>7, <1>8, <1>9 DEF PipelineInv

(* The event: the job leaves the worker, both stores final.                *)
LEMMA IdleWorker ==
    ASSUME PipelineInv, Forget, wpc' \in {"idle", "ended"}
    PROVE  /\ LoopInv' /\ FinishInv' /\ ~inCatch' /\ wjob' = NoJob
           /\ wpc' \in Busy \cup {"idle", "ended"}
           /\ wjob' \in Jobs \cup {NoJob} /\ (wjob' \in Jobs <=> wpc' \in Busy)
           /\ offset' \in Nat /\ inCatch' \in BOOLEAN
           /\ chunkRes' \in CountType /\ sum' \in CountType /\ final' \in FinalType
<1>1. NoJob \notin Jobs
  BY FaultsAssumption
<1>2. Count \in CountType /\ NoFinal \in FinalType
  BY DEF Count, NoFinal, CountType, FinalType
<1>3. LoopInv' /\ FinishInv'
  BY DEF LoopInv, FinishInv, Loop, Finishing
<1> QED
  BY <1>1, <1>2, <1>3 DEF Forget, Busy

(* The announcement is made once, after both stores are final.             *)
LEMMA PublishKeeps ==
    ASSUME PipelineInv, Publish
    PROVE  PipelineInv'
<1>1. wpc = "publish" /\ wpc \in Finishing /\ wpc \in Busy /\ wjob \in Jobs /\ NoJob \notin Jobs
  <2>1. wpc = "publish" /\ wpc \in Finishing /\ wpc \in Busy
    BY DEF Publish, Finishing, Busy
  <2> QED
    BY <2>1, BusyFacts
<1>2. /\ announced' = [announced EXCEPT ![wjob] = @ + 1] /\ wpc' = "idle" /\ Forget
      /\ UNCHANGED <<enqVars, queue, redis, mirror, pollVars, hostVars, faults, reported>>
  BY DEF Publish
<1>3. announced \in [Jobs -> Nat] /\ announced[wjob] = 0
  BY <1>1 DEF PipelineInv, TypeOK, JobsInv
<1>4. announced' \in [Jobs -> Nat] /\ announced'[wjob] = 1
      /\ \A j \in Jobs : j # wjob => announced'[j] = announced[j]
  BY <1>1, <1>2, <1>3
<1>5. /\ LoopInv' /\ FinishInv' /\ ~inCatch' /\ wjob' = NoJob
  BY <1>2, IdleWorker
<1>6. TypeOK'
  BY <1>2, <1>4, IdleWorker DEF PipelineInv, TypeOK, enqVars, pollVars, hostVars
<1>7. JobsInv' /\ FaultsInv'
  BY <1>1, <1>2, <1>4, <1>5 DEF PipelineInv, JobsInv, FaultsInv, enqVars, pollVars, hostVars
<1>8. MirrorAccounting' /\ AcceptedIsKnown'
  BY <1>2 DEF PipelineInv, MirrorAccounting, AcceptedIsKnown, enqVars, pollVars
<1>9. AnnouncedWhenSettled'
  <2>1. /\ mirror[wjob].status \in Terminal
        /\ redis[wjob].exists => redis[wjob].status = mirror[wjob].status
    BY <1>1 DEF PipelineInv, FinishInv
  <2> QED
    BY <1>2, <1>4, <2>1 DEF PipelineInv, AnnouncedWhenSettled
<1> QED
  BY <1>5, <1>6, <1>7, <1>8, <1>9 DEF PipelineInv

(* An exception: into the catch, or out of it and of the host.             *)
LEMMA RescueKeeps ==
    ASSUME PipelineInv, wpc \in Busy, Throws, Rescue, HashOnly,
           UNCHANGED <<enqVars, queue, pollVars, flushed, reported, announced>>,
           mirror' \in [Jobs -> MirrorType],
           \A j \in Jobs : \/ mirror'[j] = mirror[j]
                           \/ j = wjob /\ Accounted(mirror'[j], j)
    PROVE  PipelineInv'
<1>1. /\ faults \in Nat /\ faults' = faults + 1 /\ faults' \in 0..MaxFaults
      /\ wjob \in Jobs /\ total[wjob] \in Nat /\ reported[wjob] \in Nat
  BY BusyFacts, FaultsAssumption DEF Throws, PipelineInv, TypeOK
<1>2. wjob' \in {wjob, NoJob}
  BY DEF Rescue, Forget
<1>3. JobsInv' /\ MirrorAccounting' /\ AnnouncedWhenSettled' /\ AcceptedIsKnown'
  BY <1>1, <1>2, OwnJobOnly DEF HashOnly, PipelineInv, TypeOK
<1>4. CASE inCatch
  <2>1. wpc' = "ended" /\ host' = "stopping" /\ Forget /\ UNCHANGED stops
    BY <1>4 DEF Rescue
  <2>2. TypeOK'
    BY <1>1, <2>1, IdleWorker DEF PipelineInv, TypeOK, HashOnly, enqVars, pollVars
  <2>3. LoopInv' /\ FinishInv' /\ FaultsInv'
    BY <1>1, <1>4, <2>1, IdleWorker DEF PipelineInv, FaultsInv
  <2> QED
    BY <1>3, <2>2, <2>3 DEF PipelineInv
<1>5. CASE ~inCatch
  <2>1. /\ wpc' = "finStatus" /\ inCatch' = TRUE
        /\ final' = [status |-> "failed", completed |-> 0, failed |-> total[wjob]]
        /\ UNCHANGED <<wjob, offset, chunkRes, sum, host, stops>>
    BY <1>5 DEF Rescue
  <2>2. final' \in FinalType
    BY <1>1, <2>1 DEF FinalType, Terminal
  <2>3. TypeOK'
    BY <1>1, <2>1, <2>2 DEF PipelineInv, TypeOK, HashOnly, Busy, enqVars, pollVars
  <2>4. LoopInv' /\ FinishInv'
    BY <1>1, <2>1 DEF LoopInv, FinishInv, Loop, Finishing, Terminal, enqVars
  <2>5. FaultsInv'
    BY <1>1, <2>1 DEF PipelineInv, FaultsInv, Busy
  <2> QED
    BY <1>3, <2>3, <2>4, <2>5 DEF PipelineInv
<1> QED
  BY <1>4, <1>5

(* A call to Redis or to the row throws: the rescue takes over, or the     *)
(* host stops when the rescue itself was running.                          *)
LEMMA ThrowsKeeps ==
    ASSUME PipelineInv, RedisThrows \/ MirrorThrows
    PROVE  PipelineInv'
<1>1. CASE RedisThrows
  <2>1. /\ wpc \in {"incCompleted", "incFailed", "finStatus", "finExpire"} /\ wpc \in Busy
        /\ Throws /\ Rescue
        /\ UNCHANGED <<enqVars, queue, mirror, pollVars, flushed, reported, announced>>
    BY <1>1 DEF RedisThrows, Busy
  <2>2. HashOnly
    <3>1. chunkRes.completed \in Nat /\ chunkRes.failed \in Nat
      BY DEF PipelineInv, TypeOK, CountType
    <3>2. wpc = "finStatus" => final.status \in JobStatus
      BY FinalFacts DEF Finishing
    <3>3. \/ redis' = redis
          \/ redis' = [redis EXCEPT ![wjob].exists = TRUE,
                                    ![wjob].completed = @ + chunkRes.completed]
          \/ redis' = [redis EXCEPT ![wjob].exists = TRUE, ![wjob].failed = @ + chunkRes.failed]
          \/ wpc = "finStatus" /\
             redis' = [redis EXCEPT ![wjob].exists = TRUE, ![wjob].status = final.status]
          \/ redis' = [redis EXCEPT ![wjob].ttl = redis[wjob].exists]
      BY <1>1 DEF RedisThrows
    <3> QED
      BY <2>1, <3>1, <3>2, <3>3, HashSteps
  <2>3. mirror' \in [Jobs -> MirrorType] /\ mirror' = mirror
    BY <2>1 DEF PipelineInv, TypeOK
  <2> QED
    BY <2>1, <2>2, <2>3, RescueKeeps
<1>2. CASE MirrorThrows
  <2>1. /\ wpc \in Finishing /\ wpc \in Busy /\ Throws /\ Rescue
        /\ mirror' = mirror \/ mirror' = [mirror EXCEPT ![wjob] = MirrorAfter(wjob)]
        /\ UNCHANGED <<enqVars, queue, redis, pollVars, flushed, reported, announced>>
    BY <1>2 DEF MirrorThrows, Busy, Finishing
  <2>2. HashOnly
    BY <2>1, HashSteps
  <2>3. MirrorAfter(wjob) \in MirrorType /\ Accounted(MirrorAfter(wjob), wjob) /\ wjob \in Jobs
    BY <2>1, FinalFacts
  <2>4. mirror \in [Jobs -> MirrorType]
    BY DEF PipelineInv, TypeOK
  <2>5. /\ mirror' \in [Jobs -> MirrorType]
        /\ \A j \in Jobs : \/ mirror'[j] = mirror[j]
                           \/ j = wjob /\ Accounted(mirror'[j], j)
    BY <2>1, <2>3, <2>4
  <2> QED
    BY <2>1, <2>2, <2>5, RescueKeeps
<1> QED
  BY <1>1, <1>2

(* The worker takes the job at the head, which is not queued twice.        *)
LEMMA HeadAndTail ==
    ASSUME NEW S, NEW q \in Seq(S), q # <<>>,
           \A m, n \in 1..Len(q) : q[m] = q[n] => m = n
    PROVE  /\ Head(q) \in Range(q) /\ Head(q) \in S
           /\ Tail(q) \in Seq(S)
           /\ Range(Tail(q)) \subseteq Range(q)
           /\ Head(q) \notin Range(Tail(q))
           /\ \A m, n \in 1..Len(Tail(q)) : Tail(q)[m] = Tail(q)[n] => m = n
<1>1. /\ Len(q) \in Nat /\ Len(q) >= 1 /\ Head(q) = q[1] /\ DOMAIN q = 1..Len(q)
      /\ \A k \in 1..Len(q) : q[k] \in S
  OBVIOUS
<1>2. /\ Tail(q) \in Seq(S) /\ Len(Tail(q)) = Len(q) - 1
      /\ DOMAIN Tail(q) = 1..Len(q) - 1
      /\ \A k \in 1..Len(q) - 1 : Tail(q)[k] = q[k + 1]
  BY <1>1
<1> DEFINE t == Tail(q)
           l == Len(q)
<1>3. /\ l \in Nat /\ l >= 1 /\ Len(t) = l - 1 /\ DOMAIN t = 1..(l - 1)
      /\ \A k \in 1..(l - 1) : t[k] = q[k + 1] /\ k + 1 \in 1..l
      /\ \A m, n \in 1..l : q[m] = q[n] => m = n
      /\ DOMAIN q = 1..l /\ Head(q) = q[1] /\ 1 \in 1..l
  BY <1>1, <1>2
<1>4. Head(q) \in Range(q) /\ Head(q) \in S
  BY <1>1, <1>3 DEF Range
<1> HIDE DEF t, l
<1>5. Range(t) \subseteq Range(q)
  BY <1>3 DEF Range
<1>6. Head(q) \notin Range(t)
  <2> SUFFICES ASSUME NEW k \in 1..(l - 1), t[k] = q[1] PROVE FALSE
    BY <1>3 DEF Range
  <2>1. q[k + 1] = q[1] /\ k + 1 \in 1..l /\ 1 \in 1..l
    BY <1>3
  <2>2. k + 1 = 1
    BY <1>3, <2>1
  <2> QED
    BY <1>3, <2>2
<1>7. \A m, n \in 1..Len(t) : t[m] = t[n] => m = n
  <2> SUFFICES ASSUME NEW m \in 1..(l - 1), NEW n \in 1..(l - 1), t[m] = t[n] PROVE m = n
    BY <1>3
  <2>1. q[m + 1] = q[n + 1] /\ m + 1 \in 1..l /\ n + 1 \in 1..l
    BY <1>3
  <2>2. m + 1 = n + 1
    BY <1>3, <2>1
  <2> QED
    BY <1>3, <2>2
<1> QED
  BY <1>2, <1>4, <1>5, <1>6, <1>7 DEF t

(* The worker takes the next job of the queue.                             *)
LEMMA TakeKeeps ==
    ASSUME PipelineInv, Take
    PROVE  PipelineInv'
<1> DEFINE h == Head(queue)
           t == Tail(queue)
<1>1. /\ wpc = "idle" /\ queue # <<>> /\ queue \in Seq(Jobs)
      /\ \A m, n \in 1..Len(queue) : queue[m] = queue[n] => m = n
  BY DEF Take, PipelineInv, TypeOK, JobsInv
<1>2. /\ h \in Range(queue) /\ h \in Jobs /\ t \in Seq(Jobs)
      /\ Range(t) \subseteq Range(queue) /\ h \notin Range(t)
      /\ \A m, n \in 1..Len(t) : t[m] = t[n] => m = n
  BY <1>1, HeadAndTail
<1>3. /\ wjob' = h /\ queue' = t /\ wpc' = "chunk" /\ offset' = 0 /\ sum' = Count
      /\ UNCHANGED <<enqVars, chunkRes, final, inCatch, redis, mirror, pollVars, hostVars,
                     faults, reported, announced>>
  BY DEF Take
<1> HIDE DEF h, t
<1>4. enq[h] = "accepted" /\ announced[h] # 1 /\ total[h] \in 1..MaxBatch
  BY <1>2 DEF PipelineInv, JobsInv
<1>5. TypeOK'
  <2>1. Count \in CountType
    BY DEF Count, CountType
  <2> QED
    BY <1>2, <1>3, <2>1 DEF PipelineInv, TypeOK, Busy, enqVars, pollVars, hostVars
<1>6. LoopInv' /\ FinishInv'
  <2>1. ~inCatch
    BY <1>1 DEF PipelineInv, FaultsInv, Busy
  <2>2. reported[h] \in Nat /\ total[h] \in Nat /\ total[h] >= 1
    BY <1>2, <1>4, SizesAssumption DEF PipelineInv, TypeOK
  <2> QED
    BY <1>3, <2>1, <2>2 DEF LoopInv, FinishInv, Loop, Finishing, Count, enqVars
<1>7. JobsInv'
  <2>1. ASSUME NEW j \in Jobs
        PROVE  /\ enq[j] = "idle" => mirror[j].status = "none"
               /\ enq[j] \in {"inserting", "initing", "queueing", "accepted"} =>
                     total[j] \in 1..MaxBatch
               /\ enq[j] \in {"initing", "queueing", "accepted"} => mirror[j].status # "none"
               /\ announced[j] <= 1
               /\ announced[j] = 1 => enq[j] = "accepted" /\ j # h /\ j \notin Range(t)
               /\ j = h => enq[j] = "accepted"
               /\ j \in Range(t) => enq[j] = "accepted" /\ j # h
    BY <1>2, <1>4 DEF PipelineInv, JobsInv
  <2>2. poll.pc # "idle" => poll.job \in Jobs /\ enq[poll.job] = "accepted"
    BY DEF PipelineInv, JobsInv
  <2> QED
    BY <1>2, <1>3, <2>1, <2>2 DEF JobsInv, enqVars, pollVars
<1>8. FaultsInv' /\ MirrorAccounting' /\ AnnouncedWhenSettled' /\ AcceptedIsKnown'
  BY <1>3 DEF PipelineInv, FaultsInv, Busy, MirrorAccounting, AnnouncedWhenSettled, AcceptedIsKnown,
              enqVars, pollVars, hostVars
<1> QED
  BY <1>5, <1>6, <1>7, <1>8 DEF PipelineInv

(* The stop ends the worker, or nothing happens.                           *)
LEMMA CancelledKeeps ==
    ASSUME PipelineInv, WorkerCancelled
    PROVE  PipelineInv'
<1>1. /\ wpc' = "ended" /\ Forget /\ wjob' = NoJob
      /\ UNCHANGED <<enqVars, queue, redis, mirror, pollVars, hostVars, faults, reported, announced>>
  BY DEF WorkerCancelled, Forget
<1>2. LoopInv' /\ FinishInv' /\ ~inCatch'
  BY <1>1, IdleWorker
<1>3. TypeOK'
  BY <1>1, IdleWorker DEF PipelineInv, TypeOK, enqVars, pollVars, hostVars
<1>4. JobsInv' /\ FaultsInv'
  BY <1>1, <1>2, FaultsAssumption
     DEF PipelineInv, JobsInv, FaultsInv, enqVars, pollVars, hostVars
<1>5. MirrorAccounting' /\ AnnouncedWhenSettled' /\ AcceptedIsKnown'
  BY <1>1 DEF PipelineInv, MirrorAccounting, AnnouncedWhenSettled, AcceptedIsKnown, enqVars, pollVars
<1> QED
  BY <1>2, <1>3, <1>4, <1>5 DEF PipelineInv

(* A step that changes nothing.                                            *)
LEMMA StutterKeeps ==
    ASSUME PipelineInv, UNCHANGED vars
    PROVE  PipelineInv'
<1>1. TypeOK'
  BY DEF PipelineInv, TypeOK, vars, enqVars, workVars, pollVars, hostVars
<1>2. LoopInv' /\ FinishInv'
  BY WorkerApart DEF vars, enqVars
<1>3. JobsInv' /\ FaultsInv'
  BY DEF PipelineInv, JobsInv, FaultsInv, vars, enqVars, workVars, pollVars, hostVars
<1>4. MirrorAccounting' /\ AnnouncedWhenSettled' /\ AcceptedIsKnown'
  BY DEF PipelineInv, MirrorAccounting, AnnouncedWhenSettled, AcceptedIsKnown, vars, enqVars, pollVars
<1> QED
  BY <1>1, <1>2, <1>3, <1>4 DEF PipelineInv

(* Every step of the pipeline keeps the invariant (BulkJobService,         *)
(* BulkWorker).                                                            *)
THEOREM PipelineNext == PipelineInv /\ [Next]_vars => PipelineInv'
<1> SUFFICES ASSUME PipelineInv, [Next]_vars PROVE PipelineInv'
  OBVIOUS
<1>1. ASSUME NEW j \in Jobs, Enqueue(j) \/ EnqueueFail(j)
      PROVE  PipelineInv'
  BY <1>1, InsertKeeps, InitKeeps, WriteKeeps, EnqueueFailKeeps DEF Enqueue
<1>2. CASE Work
  BY <1>2, TakeKeeps, ChunkKeeps, IncrementKeeps, FinalizeKeeps, PublishKeeps, ThrowsKeeps,
     CancelledKeeps DEF Work
<1>3. ASSUME NEW j \in Jobs, PollStart(j) \/ Expire(j)
      PROVE  PipelineInv'
  BY <1>3, PollKeeps, HostKeeps
<1>4. CASE Poll \/ Stop \/ StopEnds \/ Kill \/ Restart \/ Flush
  BY <1>4, PollKeeps, HostKeeps
<1>5. CASE Idle \/ UNCHANGED vars
  BY <1>5, StutterKeeps DEF Idle
<1> QED
  BY <1>1, <1>2, <1>3, <1>4, <1>5, ReceiveKeeps DEF Next

(* The inductive invariant holds in every reachable state of the pipeline. *)
THEOREM PipelineInvariant == Spec => []PipelineInv
BY PipelineInit, PipelineNext, PTL DEF Spec

(* Every variable of the pipeline has its type; the worker has a job       *)
(* exactly while it is busy.                                               *)
THEOREM PipelineTyped == Spec => []TypeOK
<1>1. PipelineInv => TypeOK
  BY DEF PipelineInv
<1> QED
  BY <1>1, PipelineInvariant, PTL

(* The row of a finished job accounts for every id, whatever failed,       *)
(* stopped or was lost on the way (BulkWorker.TryFinalize).                *)
THEOREM RowsAccount == Spec => []MirrorAccounting
<1>1. PipelineInv => MirrorAccounting
  BY DEF PipelineInv
<1> QED
  BY <1>1, PipelineInvariant, PTL

(* bulk_completed is published at most once and when both stores agree.    *)
THEOREM AnnouncementsSettle == Spec => []AnnouncedWhenSettled
<1>1. PipelineInv => AnnouncedWhenSettled
  BY DEF PipelineInv
<1> QED
  BY <1>1, PipelineInvariant, PTL

(* A job whose id was handed out is never answered with a 404.             *)
THEOREM AcceptedAreKnown == Spec => []AcceptedIsKnown
<1>1. PipelineInv => AcceptedIsKnown
  BY DEF PipelineInv
<1> QED
  BY <1>1, PipelineInvariant, PTL

(* One failing call leaves the host up: the catch of ExecuteAsync holds    *)
(* one exception, and only a second one leaves it.                         *)
THEOREM OneFaultIsSurvived == Spec => []OneFaultSurvived
<1>1. PipelineInv => OneFaultSurvived
  BY FaultsAssumption DEF PipelineInv, TypeOK, FaultsInv, OneFaultSurvived
<1> QED
  BY <1>1, PipelineInvariant, PTL

-----------------------------------------------------------------------------
(* The lifecycle of a job.                                                 *)

(* A job's row is as it was inserted until its verdict is stored, and the  *)
(* verdict "failed" comes with no id completed.                            *)
VerdictInv ==
    /\ \A j \in Jobs :
          /\ enq[j] \in {"idle", "inserting"} => mirror[j] = NoMirror
          /\ enq[j] \in {"initing", "queueing"} \/ j \in Range(queue) =>
                mirror[j].status = "processing"
          /\ mirror[j].status # "none" => mirror[j].total = total[j]
    /\ wpc \in Loop \cup {"finStatus", "finExpire", "finMirror"} /\ ~inCatch =>
          mirror[wjob].status = "processing"
    /\ wpc \in Finishing => (final.status = "failed" => final.completed = 0)
    /\ inCatch => wpc \in Finishing /\ final.status = "failed"

(* No job has a row, and the worker no verdict, at the start.              *)
LEMMA VerdictInit == Init => VerdictInv
BY DEF Init, VerdictInv, NoMirror, Loop, Finishing, Range

(* Steps beside the worker that write no row.                              *)
LEMMA VerdictApart ==
    ASSUME VerdictInv, UNCHANGED <<workVars, mirror>>,
           \A j \in Jobs :
              /\ enq'[j] \in {"idle", "inserting"} => enq[j] \in {"idle", "inserting"}
              /\ enq'[j] \in {"initing", "queueing"} => enq[j] \in {"initing", "queueing"}
              /\ j \in Range(queue)' => j \in Range(queue) \/ enq[j] = "queueing"
              /\ total'[j] = total[j] \/ enq[j] = "idle"
    PROVE  VerdictInv'
<1>1. /\ UNCHANGED <<wpc, wjob, final, inCatch, mirror>>
      /\ \A j \in Jobs : mirror[j].status # "none" => mirror[j].total = total[j]
  BY DEF VerdictInv, workVars
<1>2. ASSUME NEW j \in Jobs
      PROVE  mirror'[j].status # "none" => mirror'[j].total = total'[j]
  BY <1>1 DEF VerdictInv, NoMirror
<1> QED
  BY <1>1, <1>2 DEF VerdictInv

(* Nobody but the worker and the insertion writes a row.                   *)
LEMMA VerdictOutside ==
    ASSUME PipelineInv, VerdictInv,
           \/ \E j \in Jobs : \/ \E n \in 0..MaxBatch + 1 : EnqueueReceive(j, n)
                              \/ Enqueue(j) \/ EnqueueFail(j) \/ PollStart(j) \/ Expire(j)
           \/ Poll \/ Stop \/ Restart \/ Flush \/ Idle \/ UNCHANGED vars
    PROVE  VerdictInv'
<1>1. enq \in [Jobs -> {"idle", "rejected", "inserting", "initing", "queueing",
                        "accepted", "failed"}]
      /\ queue \in Seq(Jobs) /\ mirror \in [Jobs -> MirrorType] /\ total \in [Jobs -> Sizes]
  BY DEF PipelineInv, TypeOK
<1>2. ASSUME NEW j \in Jobs, NEW n \in 0..MaxBatch + 1, EnqueueReceive(j, n)
      PROVE  VerdictInv'
  <2>1. /\ enq[j] = "idle" /\ total' = [total EXCEPT ![j] = n]
        /\ enq' = [enq EXCEPT ![j] = IF ValidBatch(n) THEN "inserting" ELSE "rejected"]
        /\ UNCHANGED <<queue, workVars, mirror>>
    BY <1>2 DEF EnqueueReceive
  <2> QED
    BY <1>1, <2>1, VerdictApart
<1>3. ASSUME NEW j \in Jobs, EnqueueInsert(j)
      PROVE  VerdictInv'
  <2>1. /\ enq[j] = "inserting" /\ enq' = [enq EXCEPT ![j] = "initing"]
        /\ mirror' = [mirror EXCEPT ![j] = [status |-> "processing", total |-> total[j],
                                            completed |-> 0, failed |-> 0]]
        /\ UNCHANGED <<total, queue, wpc, wjob, final, inCatch>>
    BY <1>3 DEF EnqueueInsert, workVars
  <2>2. j # wjob /\ j \notin Range(queue)
    BY <2>1, NotAccepted
  <2>3. mirror'[j].status = "processing" /\ mirror'[j].total = total'[j]
    BY <1>1, <2>1
  <2>4. \A i \in Jobs : i # j => mirror'[i] = mirror[i] /\ enq'[i] = enq[i]
    BY <1>1, <2>1
  <2>5. enq'[j] = "initing"
    BY <1>1, <2>1
  <2>6. wpc \in Busy => wjob \in Jobs
    BY BusyFacts
  <2>7. wpc \in Loop \cup {"finStatus", "finExpire", "finMirror"} => wpc \in Busy
    BY DEF Loop, Busy
  <2>8. \A i \in Jobs :
          /\ enq'[i] \in {"idle", "inserting"} => mirror'[i] = NoMirror
          /\ enq'[i] \in {"initing", "queueing"} \/ i \in Range(queue) =>
                mirror'[i].status = "processing"
          /\ mirror'[i].status # "none" => mirror'[i].total = total[i]
    BY <2>1, <2>2, <2>3, <2>4, <2>5 DEF VerdictInv
  <2>9. wpc \in Loop \cup {"finStatus", "finExpire", "finMirror"} /\ ~inCatch =>
           mirror'[wjob].status = "processing"
    BY <2>2, <2>4, <2>6, <2>7 DEF VerdictInv
  <2> QED
    BY <2>1, <2>8, <2>9 DEF VerdictInv
<1>4. ASSUME NEW j \in Jobs, EnqueueInit(j) \/ EnqueueFail(j)
      PROVE  VerdictInv'
  <2>1. /\ enq[j] # "idle" /\ enq[j] \in {"inserting", "initing", "queueing"}
        /\ \/ enq' = [enq EXCEPT ![j] = "failed"]
           \/ enq[j] = "initing" /\ enq' = [enq EXCEPT ![j] = "queueing"]
        /\ UNCHANGED <<total, queue, workVars, mirror>>
    BY <1>4 DEF EnqueueInit, EnqueueFail
  <2> QED
    BY <1>1, <2>1, VerdictApart
<1>5. ASSUME NEW j \in Jobs, EnqueueWrite(j)
      PROVE  VerdictInv'
  <2>1. /\ enq[j] = "queueing" /\ enq' = [enq EXCEPT ![j] = "accepted"]
        /\ queue' = Append(queue, j) /\ UNCHANGED <<total, workVars, mirror>>
    BY <1>5 DEF EnqueueWrite
  <2>2. \A i \in Range(queue') : i \in Range(queue) \/ i = j
    BY <1>1, <2>1 DEF Range
  <2> QED
    BY <1>1, <2>1, <2>2, VerdictApart
<1>6. ASSUME \/ \E j \in Jobs : PollStart(j) \/ Expire(j)
             \/ Poll \/ Stop \/ Restart \/ Flush \/ Idle \/ UNCHANGED vars
      PROVE  VerdictInv'
  <2>1. UNCHANGED <<enq, total, queue, workVars, mirror>>
    BY <1>6 DEF PollStart, Expire, Poll, PollRedis, PollMiss, PollMirror, PollThrows, PollAnswer,
       Stop, Restart, Flush, Idle, vars, enqVars
  <2> QED
    BY <2>1, VerdictApart
<1> QED
  BY <1>2, <1>3, <1>4, <1>5, <1>6 DEF Enqueue

(* A host that goes down forgets the queue and the worker's job.           *)
LEMMA VerdictDown ==
    ASSUME PipelineInv, VerdictInv, GoDown
    PROVE  VerdictInv'
<1>1. /\ queue' = <<>> /\ wpc' = "idle" /\ inCatch' = FALSE /\ UNCHANGED <<total, mirror>>
      /\ enq' = [j \in Jobs |-> IF enq[j] \in {"inserting", "initing", "queueing"}
                                THEN "failed" ELSE enq[j]]
  BY DEF GoDown, Forget
<1>2. Range(queue') = {}
  BY <1>1 DEF Range
<1> QED
  BY <1>1, <1>2 DEF VerdictInv, Loop, Finishing

(* What the worker changes of rows is its own job's.                       *)
LEMMA VerdictWork ==
    ASSUME VerdictInv, UNCHANGED <<enqVars, total>>,
           \A j \in Range(queue)' : j \in Range(queue) /\ j # wjob,
           \A j \in Jobs : enq[j] \in {"idle", "inserting", "initing", "queueing"} => j # wjob,
           \A j \in Jobs : j # wjob => mirror'[j] = mirror[j],
           wjob \in Jobs => (mirror'[wjob].status # "none" => mirror'[wjob].total = total[wjob]),
           wpc' \in Loop \cup {"finStatus", "finExpire", "finMirror"} /\ ~inCatch' =>
              mirror'[wjob'].status = "processing",
           wpc' \in Finishing => (final'.status = "failed" => final'.completed = 0),
           inCatch' => wpc' \in Finishing /\ final'.status = "failed"
    PROVE  VerdictInv'
<1>1. ASSUME NEW j \in Jobs
      PROVE  /\ enq'[j] \in {"idle", "inserting"} => mirror'[j] = NoMirror
             /\ enq'[j] \in {"initing", "queueing"} \/ j \in Range(queue)' =>
                   mirror'[j].status = "processing"
             /\ mirror'[j].status # "none" => mirror'[j].total = total'[j]
  BY DEF VerdictInv, enqVars
<1> QED
  BY <1>1 DEF VerdictInv

(* The worker's job was accepted and is not queued again.                  *)
LEMMA OwnJobApart ==
    ASSUME PipelineInv
    PROVE  /\ \A j \in Jobs : enq[j] \in {"idle", "inserting", "initing", "queueing"} => j # wjob
           /\ \A j \in Range(queue) : j \in Jobs /\ j # wjob
<1>1. Range(queue) \subseteq Jobs
  BY DEF PipelineInv, TypeOK, Range
<1> QED
  BY <1>1 DEF PipelineInv, JobsInv

(* The row's update keeps the row's total.                                 *)
RowWritten == mirror'[wjob].total = total[wjob] /\ \A j \in Jobs : j # wjob => mirror'[j] = mirror[j]

(* FinalizeJobAsync updates the verdict and the counts of one row.         *)
LEMMA RowWrittenKeeps ==
    ASSUME PipelineInv, VerdictInv, wpc \in Finishing,
           mirror' = [mirror EXCEPT ![wjob] = MirrorAfter(wjob)]
    PROVE  RowWritten
<1>1. wjob \in Jobs /\ mirror \in [Jobs -> MirrorType] /\ mirror[wjob] \in MirrorType
  BY FinalFacts DEF PipelineInv, TypeOK
<1>2. MirrorAfter(wjob).total = mirror[wjob].total
  BY <1>1 DEF MirrorAfter, MirrorType
<1>3. mirror[wjob].total = total[wjob]
  BY <1>1 DEF PipelineInv, JobsInv, VerdictInv
<1> QED
  BY <1>1, <1>2, <1>3 DEF RowWritten

(* The worker's steps that write no row.                                   *)
LEMMA VerdictNoRow ==
    ASSUME PipelineInv, VerdictInv, UNCHANGED <<enqVars, mirror>>,
           Range(queue') \subseteq Range(queue),
           wjob' \in Range(queue') => wjob' = wjob,
           wpc' \in Loop \cup {"finStatus", "finExpire", "finMirror"} /\ ~inCatch' =>
              mirror[wjob'].status = "processing",
           wpc' \in Finishing => (final'.status = "failed" => final'.completed = 0),
           inCatch' => wpc' \in Finishing /\ final'.status = "failed"
    PROVE  VerdictInv'
<1>1. \A j \in Range(queue') : j \in Range(queue) /\ j # wjob
  BY OwnJobApart
<1>2. wjob \in Jobs => (mirror'[wjob].status # "none" => mirror'[wjob].total = total[wjob])
  BY DEF VerdictInv
<1> QED
  BY <1>1, <1>2, OwnJobApart, VerdictWork DEF enqVars

(* The worker's steps.                                                     *)
LEMMA VerdictWorker ==
    ASSUME PipelineInv, VerdictInv, Work
    PROVE  VerdictInv'
<1>1. CASE Take
  <2>1. /\ wpc = "idle" /\ queue # <<>> /\ queue \in Seq(Jobs)
        /\ \A m, n \in 1..Len(queue) : queue[m] = queue[n] => m = n
    BY <1>1 DEF Take, PipelineInv, TypeOK, JobsInv
  <2>2. /\ Head(queue) \in Range(queue) /\ Head(queue) \in Jobs
        /\ Range(Tail(queue)) \subseteq Range(queue) /\ Head(queue) \notin Range(Tail(queue))
    BY <2>1, HeadAndTail
  <2>3. /\ wjob' = Head(queue) /\ queue' = Tail(queue) /\ wpc' = "chunk"
        /\ UNCHANGED <<enqVars, final, inCatch, mirror>>
    BY <1>1 DEF Take
  <2>4. ~inCatch /\ mirror[Head(queue)].status = "processing"
    BY <2>1, <2>2 DEF PipelineInv, FaultsInv, Busy, VerdictInv
  <2> QED
    BY <2>2, <2>3, <2>4, VerdictNoRow DEF Finishing
<1>2. CASE ApplyChunk \/ ApplyChunkThrows
  <2>1. /\ wpc = "chunk" /\ wpc' = "incCompleted"
        /\ UNCHANGED <<enqVars, queue, wjob, final, inCatch, mirror>>
    BY <1>2 DEF ApplyChunk, ApplyChunkThrows, ChunkResult
  <2>2. ~inCatch /\ mirror[wjob].status = "processing" /\ wjob \in Jobs
    BY <2>1, BusyFacts DEF PipelineInv, LoopInv, VerdictInv, Loop, Busy
  <2> QED
    BY <2>1, <2>2, OwnJobApart, VerdictNoRow DEF Finishing
<1>3. CASE IncrementCompleted \/ IncrementFailed
  <2>1. /\ wpc \in Loop /\ wpc \in Busy /\ wpc' \in {"incFailed", "chunk", "finStatus"}
        /\ UNCHANGED <<enqVars, queue, wjob, inCatch, mirror>>
        /\ wpc' \in Finishing => final'.status = Verdict /\ final'.completed = sum.completed
    BY <1>3 DEF IncrementCompleted, IncrementFailed, Loop, Busy, Finishing
  <2>2. ~inCatch /\ mirror[wjob].status = "processing" /\ wjob \in Jobs
    BY <2>1, BusyFacts DEF PipelineInv, LoopInv, VerdictInv
  <2>3. Verdict = "failed" => sum.completed = 0
    BY DEF Verdict
  <2> QED
    BY <2>1, <2>2, <2>3, OwnJobApart, VerdictNoRow
<1>4. CASE FinalizeStatus \/ FinalizeExpire
  <2>1. /\ wpc \in {"finStatus", "finExpire"} /\ wpc' \in {"finExpire", "finMirror"}
        /\ UNCHANGED <<enqVars, queue, wjob, final, inCatch, mirror>>
    BY <1>4 DEF FinalizeStatus, FinalizeExpire
  <2>2. wjob \in Jobs
    BY <2>1, BusyFacts DEF Busy
  <2> QED
    BY <2>1, <2>2, OwnJobApart, VerdictNoRow DEF VerdictInv, Finishing
<1>5. CASE FinalizeMirror
  <2>1. /\ wpc = "finMirror" /\ wpc' = "publish"
        /\ mirror' = [mirror EXCEPT ![wjob] = MirrorAfter(wjob)]
        /\ UNCHANGED <<enqVars, queue, wjob, final, inCatch>>
    BY <1>5 DEF FinalizeMirror
  <2>2. RowWritten
    BY <2>1, RowWrittenKeeps DEF Finishing
  <2> QED
    BY <2>1, <2>2, OwnJobApart, VerdictWork
       DEF RowWritten, VerdictInv, Loop, Finishing, enqVars
<1>6. CASE Publish \/ WorkerCancelled
  <2>1. /\ wpc' \in {"idle", "ended"} /\ wjob' = NoJob /\ inCatch' = FALSE
        /\ UNCHANGED <<enqVars, queue, mirror>>
    BY <1>6 DEF Publish, WorkerCancelled, Forget
  <2>2. NoJob \notin Range(queue)
    BY OwnJobApart, FaultsAssumption
  <2> QED
    BY <2>1, <2>2, VerdictNoRow DEF Loop, Finishing
<1>7. CASE RedisThrows \/ MirrorThrows
  <2>1. /\ Rescue /\ UNCHANGED <<enqVars, queue>>
        /\ \/ UNCHANGED mirror
           \/ /\ wpc = "finMirror" /\ mirror' = [mirror EXCEPT ![wjob] = MirrorAfter(wjob)]
    BY <1>7 DEF RedisThrows, MirrorThrows
  <2>2. /\ wpc' \in Loop \cup {"finStatus", "finExpire", "finMirror"} => inCatch'
        /\ wpc' \in Finishing => final'.status = "failed" /\ final'.completed = 0
        /\ inCatch' => wpc' \in Finishing /\ final'.status = "failed"
    BY <2>1 DEF Rescue, Forget, Loop, Finishing
  <2>3. wjob \in Jobs => (mirror'[wjob].status # "none" => mirror'[wjob].total = total[wjob])
    BY <2>1, RowWrittenKeeps DEF RowWritten, VerdictInv, Finishing
  <2>4. \A j \in Jobs : j # wjob => mirror'[j] = mirror[j]
    BY <2>1 DEF PipelineInv, TypeOK
  <2> QED
    BY <2>1, <2>2, <2>3, <2>4, OwnJobApart, VerdictWork DEF enqVars
<1> QED
  BY <1>1, <1>2, <1>3, <1>4, <1>5, <1>6, <1>7 DEF Work

(* Every step keeps the job's row and verdict in order.                    *)
LEMMA VerdictNext == PipelineInv /\ VerdictInv /\ [Next]_vars => VerdictInv'
<1> SUFFICES ASSUME PipelineInv, VerdictInv, [Next]_vars PROVE VerdictInv'
  OBVIOUS
<1>1. CASE StopEnds \/ Kill
  BY <1>1, VerdictDown DEF StopEnds, Kill
<1> QED
  BY <1>1, VerdictWorker, VerdictOutside DEF Next

(* Steps of the lifecycle.                                                 *)

(* The row the worker stores is a verdict of the lifecycle, or replaces    *)
(* one that was stored by an update that threw.                            *)
LEMMA RowStep ==
    ASSUME PipelineInv, VerdictInv, wpc = "finMirror",
           mirror' = [mirror EXCEPT ![wjob] = MirrorAfter(wjob)], UNCHANGED announced
    PROVE  Lifecycle!Next \/ SecondVerdict
<1>1. /\ wjob \in Jobs /\ mirror \in [Jobs -> MirrorType] /\ mirror[wjob] \in MirrorType
      /\ total[wjob] \in Nat /\ final \in FinalType /\ final.status \in Terminal
      /\ final.completed + final.failed = total[wjob]
      /\ final.status = "completed" => final.completed > 0
  BY FinalFacts, BusyFacts DEF PipelineInv, TypeOK, Finishing, Accounted
<1>2. final.status = "failed" => final.completed = 0
  BY DEF VerdictInv, Finishing
<1>3. mirror[wjob].status # "none" /\ mirror[wjob].total = total[wjob]
  BY <1>1 DEF PipelineInv, JobsInv, VerdictInv
<1> DEFINE k == final.completed
<1>4. /\ k \in 0..total[wjob] /\ final.failed = total[wjob] - k
      /\ final.status = IF k = 0 THEN "failed" ELSE "completed"
  <2>1. k \in Nat /\ final.failed \in Nat
    BY <1>1 DEF FinalType
  <2> QED
    BY <1>1, <1>2, <2>1 DEF Terminal
<1>5. CASE mirror[wjob].status = "processing"
  <2>1. mirror' = [mirror EXCEPT ![wjob].status = IF k = 0 THEN "failed" ELSE "completed",
                                 ![wjob].completed = k,
                                 ![wjob].failed = mirror[wjob].total - k]
    BY <1>1, <1>3, <1>4 DEF MirrorAfter, MirrorType
  <2>2. Lifecycle!Finish(wjob)
    BY <1>3, <1>4, <1>5, <2>1 DEF Lifecycle!Finish
  <2> QED
    BY <1>1, <2>2 DEF Lifecycle!Next
<1>6. CASE mirror[wjob].status \in Terminal
  <2>1. inCatch /\ final.status = "failed" /\ k = 0
    BY <1>2, <1>6 DEF VerdictInv, Terminal
  <2>2. final.failed = total[wjob]
    BY <1>1, <2>1 DEF FinalType
  <2>3. mirror' = [mirror EXCEPT ![wjob].status = "failed", ![wjob].completed = 0,
                                 ![wjob].failed = total[wjob]]
    BY <1>1, <2>1, <2>2 DEF MirrorAfter, MirrorType
  <2> QED
    BY <1>6, <2>1, <2>3 DEF SecondVerdict
<1> QED
  BY <1>1, <1>3, <1>5, <1>6 DEF MirrorType, JobStatus

(* Every step of the pipeline is a step of the lifecycle, a stutter or the *)
(* second verdict.                                                         *)
LEMMA LifecycleStep ==
    PipelineInv /\ VerdictInv /\ [Next]_vars =>
       [Lifecycle!Next \/ SecondVerdict]_(Lifecycle!vars)
<1> SUFFICES ASSUME PipelineInv, VerdictInv, [Next]_vars
             PROVE  Lifecycle!Next \/ SecondVerdict \/ UNCHANGED Lifecycle!vars
  OBVIOUS
<1>1. ASSUME UNCHANGED <<mirror, announced>>
      PROVE  UNCHANGED Lifecycle!vars
  BY <1>1 DEF Lifecycle!vars
<1>2. ASSUME NEW j \in Jobs, EnqueueInsert(j)
      PROVE  Lifecycle!Next
  <2>1. /\ enq[j] = "inserting" /\ mirror[j] = NoMirror /\ total[j] \in 1..MaxBatch
        /\ mirror \in [Jobs -> MirrorType]
    BY <1>2 DEF EnqueueInsert, PipelineInv, TypeOK, JobsInv, VerdictInv
  <2>2. mirror' = [mirror EXCEPT ![j].status = "processing", ![j].total = total[j]]
    <3> DEFINE m == [NoMirror EXCEPT !.status = "processing", !.total = total[j]]
    <3>1. m = [status |-> "processing", total |-> total[j], completed |-> 0, failed |-> 0]
      <4>1. total[j] \in Nat
        BY <2>1, SizesAssumption
      <4>2. NoMirror \in MirrorType
        BY DEF NoMirror, MirrorType
      <4>3. /\ m \in MirrorType /\ m.status = "processing" /\ m.total = total[j]
            /\ m.completed = NoMirror.completed /\ m.failed = NoMirror.failed
        BY <4>1, <4>2 DEF MirrorType, JobStatus
      <4>4. NoMirror.completed = 0 /\ NoMirror.failed = 0
        BY DEF NoMirror
      <4> HIDE DEF m
      <4> QED
        BY <4>3, <4>4 DEF MirrorType
    <3>2. mirror' = [mirror EXCEPT ![j] = m]
      BY <1>2, <3>1 DEF EnqueueInsert
    <3> QED
      BY <2>1, <3>2
  <2>3. UNCHANGED announced
    BY <1>2 DEF EnqueueInsert
  <2>4. Lifecycle!Record(j, total[j])
    BY <2>1, <2>2, <2>3 DEF Lifecycle!Record, NoMirror
  <2> QED
    BY <2>1, <2>4 DEF Lifecycle!Next
<1>3. CASE Publish
  <2>1. /\ wpc = "publish" /\ announced' = [announced EXCEPT ![wjob] = @ + 1]
        /\ UNCHANGED mirror
    BY <1>3 DEF Publish
  <2>2. /\ wjob \in Jobs /\ announced \in [Jobs -> Nat] /\ announced[wjob] = 0
        /\ mirror[wjob].status \in Terminal
    <3>1. wpc \in Busy /\ wpc \in Finishing
      BY <2>1 DEF Busy, Finishing
    <3>2. wjob \in Jobs
      BY <3>1, BusyFacts
    <3>3. announced \in [Jobs -> Nat] /\ announced[wjob] <= 1 /\ announced[wjob] # 1
      BY <3>2 DEF PipelineInv, TypeOK, JobsInv
    <3>4. mirror[wjob].status \in Terminal
      BY <2>1, <3>1 DEF PipelineInv, FinishInv
    <3> QED
      BY <3>2, <3>3, <3>4
  <2>3. {j \in Jobs : announced'[j] # 0} = {j \in Jobs : announced[j] # 0} \cup {wjob}
    <3>1. \A j \in Jobs : announced'[j] # 0 <=> announced[j] # 0 \/ j = wjob
      BY <2>1, <2>2
    <3> QED
      BY <2>2, <3>1
  <2>4. PICK j \in Jobs : j = wjob
    BY <2>2
  <2>5. j \notin {i \in Jobs : announced[i] # 0} /\ mirror[j].status \in Terminal
    BY <2>2, <2>4
  <2>6. Lifecycle!Announce(j)
    BY <2>1, <2>3, <2>4, <2>5 DEF Lifecycle!Announce, Terminal
  <2> QED
    BY <2>6 DEF Lifecycle!Next
<1>4. CASE FinalizeMirror \/ MirrorThrows
  <2>1. /\ wpc = "finMirror" /\ UNCHANGED announced
        /\ UNCHANGED mirror \/ mirror' = [mirror EXCEPT ![wjob] = MirrorAfter(wjob)]
    BY <1>4 DEF FinalizeMirror, MirrorThrows
  <2> QED
    BY <1>1, <2>1, RowStep
<1>5. CASE \/ Take \/ ApplyChunk \/ ApplyChunkThrows \/ IncrementCompleted \/ IncrementFailed
           \/ FinalizeStatus \/ FinalizeExpire \/ RedisThrows \/ WorkerCancelled
  BY <1>1, <1>5 DEF Take, ApplyChunk, ApplyChunkThrows, ChunkResult, IncrementCompleted,
     IncrementFailed, FinalizeStatus, FinalizeExpire, RedisThrows, WorkerCancelled
<1>6. ASSUME NEW j \in Jobs,
             \/ \E n \in 0..MaxBatch + 1 : EnqueueReceive(j, n)
             \/ EnqueueInit(j) \/ EnqueueWrite(j) \/ EnqueueFail(j) \/ PollStart(j) \/ Expire(j)
      PROVE  UNCHANGED Lifecycle!vars
  BY <1>1, <1>6 DEF EnqueueReceive, EnqueueInit, EnqueueWrite, EnqueueFail, PollStart, Expire
<1>7. CASE Poll \/ Stop \/ StopEnds \/ Kill \/ Restart \/ Flush \/ Idle \/ UNCHANGED vars
  BY <1>1, <1>7 DEF Poll, PollRedis, PollMiss, PollMirror, PollThrows, PollAnswer, Stop,
     StopEnds, Kill, GoDown, Restart, Flush, Idle, vars
<1> QED
  BY <1>2, <1>3, <1>4, <1>5, <1>6, <1>7 DEF Next, Enqueue, Work

(* No job is recorded or announced at the start.                           *)
LEMMA LifecycleInit == Init => Lifecycle!Init
BY DEF Init, Lifecycle!Init, NoMirror

(* Whatever fails, stops, expires or is lost, a job's row is inserted as   *)
(* processing, gets one verdict that accounts for every id, and is         *)
(* announced once, afterwards: the pipeline never leaves the lifecycle,    *)
(* but for the second verdict after an update that threw with its effect   *)
(* (BulkService.EnqueueAsync, BulkWorker.TryFinalize and its catch).       *)
THEOREM LifecycleFollowed == Spec => LifecycleSteps
<1>1. PipelineInv /\ VerdictInv /\ [Next]_vars => VerdictInv'
  BY VerdictNext
<1>2. Spec => [](PipelineInv /\ VerdictInv)
  BY <1>1, PipelineInvariant, VerdictInit, PTL DEF Spec
<1> QED
  BY <1>2, LifecycleInit, LifecycleStep, PTL DEF Spec, LifecycleSteps

(* With no failing call there is no second verdict: the pipeline is safe   *)
(* as the lifecycle is.                                                    *)
THEOREM LifecycleImplemented ==
    ASSUME MaxFaults = 0
    PROVE  Spec => Lifecycle!Init /\ [][Lifecycle!Next]_(Lifecycle!vars)
<1>1. PipelineInv => ~inCatch
  BY DEF PipelineInv, TypeOK, FaultsInv
<1>2. ~inCatch /\ [Lifecycle!Next \/ SecondVerdict]_(Lifecycle!vars) =>
         [Lifecycle!Next]_(Lifecycle!vars)
  BY DEF SecondVerdict
<1> QED
  BY <1>1, <1>2, PipelineInvariant, LifecycleFollowed, PTL DEF LifecycleSteps

-----------------------------------------------------------------------------
(* What a client is told about a job.                                      *)

(* The hash as InitAsync writes it.                                        *)
FreshHash(j) == [exists |-> TRUE, status |-> "processing", total |-> total[j],
                 completed |-> 0, failed |-> 0, ttl |-> FALSE]

(* The store a poll answers from.                                          *)
Source(j) == IF redis[j].exists THEN redis[j] ELSE mirror[j]

(* What the worker's next increments still add to the hash.                *)
Left(pcs, n) == IF wpc \in pcs THEN n ELSE 0

(* The hash of the worker's job has every id the loop counted, but for     *)
(* the chunk whose increments are under way; the row follows it.           *)
WorkedInv ==
    wpc \in Busy =>
       /\ redis[wjob].exists
       /\ redis[wjob].completed + Left({"incCompleted"}, chunkRes.completed) = sum.completed
       /\ redis[wjob].failed + Left({"incCompleted", "incFailed"}, chunkRes.failed) = sum.failed
       /\ wpc \in Loop \cup {"finStatus"} => redis[wjob].status = "processing"
       /\ wpc \in Finishing => final.completed = sum.completed /\ final.failed = sum.failed
       /\ wpc = "publish" => /\ mirror[wjob].completed = final.completed
                             /\ mirror[wjob].failed = final.failed

(* A queued job's hash is fresh; a job without one has its final row; and  *)
(* a hash that may expire says what its row says.                          *)
SourcesInv ==
    \A j \in Jobs :
       /\ enq[j] = "queueing" \/ j \in Range(queue) => redis[j] = FreshHash(j)
       /\ enq[j] = "accepted" /\ ~redis[j].exists => mirror[j].status \in Terminal
       /\ redis[j].ttl /\ j # wjob /\ stops = 0 =>
              /\ mirror[j].status \in Terminal
              /\ mirror[j].status = redis[j].status
              /\ mirror[j].completed = redis[j].completed
              /\ mirror[j].failed = redis[j].failed

(* No answer is ahead of the store the next one comes from.                *)
Behind(a, s) == /\ a.completed <= s.completed /\ a.failed <= s.failed
                /\ a.status \in Terminal => s.status = a.status

ToldInv ==
    /\ poll.pc = "mirror" => ~redis[poll.job].exists
    /\ \A j \in Jobs : answer[j].code = 200 =>
          enq[j] = "accepted" /\ Behind(answer[j], Source(j))

CalmInv == Undisturbed => WorkedInv /\ SourcesInv /\ ToldInv

(* Nothing is accepted or answered at the start.                           *)
LEMMA CalmInit == Init => CalmInv
<1> SUFFICES ASSUME Init PROVE WorkedInv /\ SourcesInv /\ ToldInv
  BY DEF CalmInv
<1>1. WorkedInv
  BY DEF Init, WorkedInv, Busy
<1>2. SourcesInv
  <2>1. Range(queue) = {}
    BY DEF Init, Range
  <2> QED
    BY <2>1 DEF Init, SourcesInv, NoHash
<1>3. ToldInv
  BY DEF Init, ToldInv, NoAnswer
<1> QED
  BY <1>1, <1>2, <1>3

(* While nothing disturbs the pipeline the worker is not in its catch, and *)
(* a host that is not up was stopped.                                      *)
LEMMA CalmFacts ==
    ASSUME PipelineInv, Undisturbed
    PROVE  /\ faults = 0 /\ stops \in Nat /\ ~inCatch
           /\ host # "up" => stops # 0
           /\ MayExpire => stops = 0
BY FaultsAssumption DEF PipelineInv, TypeOK, FaultsInv, Undisturbed

(* What disturbed the pipeline stays so.                                   *)
LEMMA CalmBefore ==
    ASSUME PipelineInv, [Next]_vars, Undisturbed'
    PROVE  /\ Undisturbed /\ faults' = faults /\ ~Throws
           /\ stops' = stops \/ stops' # 0
<1>1. faults \in Nat /\ stops \in Nat /\ flushed \in BOOLEAN
  BY FaultsAssumption DEF PipelineInv, TypeOK
<1> DEFINE Grow == /\ faults' = faults \/ faults' = faults + 1
                   /\ stops' = stops \/ stops' = stops + 1
                   /\ flushed' = flushed \/ flushed'
<1>2. Grow
  <2>1. ASSUME NEW j \in Jobs,
               \/ \E n \in 0..MaxBatch + 1 : EnqueueReceive(j, n)
               \/ EnqueueInsert(j) \/ EnqueueInit(j) \/ EnqueueWrite(j) \/ EnqueueFail(j)
               \/ PollStart(j) \/ Expire(j)
        PROVE  Grow
    BY <2>1 DEF EnqueueReceive, EnqueueInsert, EnqueueInit, EnqueueWrite, EnqueueFail, PollStart,
       Expire, Works, Throws, hostVars
  <2>2. CASE \/ Take \/ ApplyChunk \/ ApplyChunkThrows \/ IncrementCompleted \/ IncrementFailed
             \/ FinalizeStatus \/ FinalizeExpire \/ FinalizeMirror \/ Publish \/ WorkerCancelled
    BY <2>2 DEF Take, ApplyChunk, ApplyChunkThrows, ChunkResult, IncrementCompleted,
       IncrementFailed, FinalizeStatus, FinalizeExpire, FinalizeMirror, Publish,
       WorkerCancelled, Works, Throws, hostVars
  <2>3. CASE RedisThrows \/ MirrorThrows
    BY <2>3 DEF RedisThrows, MirrorThrows, Throws, Rescue
  <2>4. CASE Poll
    BY <2>4 DEF Poll, PollRedis, PollMiss, PollMirror, PollThrows, PollAnswer, Works, Throws,
       hostVars
  <2>5. CASE Stop \/ StopEnds \/ Kill \/ Restart \/ Flush
    BY <2>5 DEF Stop, StopEnds, Kill, GoDown, Restart, Flush
  <2>6. CASE Idle \/ UNCHANGED vars
    BY <2>6 DEF Idle, vars, hostVars
  <2> QED
    BY <2>1, <2>2, <2>3, <2>4, <2>5, <2>6 DEF Next, Enqueue, Work
<1> QED
  BY <1>1, <1>2 DEF Undisturbed, Throws

(* Steps that touch neither the worker nor its job's stores.               *)
LEMMA WorkedApart ==
    ASSUME WorkedInv, PipelineInv, UNCHANGED workVars,
           wjob \in Jobs => redis'[wjob] = redis[wjob] /\ mirror'[wjob] = mirror[wjob]
    PROVE  WorkedInv'
<1>1. wpc \in Busy => wjob \in Jobs
  BY BusyFacts
<1> QED
  BY <1>1 DEF WorkedInv, Left, workVars

(* The answers stay behind a source that does not fall back.               *)
LEMMA ToldApart ==
    ASSUME ToldInv, UNCHANGED <<poll, answer>>,
           poll.pc = "mirror" => redis'[poll.job].exists = redis[poll.job].exists,
           \A j \in Jobs : enq[j] = "accepted" =>
              /\ enq'[j] = "accepted"
              /\ answer[j].code = 200 /\ Behind(answer[j], Source(j)) =>
                    Behind(answer[j], Source(j)')
    PROVE  ToldInv'
<1>1. ASSUME NEW j \in Jobs, answer'[j].code = 200
      PROVE  enq'[j] = "accepted" /\ Behind(answer[j], Source(j)')
  BY <1>1 DEF ToldInv
<1>2. \A j \in Jobs : answer'[j].code = 200 =>
          enq'[j] = "accepted" /\ Behind(answer'[j], Source(j)')
  BY <1>1
<1>3. poll'.pc = "mirror" => ~redis'[poll'.job].exists
  BY DEF ToldInv
<1> QED
  BY <1>2, <1>3 DEF ToldInv, Behind

(* POST /api/orders/bulk-actions: nobody polls for the job yet.            *)
LEMMA CalmEnqueue ==
    ASSUME PipelineInv, VerdictInv, WorkedInv, SourcesInv, ToldInv, NEW i \in Jobs,
           \/ \E n \in 0..MaxBatch + 1 : EnqueueReceive(i, n)
           \/ EnqueueInsert(i) \/ EnqueueInit(i) \/ EnqueueWrite(i)
    PROVE  WorkedInv' /\ SourcesInv' /\ ToldInv'
<1>1. /\ enq[i] \in {"idle", "inserting", "initing", "queueing"}
      /\ UNCHANGED <<workVars, pollVars, hostVars>>
  BY DEF EnqueueReceive, EnqueueInsert, EnqueueInit, EnqueueWrite
<1>2. i # wjob /\ i \notin Range(queue) /\ (poll.pc # "idle" => poll.job # i)
  BY <1>1, NotAccepted
<1>3. /\ enq \in [Jobs -> {"idle", "rejected", "inserting", "initing", "queueing",
                           "accepted", "failed"}]
      /\ total \in [Jobs -> Sizes] /\ queue \in Seq(Jobs)
      /\ redis \in [Jobs -> HashType] /\ mirror \in [Jobs -> MirrorType]
  BY DEF PipelineInv, TypeOK
<1>4. /\ \A j \in Jobs : j # i => /\ enq'[j] = enq[j] /\ total'[j] = total[j]
                                  /\ redis'[j] = redis[j] /\ mirror'[j] = mirror[j]
      /\ queue' = queue \/ queue' = Append(queue, i)
      /\ \/ /\ enq[i] = "idle" /\ enq'[i] \in {"inserting", "rejected"} /\ queue' = queue
            /\ redis' = redis /\ mirror' = mirror
         \/ /\ enq[i] = "inserting" /\ enq'[i] = "initing" /\ queue' = queue /\ redis' = redis
         \/ /\ enq[i] = "initing" /\ enq'[i] = "queueing" /\ queue' = queue
            /\ redis'[i] = FreshHash(i) /\ total'[i] = total[i]
         \/ /\ enq[i] = "queueing" /\ enq'[i] = "accepted" /\ redis' = redis /\ mirror' = mirror
            /\ total'[i] = total[i]
  <2>1. CASE \E n \in 0..MaxBatch + 1 : EnqueueReceive(i, n)
    BY <1>3, <2>1 DEF EnqueueReceive
  <2>2. CASE EnqueueInsert(i)
    BY <1>3, <2>2 DEF EnqueueInsert
  <2>3. CASE EnqueueInit(i)
    BY <1>3, <2>3 DEF EnqueueInit, FreshHash
  <2>4. CASE EnqueueWrite(i)
    BY <1>3, <2>4 DEF EnqueueWrite
  <2> QED
    BY <2>1, <2>2, <2>3, <2>4
<1>5. \A j \in Jobs : j # i /\ j \in Range(queue') => j \in Range(queue)
  BY <1>3, <1>4 DEF Range
<1>6. queue' = queue => i \notin Range(queue')
  BY <1>2
<1>7. WorkedInv'
  BY <1>1, <1>2, <1>4, WorkedApart
<1>8. ASSUME NEW j \in Jobs, j # i
      PROVE  FreshHash(j)' = FreshHash(j)
  BY <1>4, <1>8 DEF FreshHash
<1>9. SourcesInv'
  <2>1. stops = 0 => ~redis[i].ttl \/ enq[i] # "inserting"
    BY <1>2 DEF SourcesInv, VerdictInv, NoMirror, Terminal
  <2>2. FreshHash(i).ttl = FALSE /\ FreshHash(i).exists = TRUE
    BY DEF FreshHash
  <2>3. total'[i] = total[i] => FreshHash(i)' = FreshHash(i)
    BY DEF FreshHash
  <2>4. /\ enq'[i] = "queueing" \/ i \in Range(queue') => redis'[i] = FreshHash(i)'
        /\ enq'[i] = "accepted" /\ ~redis'[i].exists => mirror'[i].status \in Terminal
        /\ redis'[i].ttl /\ i # wjob' /\ stops' = 0 =>
              /\ mirror'[i].status \in Terminal
              /\ mirror'[i].status = redis'[i].status
              /\ mirror'[i].completed = redis'[i].completed
              /\ mirror'[i].failed = redis'[i].failed
    BY <1>1, <1>2, <1>4, <1>6, <2>1, <2>2, <2>3 DEF SourcesInv, workVars, hostVars
  <2>5. ASSUME NEW j \in Jobs, j # i
        PROVE  /\ enq'[j] = "queueing" \/ j \in Range(queue') => redis'[j] = FreshHash(j)'
               /\ enq'[j] = "accepted" /\ ~redis'[j].exists => mirror'[j].status \in Terminal
               /\ redis'[j].ttl /\ j # wjob' /\ stops' = 0 =>
                     /\ mirror'[j].status \in Terminal
                     /\ mirror'[j].status = redis'[j].status
                     /\ mirror'[j].completed = redis'[j].completed
                     /\ mirror'[j].failed = redis'[j].failed
    BY <1>1, <1>4, <1>5, <1>8, <2>5 DEF SourcesInv, workVars, hostVars
  <2> QED
    BY <2>4, <2>5 DEF SourcesInv
<1>10. ToldInv'
  <2>1. ASSUME NEW j \in Jobs, enq[j] = "accepted"
        PROVE  enq'[j] = "accepted" /\ Source(j)' = Source(j)
    BY <1>1, <1>4, <2>1 DEF Source
  <2>2. poll.pc = "mirror" => redis'[poll.job].exists = redis[poll.job].exists
    BY <1>2, <1>4 DEF PipelineInv, JobsInv
  <2> QED
    BY <1>1, <2>1, <2>2, ToldApart DEF pollVars
<1> QED
  BY <1>7, <1>9, <1>10

(* The 200 of a poll.                                                      *)
AnswerFrom(s) == [code |-> 200, status |-> s.status, total |-> s.total,
                  completed |-> s.completed, failed |-> s.failed]

(* A poll that is not disturbed answers with the job's source.             *)
LEMMA PollReads ==
    ASSUME PipelineInv, ToldInv, ~Throws, Poll
    PROVE  /\ UNCHANGED <<enqVars, queue, workVars, redis, mirror, hostVars>>
           /\ \/ UNCHANGED answer /\ poll'.job = poll.job /\ ~redis[poll.job].exists
              \/ /\ poll.job \in Jobs /\ enq[poll.job] = "accepted" /\ poll'.pc = "idle"
                 /\ answer' = [answer EXCEPT ![poll.job] = AnswerFrom(Source(poll.job))]
<1>1. CASE PollRedis
  <2>1. Source(poll.job) = redis[poll.job] /\ poll.pc # "idle"
    BY <1>1 DEF PollRedis, Source
  <2> QED
    BY <1>1, <2>1 DEF PollRedis, PollAnswer, AnswerFrom, PipelineInv, JobsInv
<1>2. CASE PollMiss
  BY <1>2 DEF PollMiss, PipelineInv, TypeOK
<1>3. CASE PollMirror
  <2>1. poll.pc = "mirror" /\ Source(poll.job) = mirror[poll.job]
    BY <1>3 DEF PollMirror, Source, ToldInv
  <2>2. poll.job \in Jobs /\ enq[poll.job] = "accepted" /\ mirror[poll.job].status # "none"
    BY <2>1 DEF PipelineInv, JobsInv
  <2> QED
    BY <1>3, <2>1, <2>2 DEF PollMirror, PollAnswer, AnswerFrom
<1>4. CASE PollThrows
  BY <1>4 DEF PollThrows
<1> QED
  BY <1>1, <1>2, <1>3, <1>4 DEF Poll

(* GET /api/jobs/:id changes no store.                                     *)
LEMMA CalmPoll ==
    ASSUME PipelineInv, WorkedInv, SourcesInv, ToldInv, ~Throws,
           (\E j \in Jobs : PollStart(j)) \/ Poll
    PROVE  WorkedInv' /\ SourcesInv' /\ ToldInv'
<1>1. UNCHANGED <<enqVars, queue, workVars, redis, mirror, hostVars>>
  BY PollReads DEF PollStart
<1>2. WorkedInv'
  BY <1>1, WorkedApart
<1>3. SourcesInv'
  BY <1>1 DEF SourcesInv, FreshHash, enqVars, workVars, hostVars
<1>4. \A j \in Jobs : Source(j)' = Source(j)
  BY <1>1 DEF Source
<1>5. ASSUME UNCHANGED answer, poll'.pc = "mirror" => ~redis[poll'.job].exists
      PROVE  ToldInv'
  BY <1>1, <1>4, <1>5 DEF ToldInv, enqVars
<1>6. ASSUME poll.job \in Jobs, enq[poll.job] = "accepted", poll'.pc = "idle",
             answer' = [answer EXCEPT ![poll.job] = AnswerFrom(Source(poll.job))]
      PROVE  ToldInv'
  <2>1. Source(poll.job) \in HashType \cup MirrorType
    BY <1>6 DEF Source, PipelineInv, TypeOK
  <2>2. Source(poll.job).completed \in Nat /\ Source(poll.job).failed \in Nat
    BY <2>1 DEF HashType, MirrorType
  <2>3. Behind(AnswerFrom(Source(poll.job)), Source(poll.job))
    BY <2>2 DEF Behind, AnswerFrom
  <2>4. answer \in [Jobs -> AnswerType]
    BY DEF PipelineInv, TypeOK
  <2>5. ASSUME NEW j \in Jobs, answer'[j].code = 200
        PROVE  enq'[j] = "accepted" /\ Behind(answer'[j], Source(j)')
    <3>1. CASE j = poll.job
      BY <1>1, <1>4, <1>6, <2>3, <2>4, <3>1 DEF enqVars
    <3>2. CASE j # poll.job
      BY <1>1, <1>4, <1>6, <2>4, <2>5, <3>2 DEF ToldInv, enqVars
    <3> QED
      BY <3>1, <3>2
  <2> QED
    BY <1>6, <2>5 DEF ToldInv, Behind
<1>7. CASE \E j \in Jobs : PollStart(j)
  <2>1. UNCHANGED answer /\ poll'.pc = "redis"
    BY <1>7 DEF PollStart
  <2> QED
    BY <1>2, <1>3, <1>5, <2>1
<1>8. CASE Poll
  <2>1. CASE UNCHANGED answer /\ poll'.job = poll.job /\ ~redis[poll.job].exists
    <3>1. redis' = redis
      BY <1>1
    <3> QED
      BY <1>2, <1>3, <1>5, <2>1, <3>1
  <2>2. CASE /\ poll.job \in Jobs /\ enq[poll.job] = "accepted" /\ poll'.pc = "idle"
             /\ answer' = [answer EXCEPT ![poll.job] = AnswerFrom(Source(poll.job))]
    BY <1>2, <1>3, <1>6, <2>2
  <2> QED
    BY <1>8, <2>1, <2>2, PollReads
<1> QED
  BY <1>7, <1>8

(* Stops and restarts keep the stores; a hash that expires hands over to a *)
(* row that says the same.                                                 *)
LEMMA CalmHost ==
    ASSUME PipelineInv, WorkedInv, SourcesInv, ToldInv, Undisturbed, Undisturbed',
           \/ Stop \/ StopEnds \/ Kill \/ Restart \/ Flush
           \/ \E j \in Jobs : Expire(j)
    PROVE  WorkedInv' /\ SourcesInv' /\ ToldInv'
<1>0. stops \in Nat /\ (host # "up" => stops # 0) /\ (MayExpire => stops = 0)
  BY CalmFacts
<1>1. CASE Stop \/ Restart
  <2>1. /\ UNCHANGED <<enqVars, queue, workVars, redis, mirror, pollVars>>
        /\ stops' = stops \/ stops' # 0
    BY <1>0, <1>1 DEF Stop, Restart
  <2>2. WorkedInv'
    BY <2>1, WorkedApart
  <2>3. SourcesInv'
    BY <1>0, <2>1 DEF SourcesInv, FreshHash, enqVars, workVars
  <2>4. ToldInv'
    BY <2>1, ToldApart DEF Source, enqVars, pollVars
  <2> QED
    BY <2>2, <2>3, <2>4
<1>2. CASE StopEnds \/ Kill
  <2>1. /\ GoDown /\ stops' # 0
    BY <1>0, <1>2 DEF StopEnds, Kill, Stopping
  <2>2. /\ queue' = <<>> /\ wpc' = "idle" /\ poll'.pc = "idle"
        /\ enq' = [j \in Jobs |-> IF enq[j] \in {"inserting", "initing", "queueing"}
                                  THEN "failed" ELSE enq[j]]
        /\ UNCHANGED <<total, redis, mirror, answer>>
    BY <2>1 DEF GoDown
  <2>3. Range(queue') = {} /\ \A j \in Jobs : Source(j)' = Source(j)
    BY <2>2 DEF Range, Source
  <2>4. \A j \in Jobs : /\ enq'[j] # "queueing"
                        /\ enq'[j] = "accepted" <=> enq[j] = "accepted"
    BY <2>2
  <2>5. WorkedInv'
    BY <2>2 DEF WorkedInv, Busy
  <2>6. SourcesInv'
    BY <2>1, <2>2, <2>3, <2>4 DEF SourcesInv
  <2>7. ToldInv'
    BY <2>2, <2>3, <2>4 DEF ToldInv
  <2> QED
    BY <2>5, <2>6, <2>7
<1>3. CASE Flush
  BY <1>3 DEF Flush, Undisturbed
<1>4. ASSUME NEW i \in Jobs, Expire(i)
      PROVE  WorkedInv' /\ SourcesInv' /\ ToldInv'
  <2>1. /\ stops = 0 /\ redis[i].ttl /\ i # wjob /\ i # poll.job
        /\ redis' = [redis EXCEPT ![i] = NoHash] /\ redis \in [Jobs -> HashType]
        /\ UNCHANGED <<enqVars, queue, workVars, mirror, pollVars, hostVars>>
    BY <1>0, <1>4 DEF Expire, PipelineInv, TypeOK
  <2>2. /\ redis'[i] = NoHash /\ ~redis'[i].exists /\ ~redis'[i].ttl
        /\ \A j \in Jobs : j # i => redis'[j] = redis[j]
    BY <2>1 DEF NoHash
  <2>3. /\ mirror[i].status \in Terminal /\ mirror[i].status = redis[i].status
        /\ mirror[i].completed = redis[i].completed /\ mirror[i].failed = redis[i].failed
    BY <2>1 DEF SourcesInv
  <2>4. enq[i] # "queueing" /\ i \notin Range(queue)
    BY <2>1 DEF SourcesInv, FreshHash
  <2>5. WorkedInv'
    BY <2>1, <2>2, WorkedApart
  <2>6. \A j \in Jobs : FreshHash(j)' = FreshHash(j)
    BY <2>1 DEF FreshHash, enqVars
  <2>7. SourcesInv'
    BY <2>1, <2>2, <2>3, <2>4, <2>6 DEF SourcesInv, enqVars, workVars, hostVars
  <2>8. ASSUME NEW j \in Jobs, Behind(answer[j], Source(j))
        PROVE  Behind(answer[j], Source(j)')
    <3>1. CASE j = i
      BY <2>1, <2>2, <2>3, <2>8, <3>1 DEF Behind, Source
    <3>2. CASE j # i
      BY <2>1, <2>2, <2>8, <3>2 DEF Source
    <3> QED
      BY <3>1, <3>2
  <2>9. poll.pc = "mirror" => poll.job \in Jobs /\ poll.job # i
    BY <2>1 DEF PipelineInv, JobsInv
  <2>10. ToldInv'
    BY <2>1, <2>2, <2>8, <2>9, ToldApart DEF enqVars, pollVars
  <2> QED
    BY <2>5, <2>7, <2>10
<1> QED
  BY <1>1, <1>2, <1>3, <1>4

(* The worker adds to the counts of its job's hash and stores its verdict  *)
(* once; until it is announced no answer comes from the row.               *)
LEMMA WorkerSources ==
    ASSUME PipelineInv, SourcesInv, ToldInv, wpc \in Busy,
           UNCHANGED <<enqVars, queue, wjob, pollVars, stops>>, HashOnly,
           \A j \in Jobs : j # wjob => mirror'[j] = mirror[j],
           redis[wjob].exists, redis'[wjob].exists,
           redis[wjob].completed <= redis'[wjob].completed,
           redis[wjob].failed <= redis'[wjob].failed,
           redis'[wjob].status = redis[wjob].status \/ redis[wjob].status = "processing"
    PROVE  SourcesInv' /\ ToldInv'
<1>1. /\ wjob \in Jobs /\ wjob \notin Range(queue) /\ enq[wjob] = "accepted"
      /\ \A j \in Jobs : j # wjob => redis'[j] = redis[j]
      /\ redis[wjob] \in HashType /\ redis'[wjob] \in HashType
  BY BusyFacts DEF PipelineInv, TypeOK, JobsInv, HashOnly
<1>2. \A j \in Jobs : FreshHash(j)' = FreshHash(j)
  BY DEF FreshHash, enqVars
<1>3. SourcesInv'
  BY <1>1, <1>2 DEF SourcesInv, enqVars
<1>4. ASSUME NEW j \in Jobs, Behind(answer[j], Source(j))
      PROVE  Behind(answer[j], Source(j)')
  <2>1. CASE j = wjob
    <3>1. Source(j) = redis[wjob] /\ Source(j)' = redis'[wjob]
      BY <2>1 DEF Source
    <3>2. answer[j].completed \in Nat /\ answer[j].failed \in Nat
      <4>1. answer[j] \in AnswerType
        BY DEF PipelineInv, TypeOK
      <4> QED
        BY <4>1 DEF AnswerType
    <3>3. /\ redis[wjob].completed \in Nat /\ redis'[wjob].completed \in Nat
          /\ redis[wjob].failed \in Nat /\ redis'[wjob].failed \in Nat
      BY <1>1 DEF HashType
    <3> QED
      BY <1>4, <3>1, <3>2, <3>3 DEF Behind, Terminal
  <2>2. CASE j # wjob
    BY <1>1, <1>4, <2>2 DEF Source
  <2> QED
    BY <2>1, <2>2
<1>5. poll.pc = "mirror" => redis'[poll.job].exists = redis[poll.job].exists
  <2>1. poll.pc = "mirror" => poll.job \in Jobs /\ poll.job # wjob
    BY DEF PipelineInv, JobsInv, ToldInv
  <2> QED
    BY <1>1, <2>1
<1>6. ToldInv'
  BY <1>4, <1>5, ToldApart DEF enqVars, pollVars
<1> QED
  BY <1>3, <1>6

(* What each command of the worker does to the fields of the hash.         *)
LEMMA HashFields ==
    ASSUME NEW f \in [Jobs -> HashType], NEW j \in Jobs, NEW n \in Nat, NEW s \in JobStatus
    PROVE  /\ LET g == [f EXCEPT ![j].exists = TRUE, ![j].completed = @ + n]
              IN  /\ g[j].exists /\ g[j].completed = f[j].completed + n
                  /\ g[j].failed = f[j].failed /\ g[j].status = f[j].status
           /\ LET g == [f EXCEPT ![j].exists = TRUE, ![j].failed = @ + n]
              IN  /\ g[j].exists /\ g[j].failed = f[j].failed + n
                  /\ g[j].completed = f[j].completed /\ g[j].status = f[j].status
           /\ LET g == [f EXCEPT ![j].exists = TRUE, ![j].status = s]
              IN  /\ g[j].exists /\ g[j].failed = f[j].failed
                  /\ g[j].completed = f[j].completed /\ g[j].status = s
           /\ LET g == [f EXCEPT ![j].ttl = f[j].exists]
              IN  /\ g[j].exists = f[j].exists /\ g[j].failed = f[j].failed
                  /\ g[j].completed = f[j].completed /\ g[j].status = f[j].status
BY DEF HashType

(* The worker takes a job whose hash is fresh.                             *)
LEMMA CalmTake ==
    ASSUME PipelineInv, WorkedInv, SourcesInv, ToldInv, Take
    PROVE  WorkedInv' /\ SourcesInv' /\ ToldInv'
<1>1. /\ wpc = "idle" /\ queue # <<>> /\ queue \in Seq(Jobs)
      /\ \A m, n \in 1..Len(queue) : queue[m] = queue[n] => m = n
  BY DEF Take, PipelineInv, TypeOK, JobsInv
<1>2. /\ Head(queue) \in Range(queue) /\ Head(queue) \in Jobs
      /\ Range(Tail(queue)) \subseteq Range(queue)
  BY <1>1, HeadAndTail
<1>3. /\ wjob' = Head(queue) /\ queue' = Tail(queue) /\ wpc' = "chunk" /\ sum' = Count
      /\ UNCHANGED <<enqVars, redis, mirror, pollVars, hostVars>>
  BY DEF Take
<1>4. wjob \notin Jobs
  BY <1>1 DEF PipelineInv, TypeOK, Busy
<1>5. redis[Head(queue)] = FreshHash(Head(queue))
  BY <1>2 DEF SourcesInv
<1>6. WorkedInv'
  <2>1. /\ redis'[wjob'].exists /\ redis'[wjob'].status = "processing"
        /\ redis'[wjob'].completed = 0 /\ redis'[wjob'].failed = 0
    BY <1>3, <1>5 DEF FreshHash
  <2> QED
    BY <1>3, <2>1 DEF WorkedInv, Left, Count, Loop, Finishing
<1>7. \A j \in Jobs : FreshHash(j)' = FreshHash(j) /\ Source(j)' = Source(j)
  BY <1>3 DEF FreshHash, Source, enqVars
<1>8. SourcesInv'
  BY <1>2, <1>3, <1>4, <1>7 DEF SourcesInv, enqVars, hostVars
<1>9. ToldInv'
  BY <1>3, <1>7, ToldApart DEF enqVars, pollVars
<1> QED
  BY <1>6, <1>8, <1>9

(* A chunk's result waits for its increments.                              *)
LEMMA CalmChunk ==
    ASSUME PipelineInv, WorkedInv, SourcesInv, ToldInv, ApplyChunk \/ ApplyChunkThrows
    PROVE  WorkedInv' /\ SourcesInv' /\ ToldInv'
<1>1. wpc = "chunk" /\ wpc \in Busy /\ wpc \in Loop
  BY DEF ApplyChunk, ApplyChunkThrows, Busy, Loop
<1>2. PICK k \in Int, n \in Int : ChunkResult(k, n)
  <2>1. ChunkLen \in Int
    BY <1>1, BusyFacts
  <2> QED
    BY <2>1 DEF ApplyChunk, ApplyChunkThrows
<1>3. /\ wpc' = "incCompleted" /\ chunkRes' = [completed |-> k, failed |-> n]
      /\ sum' = [completed |-> sum.completed + k, failed |-> sum.failed + n]
      /\ UNCHANGED <<enqVars, queue, wjob, redis, mirror, pollVars, hostVars>>
  BY <1>2 DEF ChunkResult
<1>4. /\ redis[wjob].exists /\ redis[wjob].completed \in Nat /\ redis[wjob].failed \in Nat
      /\ redis[wjob].status = "processing"
      /\ redis[wjob].completed = sum.completed /\ redis[wjob].failed = sum.failed
  <2>1. redis[wjob] \in HashType
    BY <1>1, BusyFacts DEF PipelineInv, TypeOK
  <2>2. redis[wjob].completed \in Nat /\ redis[wjob].failed \in Nat
    BY <2>1 DEF HashType
  <2> QED
    BY <1>1, <2>2 DEF WorkedInv, Left
<1>5. WorkedInv'
  BY <1>3, <1>4 DEF WorkedInv, Left, Loop, Finishing
<1>6. HashOnly
  BY <1>1, <1>3, HashSteps
<1>7. SourcesInv' /\ ToldInv'
  BY <1>1, <1>3, <1>4, <1>6, WorkerSources DEF hostVars
<1> QED
  BY <1>5, <1>7

(* The increments bring the hash up to the loop's counts.                  *)
LEMMA CalmIncrement ==
    ASSUME PipelineInv, WorkedInv, SourcesInv, ToldInv, IncrementCompleted \/ IncrementFailed
    PROVE  WorkedInv' /\ SourcesInv' /\ ToldInv'
<1>1. wpc \in {"incCompleted", "incFailed"} /\ wpc \in Busy /\ wpc \in Loop
  BY DEF IncrementCompleted, IncrementFailed, Busy, Loop
<1>2. /\ wjob \in Jobs /\ redis \in [Jobs -> HashType] /\ redis[wjob] \in HashType
      /\ chunkRes.completed \in Nat /\ chunkRes.failed \in Nat
      /\ redis[wjob].completed \in Nat /\ redis[wjob].failed \in Nat
      /\ sum.completed \in Nat /\ sum.failed \in Nat
  <2>1. wjob \in Jobs /\ redis \in [Jobs -> HashType] /\ redis[wjob] \in HashType
    BY <1>1, BusyFacts DEF PipelineInv, TypeOK
  <2>2. redis[wjob].completed \in Nat /\ redis[wjob].failed \in Nat
    BY <2>1 DEF HashType
  <2> QED
    BY <2>1, <2>2 DEF PipelineInv, TypeOK, CountType
<1>3. /\ redis[wjob].exists /\ redis[wjob].status = "processing"
      /\ wpc = "incCompleted" =>
            /\ redis[wjob].completed + chunkRes.completed = sum.completed
            /\ redis[wjob].failed + chunkRes.failed = sum.failed
      /\ wpc = "incFailed" =>
            /\ redis[wjob].completed = sum.completed
            /\ redis[wjob].failed + chunkRes.failed = sum.failed
  BY <1>1, <1>2 DEF WorkedInv, Left
<1>4. /\ UNCHANGED <<enqVars, queue, wjob, chunkRes, sum, mirror, pollVars, hostVars>>
      /\ wpc' \in Finishing => final'.completed = sum.completed /\ final'.failed = sum.failed
  BY DEF IncrementCompleted, IncrementFailed, Finishing
<1>5. CASE IncrementCompleted
  <2>1. /\ wpc = "incCompleted" /\ wpc' = "incFailed"
        /\ redis' = IF chunkRes.completed = 0 THEN redis
                    ELSE [redis EXCEPT ![wjob].exists = TRUE,
                                       ![wjob].completed = @ + chunkRes.completed]
    BY <1>5 DEF IncrementCompleted
  <2>2. /\ HashOnly /\ redis'[wjob].exists /\ redis'[wjob].status = "processing"
        /\ redis'[wjob].completed = redis[wjob].completed + chunkRes.completed
        /\ redis'[wjob].failed = redis[wjob].failed
    <3>1. CASE chunkRes.completed = 0
      BY <1>1, <1>2, <1>3, <2>1, <3>1, HashSteps
    <3>2. CASE redis' = [redis EXCEPT ![wjob].exists = TRUE,
                                      ![wjob].completed = @ + chunkRes.completed]
      <4>1. HashOnly
        BY <1>1, <1>2, <3>2, HashSteps
      <4> DEFINE g == [redis EXCEPT ![wjob].exists = TRUE,
                                    ![wjob].completed = @ + chunkRes.completed]
      <4>2. /\ g[wjob].exists /\ g[wjob].completed = redis[wjob].completed + chunkRes.completed
            /\ g[wjob].failed = redis[wjob].failed /\ g[wjob].status = redis[wjob].status
        BY <1>2, HashFields DEF JobStatus
      <4>3. redis' = g
        BY <3>2
      <4> HIDE DEF g
      <4> QED
        BY <1>3, <4>1, <4>2, <4>3
    <3> QED
      BY <2>1, <3>1, <3>2
  <2>3. WorkedInv'
    BY <1>2, <1>3, <1>4, <2>1, <2>2 DEF WorkedInv, Left, Loop, Finishing
  <2>4. redis[wjob].completed <= redis'[wjob].completed /\ redis[wjob].failed <= redis'[wjob].failed
    BY <1>2, <2>2
  <2> QED
    BY <1>1, <1>3, <1>4, <2>2, <2>3, <2>4, WorkerSources DEF hostVars
<1>6. CASE IncrementFailed
  <2>1. /\ wpc = "incFailed" /\ wpc' \in {"chunk", "finStatus"}
        /\ redis' = IF chunkRes.failed = 0 THEN redis
                    ELSE [redis EXCEPT ![wjob].exists = TRUE,
                                       ![wjob].failed = @ + chunkRes.failed]
    BY <1>6 DEF IncrementFailed
  <2>2. /\ HashOnly /\ redis'[wjob].exists /\ redis'[wjob].status = "processing"
        /\ redis'[wjob].failed = redis[wjob].failed + chunkRes.failed
        /\ redis'[wjob].completed = redis[wjob].completed
    <3>1. CASE chunkRes.failed = 0
      BY <1>1, <1>2, <1>3, <2>1, <3>1, HashSteps
    <3>2. CASE redis' = [redis EXCEPT ![wjob].exists = TRUE,
                                      ![wjob].failed = @ + chunkRes.failed]
      <4>1. HashOnly
        BY <1>1, <1>2, <3>2, HashSteps
      <4> DEFINE g == [redis EXCEPT ![wjob].exists = TRUE,
                                    ![wjob].failed = @ + chunkRes.failed]
      <4>2. /\ g[wjob].exists /\ g[wjob].failed = redis[wjob].failed + chunkRes.failed
            /\ g[wjob].completed = redis[wjob].completed /\ g[wjob].status = redis[wjob].status
        BY <1>2, HashFields DEF JobStatus
      <4>3. redis' = g
        BY <3>2
      <4> HIDE DEF g
      <4> QED
        BY <1>3, <4>1, <4>2, <4>3
    <3> QED
      BY <2>1, <3>1, <3>2
  <2>3. WorkedInv'
    BY <1>2, <1>3, <1>4, <2>1, <2>2 DEF WorkedInv, Left, Loop, Finishing
  <2>4. redis[wjob].completed <= redis'[wjob].completed /\ redis[wjob].failed <= redis'[wjob].failed
    BY <1>2, <2>2
  <2> QED
    BY <1>1, <1>3, <1>4, <2>2, <2>3, <2>4, WorkerSources DEF hostVars
<1> QED
  BY <1>5, <1>6

(* The verdict goes to the hash, its expiry is set, the row follows.       *)
LEMMA CalmFinalize ==
    ASSUME PipelineInv, WorkedInv, SourcesInv, ToldInv,
           FinalizeStatus \/ FinalizeExpire \/ FinalizeMirror
    PROVE  WorkedInv' /\ SourcesInv' /\ ToldInv'
<1>1. wpc \in {"finStatus", "finExpire", "finMirror"} /\ wpc \in Finishing
  BY DEF FinalizeStatus, FinalizeExpire, FinalizeMirror, Finishing
<1>2. /\ wpc \in Busy /\ wjob \in Jobs /\ final.status \in JobStatus /\ final \in FinalType
      /\ redis \in [Jobs -> HashType] /\ mirror \in [Jobs -> MirrorType]
  BY <1>1, FinalFacts DEF PipelineInv, TypeOK
<1>3. /\ redis[wjob].exists
      /\ redis[wjob].completed \in Nat /\ redis[wjob].failed \in Nat
      /\ redis[wjob].completed = sum.completed /\ redis[wjob].failed = sum.failed
      /\ final.completed = sum.completed /\ final.failed = sum.failed
      /\ wpc = "finStatus" => redis[wjob].status = "processing"
  <2>1. redis[wjob] \in HashType
    BY <1>2
  <2>2. redis[wjob].completed \in Nat /\ redis[wjob].failed \in Nat
    BY <2>1 DEF HashType
  <2> QED
    BY <1>1, <1>2, <2>2 DEF WorkedInv, Left
<1>4. /\ UNCHANGED <<enqVars, queue, wjob, chunkRes, sum, final, pollVars, hostVars>>
      /\ wpc' \in {"finExpire", "finMirror", "publish"}
  BY DEF FinalizeStatus, FinalizeExpire, FinalizeMirror
<1>5. /\ HashOnly /\ redis'[wjob].exists
      /\ redis'[wjob].completed = redis[wjob].completed
      /\ redis'[wjob].failed = redis[wjob].failed
      /\ redis'[wjob].status = redis[wjob].status \/ redis[wjob].status = "processing"
  <2>1. CASE FinalizeStatus
    <3> DEFINE g == [redis EXCEPT ![wjob].exists = TRUE, ![wjob].status = final.status]
    <3>1. wpc = "finStatus" /\ redis' = g
      BY <2>1 DEF FinalizeStatus
    <3>2. g[wjob].exists /\ g[wjob].completed = redis[wjob].completed
          /\ g[wjob].failed = redis[wjob].failed
      BY <1>2, HashFields
    <3>3. HashOnly
      BY <1>2, <3>1, HashSteps
    <3> HIDE DEF g
    <3> QED
      BY <1>3, <3>1, <3>2, <3>3
  <2>2. CASE FinalizeExpire
    <3> DEFINE g == [redis EXCEPT ![wjob].ttl = redis[wjob].exists]
    <3>1. redis' = g
      BY <2>2 DEF FinalizeExpire
    <3>2. /\ g[wjob].exists = redis[wjob].exists /\ g[wjob].completed = redis[wjob].completed
          /\ g[wjob].failed = redis[wjob].failed /\ g[wjob].status = redis[wjob].status
      BY <1>2, HashFields
    <3>3. HashOnly
      BY <1>2, <3>1, HashSteps
    <3> HIDE DEF g
    <3> QED
      BY <1>3, <3>1, <3>2, <3>3
  <2>3. CASE FinalizeMirror
    <3>1. redis' = redis
      BY <2>3 DEF FinalizeMirror
    <3> QED
      BY <1>2, <1>3, <3>1, HashSteps
  <2> QED
    BY <2>1, <2>2, <2>3
<1>6. /\ \A j \in Jobs : j # wjob => mirror'[j] = mirror[j]
      /\ wpc' = "publish" => /\ mirror'[wjob].completed = final.completed
                             /\ mirror'[wjob].failed = final.failed
  <2>1. CASE FinalizeStatus \/ FinalizeExpire
    BY <2>1 DEF FinalizeStatus, FinalizeExpire
  <2>2. CASE FinalizeMirror
    <3>1. mirror' = [mirror EXCEPT ![wjob] = MirrorAfter(wjob)]
      BY <2>2 DEF FinalizeMirror
    <3>2. /\ MirrorAfter(wjob).completed = final.completed
          /\ MirrorAfter(wjob).failed = final.failed
      BY <1>2 DEF MirrorAfter, MirrorType
    <3> QED
      BY <1>2, <3>1, <3>2
  <2> QED
    BY <2>1, <2>2
<1>7. WorkedInv'
  BY <1>3, <1>4, <1>5, <1>6 DEF WorkedInv, Left, Loop, Finishing
<1>8. SourcesInv' /\ ToldInv'
  BY <1>2, <1>3, <1>4, <1>5, <1>6, WorkerSources DEF hostVars
<1> QED
  BY <1>7, <1>8

(* An announced job is one whose row says what its hash says.              *)
LEMMA CalmLeaves ==
    ASSUME PipelineInv, WorkedInv, SourcesInv, ToldInv, Undisturbed,
           Publish \/ WorkerCancelled
    PROVE  WorkedInv' /\ SourcesInv' /\ ToldInv'
<1>1. /\ wpc' \in {"idle", "ended"} /\ wjob' = NoJob
      /\ UNCHANGED <<enqVars, queue, redis, mirror, pollVars, hostVars>>
  BY DEF Publish, WorkerCancelled, Forget
<1>2. WorkedInv'
  BY <1>1 DEF WorkedInv, Busy
<1>3. \A j \in Jobs : FreshHash(j)' = FreshHash(j) /\ Source(j)' = Source(j)
  BY <1>1 DEF FreshHash, Source, enqVars
<1>4. ASSUME stops = 0
      PROVE  wjob \in Jobs => /\ mirror[wjob].status \in Terminal
                              /\ mirror[wjob].status = redis[wjob].status
                              /\ mirror[wjob].completed = redis[wjob].completed
                              /\ mirror[wjob].failed = redis[wjob].failed
  <2>1. CASE Publish
    <3>1. wpc = "publish" /\ wpc \in Finishing /\ wpc \in Busy
      BY <2>1 DEF Publish, Finishing, Busy
    <3>2. wjob \in Jobs /\ redis[wjob] \in HashType
      BY <3>1, BusyFacts DEF PipelineInv, TypeOK
    <3>3. redis[wjob].completed \in Nat /\ redis[wjob].failed \in Nat
      BY <3>2 DEF HashType
    <3>4. /\ redis[wjob].exists /\ redis[wjob].completed = sum.completed
          /\ redis[wjob].failed = sum.failed
          /\ mirror[wjob].completed = sum.completed /\ mirror[wjob].failed = sum.failed
      BY <3>1, <3>3 DEF WorkedInv, Left
    <3>5. /\ mirror[wjob].status \in Terminal
          /\ mirror[wjob].status = redis[wjob].status
      BY <3>1, <3>4 DEF PipelineInv, FinishInv
    <3> QED
      BY <3>4, <3>5
  <2>2. CASE WorkerCancelled
    BY <1>4, <2>2, CalmFacts DEF WorkerCancelled, Stopping
  <2> QED
    BY <2>1, <2>2
<1>5. SourcesInv'
  BY <1>1, <1>3, <1>4 DEF SourcesInv, enqVars, hostVars
<1>6. ToldInv'
  BY <1>1, <1>3, ToldApart DEF enqVars, pollVars
<1> QED
  BY <1>2, <1>5, <1>6

(* A step that is not disturbed keeps all three.                           *)
LEMMA CalmNext == PipelineInv /\ VerdictInv /\ CalmInv /\ [Next]_vars => CalmInv'
<1> SUFFICES ASSUME PipelineInv, VerdictInv, CalmInv, [Next]_vars, Undisturbed'
             PROVE  WorkedInv' /\ SourcesInv' /\ ToldInv'
  BY DEF CalmInv
<1>1. Undisturbed /\ ~Throws /\ WorkedInv /\ SourcesInv /\ ToldInv
  BY CalmBefore DEF CalmInv
<1>2. ASSUME NEW j \in Jobs,
             \/ \E n \in 0..MaxBatch + 1 : EnqueueReceive(j, n)
             \/ Enqueue(j) \/ EnqueueFail(j)
      PROVE  WorkedInv' /\ SourcesInv' /\ ToldInv'
  BY <1>1, <1>2, CalmEnqueue DEF Enqueue, EnqueueFail
<1>3. CASE Work
  BY <1>1, <1>3, CalmTake, CalmChunk, CalmIncrement, CalmFinalize, CalmLeaves
     DEF Work, RedisThrows, MirrorThrows
<1>4. CASE Poll \/ \E j \in Jobs : PollStart(j)
  BY <1>1, <1>4, CalmPoll
<1>5. CASE \/ Stop \/ StopEnds \/ Kill \/ Restart \/ Flush
           \/ \E j \in Jobs : Expire(j)
  BY <1>1, <1>5, CalmHost
<1>6. CASE Idle \/ UNCHANGED vars
  <2>1. UNCHANGED <<enqVars, queue, workVars, redis, mirror, pollVars, hostVars>>
    BY <1>6 DEF Idle, vars
  <2>2. WorkedInv'
    BY <1>1, <2>1, WorkedApart
  <2>3. SourcesInv'
    BY <1>1, <2>1 DEF SourcesInv, FreshHash, enqVars, workVars, hostVars
  <2>4. ToldInv'
    BY <1>1, <2>1, ToldApart DEF Source, enqVars, pollVars
  <2> QED
    BY <2>2, <2>3, <2>4
<1> QED
  BY <1>2, <1>3, <1>4, <1>5, <1>6 DEF Next

(* An answer is replaced by one from its source only.                      *)
LEMMA AnswersStep ==
    PipelineInv /\ CalmInv /\ [Next]_vars =>
       [Undisturbed' =>
          \A j \in Jobs : answer[j].code = 200 /\ answer'[j].code = 200 =>
             /\ answer'[j].completed >= answer[j].completed
             /\ answer'[j].failed >= answer[j].failed
             /\ answer[j].status \in Terminal => answer'[j].status = answer[j].status]_vars
<1> SUFFICES ASSUME PipelineInv, CalmInv, Next, Undisturbed',
                    NEW j \in Jobs, answer[j].code = 200, answer'[j].code = 200
             PROVE  /\ answer'[j].completed >= answer[j].completed
                    /\ answer'[j].failed >= answer[j].failed
                    /\ answer[j].status \in Terminal => answer'[j].status = answer[j].status
  OBVIOUS
<1>1. ~Throws /\ ToldInv
  BY CalmBefore DEF CalmInv
<1>2. answer \in [Jobs -> AnswerType] /\ answer[j] \in AnswerType
  BY DEF PipelineInv, TypeOK
<1>3. answer[j].completed \in Nat /\ answer[j].failed \in Nat
  BY <1>2 DEF AnswerType
<1>4. CASE UNCHANGED answer
  BY <1>3, <1>4
<1>5. CASE Poll
  <2>1. CASE answer' = [answer EXCEPT ![poll.job] = AnswerFrom(Source(poll.job))]
             /\ poll.job \in Jobs /\ j = poll.job
    <3>1. Behind(answer[j], Source(j))
      BY <1>1 DEF ToldInv
    <3>2. answer'[j] = AnswerFrom(Source(j))
      BY <1>2, <2>1
    <3>3. Source(j) \in HashType \cup MirrorType
      BY DEF Source, PipelineInv, TypeOK
    <3>4. Source(j).completed \in Nat /\ Source(j).failed \in Nat
      BY <3>3 DEF HashType, MirrorType
    <3> QED
      BY <1>3, <3>1, <3>2, <3>4 DEF Behind, AnswerFrom
  <2>2. CASE answer' = [answer EXCEPT ![poll.job] = AnswerFrom(Source(poll.job))]
             /\ poll.job \in Jobs /\ j # poll.job
    BY <1>2, <1>3, <2>2
  <2> QED
    BY <1>1, <1>4, <1>5, <2>1, <2>2, PollReads
<1>6. CASE Work
  <2>1. UNCHANGED answer
    BY <1>6 DEF Work, Take, ApplyChunk, ApplyChunkThrows, ChunkResult, IncrementCompleted,
       IncrementFailed, FinalizeStatus, FinalizeExpire, FinalizeMirror, Publish, RedisThrows,
       MirrorThrows, WorkerCancelled, pollVars
  <2> QED
    BY <1>4, <2>1
<1>7. ASSUME NEW i \in Jobs,
             \/ \E n \in 0..MaxBatch + 1 : EnqueueReceive(i, n)
             \/ Enqueue(i) \/ EnqueueFail(i) \/ PollStart(i) \/ Expire(i)
      PROVE  UNCHANGED answer
  BY <1>7 DEF EnqueueReceive, Enqueue, EnqueueInsert, EnqueueInit, EnqueueWrite, EnqueueFail,
     PollStart, Expire, pollVars
<1>8. CASE Stop \/ StopEnds \/ Kill \/ Restart \/ Flush \/ Idle
  <2>1. UNCHANGED answer
    BY <1>8 DEF Stop, StopEnds, Kill, GoDown, Restart, Flush, Idle, vars, pollVars
  <2> QED
    BY <1>4, <2>1
<1> QED
  BY <1>4, <1>5, <1>6, <1>7, <1>8 DEF Next

(* While no call fails, Redis keeps its data and no stop is followed by an *)
(* expiry, what GET /api/jobs/:id says of a job never goes backwards, over *)
(* the worker's increments, its verdict and the handover to the row.       *)
THEOREM AnswersOnlyAdvance == Spec => AnswersNeverRegress
<1>1. PipelineInv /\ VerdictInv /\ CalmInv /\ [Next]_vars => VerdictInv' /\ CalmInv'
  BY VerdictNext, CalmNext
<1>2. Spec => [](PipelineInv /\ VerdictInv /\ CalmInv)
  BY <1>1, PipelineInvariant, VerdictInit, CalmInit, PTL DEF Spec
<1> QED
  BY <1>2, AnswersStep, PTL DEF Spec, AnswersNeverRegress

-----------------------------------------------------------------------------
(* The worker's own steps.  A loop runs in ExecuteAsync and a catch starts *)
(* TryFinalize again, yet the worker comes to an end of each job it takes: *)
(* a number that is never negative falls with every step.                  *)

Ahead == [chunk |-> 11, incCompleted |-> 10, incFailed |-> 9, finStatus |-> 8,
          finExpire |-> 7, finMirror |-> 6, publish |-> 5]

(* A bound on the steps the worker still has for its job: three for each   *)
(* id that no chunk took, those to the end of TryFinalize, and those of    *)
(* another TryFinalize unless it is in the catch.                          *)
WorkLeft ==
    IF wpc \in Loop THEN 3 * (total[wjob] - offset) + Ahead[wpc]
    ELSE IF wpc \in Finishing THEN (IF inCatch THEN Ahead[wpc] - 4 ELSE Ahead[wpc])
    ELSE 0

IdsLeft == wpc \in Loop => total[wjob] - offset \in 1..MaxBatch

WorkLeftInv ==
    /\ WorkLeft \in 0..(3 * MaxBatch + 11)
    /\ WorkLeft = 0 <=> wpc \in {"idle", "ended"}

(* What is left is bounded, and none is left for an idle worker only.      *)
LEMMA WorkLeftIsCount == PipelineInv => IdsLeft /\ WorkLeftInv
<1> SUFFICES ASSUME PipelineInv PROVE IdsLeft /\ WorkLeftInv
  OBVIOUS
<1>1. wpc \in Loop \cup Finishing \cup {"idle", "ended"}
  BY DEF PipelineInv, TypeOK, Busy, Loop, Finishing
<1>2. MaxBatch \in Nat \ {0}
  BY SizesAssumption
<1>3. CASE wpc \in Loop
  <2>1. wpc \in Busy /\ wpc \notin {"idle", "ended"}
    BY <1>3 DEF Loop, Busy
  <2>2. WorkLeft = 3 * (total[wjob] - offset) + Ahead[wpc]
    BY <1>3 DEF WorkLeft
  <2>3. Ahead[wpc] \in 9..11
    BY <1>3 DEF Loop, Ahead
  <2>4. wjob \in Jobs /\ offset \in Nat /\ offset < total[wjob]
    BY <1>3, <2>1, BusyFacts DEF PipelineInv, LoopInv
  <2>5. total[wjob] \in 1..MaxBatch
    BY <2>4 DEF PipelineInv, JobsInv
  <2>6. total[wjob] - offset \in 1..MaxBatch
    BY <1>2, <2>4, <2>5
  <2>7. \A n \in 1..MaxBatch, a \in 9..11 : 3 * n + a \in 1..(3 * MaxBatch + 11)
    BY <1>2
  <2>8. WorkLeft \in 1..(3 * MaxBatch + 11)
    BY <2>2, <2>3, <2>6, <2>7
  <2> QED
    BY <1>2, <2>1, <2>6, <2>8 DEF IdsLeft, WorkLeftInv
<1>4. CASE wpc \in Finishing
  <2>1. wpc \notin Loop /\ wpc \notin {"idle", "ended"}
    BY <1>4 DEF Loop, Finishing
  <2>2. WorkLeft = IF inCatch THEN Ahead[wpc] - 4 ELSE Ahead[wpc]
    BY <1>4, <2>1 DEF WorkLeft
  <2>3. Ahead[wpc] \in 5..8
    BY <1>4 DEF Finishing, Ahead
  <2>4. WorkLeft \in 1..8
    BY <2>2, <2>3
  <2> QED
    BY <1>2, <2>1, <2>4 DEF IdsLeft, WorkLeftInv
<1>5. CASE wpc \in {"idle", "ended"}
  <2>1. wpc \notin Loop /\ wpc \notin Finishing
    BY <1>5 DEF Loop, Finishing
  <2> QED
    BY <1>2, <1>5, <2>1 DEF WorkLeft, IdsLeft, WorkLeftInv
<1> QED
  BY <1>1, <1>3, <1>4, <1>5

(* A failing call leaves less too: the catch has TryFinalize before it     *)
(* once more, and out of the second there is no third.                     *)
LEMMA WorkFalls ==
    ASSUME PipelineInv, Work, wpc # "idle"
    PROVE  WorkLeft' < WorkLeft
<1>1. /\ WorkLeft \in Nat
      /\ wpc \notin {"idle", "ended"} => WorkLeft > 0
      /\ wpc \in Loop => /\ total[wjob] - offset \in Nat \ {0}
                         /\ total[wjob] \in Nat /\ offset \in Nat
  <2>1. WorkLeft \in Nat /\ (WorkLeft # 0 => WorkLeft > 0)
    BY WorkLeftIsCount, SizesAssumption DEF WorkLeftInv
  <2>2. wpc \notin {"idle", "ended"} => WorkLeft # 0
    BY WorkLeftIsCount DEF WorkLeftInv
  <2>3. wpc \in Loop => total[wjob] - offset \in Nat \ {0}
    BY WorkLeftIsCount, SizesAssumption DEF IdsLeft
  <2>4. wpc \in Loop => wpc \in Busy
    BY DEF Loop, Busy
  <2>5. wpc \in Loop => total[wjob] \in Nat /\ offset \in Nat
    BY <2>4, BusyFacts
  <2> QED
    BY <2>1, <2>2, <2>3, <2>5
<1>2. ASSUME wpc' \in {"idle", "ended"}, wpc \notin {"idle", "ended"}
      PROVE  WorkLeft' < WorkLeft
  <2>1. WorkLeft' = 0
    BY <1>2 DEF WorkLeft, Loop, Finishing
  <2> QED
    BY <1>1, <1>2, <2>1
<1>3. CASE ApplyChunk \/ ApplyChunkThrows \/ IncrementCompleted
  <2>1. \/ wpc = "chunk" /\ wpc' = "incCompleted"
        \/ wpc = "incCompleted" /\ wpc' = "incFailed"
    BY <1>3 DEF ApplyChunk, ApplyChunkThrows, ChunkResult, IncrementCompleted
  <2>2. UNCHANGED <<enqVars, wjob, offset>>
    BY <1>3 DEF ApplyChunk, ApplyChunkThrows, ChunkResult, IncrementCompleted
  <2>3. total' = total /\ wjob' = wjob /\ offset' = offset
    BY <2>2 DEF enqVars
  <2>4. /\ WorkLeft = 3 * (total[wjob] - offset) + Ahead[wpc]
        /\ WorkLeft' = 3 * (total[wjob] - offset) + Ahead[wpc']
        /\ wpc \in Loop
    BY <2>1, <2>3 DEF WorkLeft, Loop
  <2>5. Ahead[wpc] \in Nat /\ Ahead[wpc'] \in Nat /\ Ahead[wpc'] < Ahead[wpc]
    BY <2>1 DEF Ahead
  <2> QED
    BY <1>1, <2>4, <2>5
<1>4. CASE IncrementFailed
  <2>1. /\ wpc = "incFailed" /\ offset' = offset + ChunkSize
        /\ total' = total /\ wjob' = wjob /\ inCatch' = inCatch
        /\ wpc' = IF offset' < total[wjob] THEN "chunk" ELSE "finStatus"
    BY <1>4 DEF IncrementFailed, enqVars
  <2>2. ChunkSize \in Nat /\ ChunkSize >= 1 /\ ~inCatch /\ wpc \in Loop
    BY <2>1, SizesAssumption DEF PipelineInv, LoopInv, Loop
  <2>3. WorkLeft = 3 * (total[wjob] - offset) + 9
    BY <2>1, <2>2 DEF WorkLeft, Ahead
  <2>4. CASE offset' < total[wjob]
    <3>1. WorkLeft' = 3 * (total[wjob] - (offset + ChunkSize)) + 11
      BY <2>1, <2>4 DEF WorkLeft, Loop, Ahead
    <3> QED
      BY <1>1, <2>2, <2>3, <3>1
  <2>5. CASE ~(offset' < total[wjob])
    <3>1. WorkLeft' = 8
      BY <2>1, <2>2, <2>5 DEF WorkLeft, Loop, Finishing, Ahead
    <3> QED
      BY <1>1, <2>2, <2>3, <3>1
  <2> QED
    BY <2>4, <2>5
<1>5. CASE FinalizeStatus \/ FinalizeExpire \/ FinalizeMirror
  <2>1. /\ \/ wpc = "finStatus" /\ wpc' = "finExpire"
           \/ wpc = "finExpire" /\ wpc' = "finMirror"
           \/ wpc = "finMirror" /\ wpc' = "publish"
        /\ inCatch' = inCatch
    BY <1>5 DEF FinalizeStatus, FinalizeExpire, FinalizeMirror
  <2>2. Ahead[wpc] \in Nat /\ Ahead[wpc'] \in Nat /\ Ahead[wpc'] < Ahead[wpc]
    BY <2>1 DEF Ahead
  <2>3. /\ WorkLeft = IF inCatch THEN Ahead[wpc] - 4 ELSE Ahead[wpc]
        /\ WorkLeft' = IF inCatch THEN Ahead[wpc'] - 4 ELSE Ahead[wpc']
    BY <2>1 DEF WorkLeft, Loop, Finishing
  <2> QED
    BY <2>2, <2>3
<1>6. CASE RedisThrows \/ MirrorThrows
  <2>1. Rescue /\ wpc \in Loop \cup (Finishing \ {"publish"}) /\ wpc \notin {"idle", "ended"}
    BY <1>6 DEF RedisThrows, MirrorThrows, Loop, Finishing
  <2>2. CASE inCatch
    BY <1>2, <2>1, <2>2 DEF Rescue
  <2>3. CASE ~inCatch
    <3>1. wpc' = "finStatus" /\ inCatch'
      BY <2>1, <2>3 DEF Rescue
    <3>2. WorkLeft' = 4
      BY <3>1 DEF WorkLeft, Loop, Finishing, Ahead
    <3>3. Ahead[wpc] \in 6..11
      BY <2>1 DEF Loop, Finishing, Ahead
    <3>4. CASE wpc \in Loop
      <4>1. WorkLeft = 3 * (total[wjob] - offset) + Ahead[wpc]
        BY <3>4 DEF WorkLeft
      <4> QED
        BY <1>1, <3>2, <3>3, <3>4, <4>1
    <3>5. CASE wpc \notin Loop
      <4>1. WorkLeft = Ahead[wpc]
        BY <2>1, <2>3, <3>5 DEF WorkLeft
      <4> QED
        BY <3>2, <3>3, <4>1
    <3> QED
      BY <3>4, <3>5
  <2> QED
    BY <2>2, <2>3
<1>7. CASE Publish \/ WorkerCancelled
  BY <1>2, <1>7 DEF Publish, WorkerCancelled
<1> QED
  BY <1>3, <1>4, <1>5, <1>6, <1>7 DEF Work, Take

(* Nobody else gives the worker more to do: a request that is received is  *)
(* of no job that it has.                                                  *)
LEMMA WorkFallsAlone ==
    ASSUME PipelineInv, Next, ~Work
    PROVE  WorkLeft' <= WorkLeft
<1>1. WorkLeft \in Nat
  BY WorkLeftIsCount, SizesAssumption DEF WorkLeftInv
<1>2. ASSUME UNCHANGED workVars, wpc \in Loop => total'[wjob] = total[wjob]
      PROVE  WorkLeft' <= WorkLeft
  <2>1. WorkLeft' = WorkLeft
    BY <1>2 DEF WorkLeft, workVars
  <2> QED
    BY <1>1, <2>1
<1>3. ASSUME NEW j \in Jobs, NEW n \in 0..MaxBatch + 1, EnqueueReceive(j, n)
      PROVE  WorkLeft' <= WorkLeft
  <2>1. wpc \in Loop => wjob \in Jobs
    BY DEF PipelineInv, TypeOK, Loop, Busy
  <2>2. wpc \in Loop => j # wjob
    BY <1>3, <2>1 DEF EnqueueReceive, PipelineInv, JobsInv
  <2> QED
    BY <1>2, <1>3, <2>1, <2>2 DEF EnqueueReceive, PipelineInv, TypeOK
<1>4. ASSUME NEW j \in Jobs, Enqueue(j) \/ EnqueueFail(j) \/ PollStart(j) \/ Expire(j)
      PROVE  WorkLeft' <= WorkLeft
  BY <1>2, <1>4 DEF Enqueue, EnqueueInsert, EnqueueInit, EnqueueWrite, EnqueueFail, PollStart,
     Expire, enqVars
<1>5. CASE Poll \/ Stop \/ Restart \/ Flush \/ Idle
  BY <1>2, <1>5 DEF Poll, PollRedis, PollMiss, PollMirror, PollThrows, PollAnswer, Stop, Restart,
     Flush, Idle, vars, enqVars
<1>6. CASE StopEnds \/ Kill
  <2>1. WorkLeft' = 0
    BY <1>6 DEF StopEnds, Kill, GoDown, WorkLeft, Loop, Finishing
  <2> QED
    BY <1>1, <2>1
<1> QED
  BY <1>3, <1>4, <1>5, <1>6 DEF Next

(* The safety half of AcceptedFinishes: what the worker has left of a job  *)
(* is bounded by the job's size and falls with each of its steps, whatever *)
(* throws or is cancelled; nobody else's step adds to it, and nothing is   *)
(* left only when the worker is done with the job.                         *)
THEOREM WorkerAdvances ==
    Spec => /\ []WorkLeftInv
            /\ [][/\ Work /\ wpc # "idle" => WorkLeft' < WorkLeft
                  /\ ~Work => WorkLeft' <= WorkLeft]_vars
<1>1. PipelineInv /\ [Next]_vars =>
         [/\ Work /\ wpc # "idle" => WorkLeft' < WorkLeft
          /\ ~Work => WorkLeft' <= WorkLeft]_vars
  BY WorkFalls, WorkFallsAlone
<1> QED
  BY <1>1, WorkLeftIsCount, PipelineInvariant, PTL DEF Spec

==============================================================================
