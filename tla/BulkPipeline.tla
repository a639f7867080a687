---------------------------- MODULE BulkPipeline ----------------------------
(***************************************************************************)
(* The life of a bulk job: BulkService.EnqueueAsync, the in-memory queue,  *)
(* BulkWorker, the job's hash in Redis, its row in Postgres and the polls  *)
(* of GET /api/jobs/:id, with failing calls, a host that is stopped or     *)
(* dies, and keys that expire or are flushed.                              *)
(*                                                                         *)
(* What a chunk does to the orders is the subject of OrderStore: here a    *)
(* chunk of n ids completes some k of them and fails the rest, which is    *)
(* its ChunkAccounting.                                                    *)
(***************************************************************************)
EXTENDS Naturals, Sequences, Functions

CONSTANTS Jobs,       \* bulk requests
          ChunkSize,  \* 200 in the code
          MaxBatch,   \* 10 000 in the code
          MaxFaults,  \* calls to Redis or Postgres that may fail
          MaxStops,   \* times the host may be stopped or killed
          MayExpire,  \* whether a day may pass
          MayFlush,   \* whether Redis may lose its data
          NoJob

ASSUME SizesAssumption == ChunkSize \in Nat \ {0} /\ MaxBatch \in Nat \ {0}
ASSUME FaultsAssumption == /\ MaxFaults \in Nat /\ MaxStops \in Nat
                           /\ MayExpire \in BOOLEAN /\ MayFlush \in BOOLEAN
                           /\ NoJob \notin Jobs

VARIABLES
    \* POST /api/orders/bulk-actions, one request per job
    enq,        \* where EnqueueAsync is
    total,      \* the number of ids of the request
    queue,      \* the unbounded channel
    \* the worker
    wpc, wjob,
    offset,     \* i of ProcessJob's loop
    chunkRes,   \* the chunk's [completed, failed]
    sum,        \* totalCompleted and totalFailed
    final,      \* the arguments of TryFinalize
    inCatch,    \* TryFinalize was called from ExecuteAsync's catch
    \* the stores
    redis, mirror,
    \* GET /api/jobs/:id, by one client
    poll,       \* [pc, job]
    answer,     \* answer[j]: the last answer about j
    \* the host
    host,
    faults, stops,
    \* history
    reported,   \* reported[j]: ids of j that chunks reported as completed
    announced,  \* announced[j]: bulk_completed events published for j
    flushed     \* whether Redis lost data

enqVars  == <<enq, total>>
workVars == <<wpc, wjob, offset, chunkRes, sum, final, inCatch>>
pollVars == <<poll, answer>>
hostVars == <<host, stops, flushed>>
vars == <<enqVars, queue, workVars, redis, mirror, pollVars, hostVars, faults,
          reported, announced>>

Count == [completed |-> 0, failed |-> 0]
NoHash == [exists |-> FALSE, status |-> "", total |-> 0, completed |-> 0,
           failed |-> 0, ttl |-> FALSE]
NoMirror == [status |-> "none", total |-> 0, completed |-> 0, failed |-> 0]
NoFinal == [status |-> "none", completed |-> 0, failed |-> 0]
NoAnswer == [code |-> 0, status |-> "none", total |-> 0, completed |-> 0, failed |-> 0]

Terminal == {"completed", "failed"}

Init ==
    /\ enq = [j \in Jobs |-> "idle"] /\ total = [j \in Jobs |-> 0]
    /\ queue = <<>>
    /\ wpc = "idle" /\ wjob = NoJob /\ offset = 0 /\ chunkRes = Count /\ sum = Count
    /\ final = NoFinal /\ inCatch = FALSE
    /\ redis = [j \in Jobs |-> NoHash]
    /\ mirror = [j \in Jobs |-> NoMirror]
    /\ poll = [pc |-> "idle", job |-> NoJob]
    /\ answer = [j \in Jobs |-> NoAnswer]
    /\ host = "up" /\ stops = 0 /\ flushed = FALSE /\ faults = 0
    /\ reported = [j \in Jobs |-> 0]
    /\ announced = [j \in Jobs |-> 0]

(* A call to Redis or Postgres throws.                                     *)
Throws == faults < MaxFaults /\ faults' = faults + 1
Works == UNCHANGED faults
Running == host # "down"
Stopping == host = "stopping"

-----------------------------------------------------------------------------
(* POST /api/orders/bulk-actions                                           *)

ValidBatch(n) == n # 0 /\ n <= MaxBatch

EnqueueReceive(j, n) ==
    /\ host = "up" /\ enq[j] = "idle"
    /\ total' = [total EXCEPT ![j] = n]
    /\ enq' = [enq EXCEPT ![j] = IF ValidBatch(n) THEN "inserting" ELSE "rejected"]
    /\ UNCHANGED <<queue, workVars, redis, mirror, pollVars, hostVars, faults, reported, announced>>

EnqueueInsert_NotSaved(j) ==
    /\ Running /\ enq[j] = "inserting" /\ Works
    /\ enq' = [enq EXCEPT ![j] = "initing"]
    /\ UNCHANGED <<total, mirror, queue, workVars, redis, pollVars, hostVars, reported, announced>>

(* InsertJobAsync: the row of the jobs table.                              *)
EnqueueInsert(j) ==
    /\ Running /\ enq[j] = "inserting" /\ Works
    /\ mirror' = [mirror EXCEPT ![j] = [status |-> "processing", total |-> total[j],
                                        completed |-> 0, failed |-> 0]]
    /\ enq' = [enq EXCEPT ![j] = "initing"]
    /\ UNCHANGED <<total, queue, workVars, redis, pollVars, hostVars, reported, announced>>

(* InitAsync: the hash, in one HSET.                                       *)
EnqueueInit(j) ==
    /\ Running /\ enq[j] = "initing" /\ Works
    /\ redis' = [redis EXCEPT ![j] = [exists |-> TRUE, status |-> "processing",
                    total |-> total[j], completed |-> 0, failed |-> 0, ttl |-> FALSE]]
    /\ enq' = [enq EXCEPT ![j] = "queueing"]
    /\ UNCHANGED <<total, queue, workVars, mirror, pollVars, hostVars, reported, announced>>

(* The channel write, and the 202 with the job's id.                       *)
EnqueueWrite(j) ==
    /\ Running /\ enq[j] = "queueing"
    /\ queue' = Append(queue, j)
    /\ enq' = [enq EXCEPT ![j] = "accepted"]
    /\ UNCHANGED <<total, workVars, redis, mirror, pollVars, hostVars, faults, reported, announced>>

(* A step throws, or the client goes away: what was written stays.         *)
EnqueueFail(j) ==
    /\ Running /\ enq[j] \in {"inserting", "initing", "queueing"} /\ Throws
    /\ enq' = [enq EXCEPT ![j] = "failed"]
    /\ UNCHANGED <<total, queue, workVars, redis, mirror, pollVars, hostVars, reported, announced>>

-----------------------------------------------------------------------------
(* BulkWorker                                                              *)

(* ReadAllAsync looks at the token when it waits, not while jobs are       *)
(* buffered: a stopping host may still take one.                           *)
Take ==
    /\ Running /\ wpc = "idle" /\ queue # <<>>
    /\ wjob' = Head(queue) /\ queue' = Tail(queue)
    /\ wpc' = "chunk" /\ offset' = 0 /\ sum' = Count
    /\ UNCHANGED <<enqVars, chunkRes, final, inCatch, redis, mirror, pollVars, hostVars,
                   faults, reported, announced>>

(* job.OrderIds[i..Math.Min(i + ChunkSize, Length)]                        *)
ChunkLen == IF offset + ChunkSize <= total[wjob] THEN ChunkSize ELSE total[wjob] - offset

(* The chunk's result is added to the totals.                              *)
ChunkResult(k, n) ==
    /\ chunkRes' = [completed |-> k, failed |-> n]
    /\ sum' = [completed |-> sum.completed + k, failed |-> sum.failed + n]
    /\ wpc' = "incCompleted"
    /\ UNCHANGED <<enqVars, queue, wjob, offset, final, inCatch, redis, mirror, pollVars,
                   hostVars, announced>>

ApplyChunk ==
    /\ wpc = "chunk" /\ ~Stopping /\ Works
    /\ \E k \in 0..ChunkLen :
          /\ ChunkResult(k, ChunkLen - k)
          /\ reported' = [reported EXCEPT ![wjob] = @ + k]

(* ApplyChunkAsync throws, or a stop cancels its token: the inner catch    *)
(* takes both, and the loop goes on with the next chunk.                   *)
ApplyChunkThrows ==
    /\ wpc = "chunk" /\ (Throws \/ (Stopping /\ Works))
    /\ ChunkResult(0, ChunkLen)
    /\ UNCHANGED reported

(* IncrementAsync: two HINCRBYs, a zero delta skipped.  HINCRBY creates    *)
(* the hash, with the one field, if it is gone.                            *)
IncrementCompleted ==
    /\ wpc = "incCompleted" /\ Works
    /\ redis' = IF chunkRes.completed = 0 THEN redis
                ELSE [redis EXCEPT ![wjob].exists = TRUE,
                                   ![wjob].completed = @ + chunkRes.completed]
    /\ wpc' = "incFailed"
    /\ UNCHANGED <<enqVars, queue, wjob, offset, chunkRes, sum, final, inCatch, mirror,
                   pollVars, hostVars, reported, announced>>

(* ProcessJob's verdict once the loop is over.                             *)
Verdict_ByFailures == IF sum.failed # 0 THEN "failed" ELSE "completed"
Verdict == IF sum.completed = 0 /\ sum.failed = total[wjob] THEN "failed" ELSE "completed"

IncrementFailed ==
    /\ wpc = "incFailed" /\ Works
    /\ redis' = IF chunkRes.failed = 0 THEN redis
                ELSE [redis EXCEPT ![wjob].exists = TRUE,
                                   ![wjob].failed = @ + chunkRes.failed]
    /\ offset' = offset + ChunkSize
    /\ IF offset' < total[wjob]
       THEN wpc' = "chunk" /\ UNCHANGED final
       ELSE /\ wpc' = "finStatus"
            /\ final' = [status |-> Verdict, completed |-> sum.completed,
                         failed |-> sum.failed]
    /\ UNCHANGED <<enqVars, queue, wjob, chunkRes, sum, inCatch, mirror, pollVars, hostVars,
                   reported, announced>>

(* TryFinalize: HSET status, EXPIRE, the row of the jobs table, the event. *)
FinalizeStatus ==
    /\ wpc = "finStatus" /\ Works
    /\ redis' = [redis EXCEPT ![wjob].exists = TRUE, ![wjob].status = final.status]
    /\ wpc' = "finExpire"
    /\ UNCHANGED <<enqVars, queue, wjob, offset, chunkRes, sum, final, inCatch, mirror,
                   pollVars, hostVars, reported, announced>>

FinalizeExpire_PublishesNext ==
    /\ wpc = "finExpire" /\ Works
    /\ redis' = [redis EXCEPT ![wjob].ttl = redis[wjob].exists]
    /\ wpc' = "publish"
    /\ UNCHANGED <<enqVars, queue, wjob, offset, chunkRes, sum, final, inCatch, mirror,
                   pollVars, hostVars, reported, announced>>

FinalizeExpire ==
    /\ wpc = "finExpire" /\ Works
    /\ redis' = [redis EXCEPT ![wjob].ttl = redis[wjob].exists]
    /\ wpc' = "finMirror"
    /\ UNCHANGED <<enqVars, queue, wjob, offset, chunkRes, sum, final, inCatch, mirror,
                   pollVars, hostVars, reported, announced>>

MirrorAfter_StatusOnly(j) == [mirror[j] EXCEPT !.status = final.status]
MirrorAfter(j) == [mirror[j] EXCEPT !.status = final.status,
                                    !.completed = final.completed, !.failed = final.failed]

(* FinalizeJobAsync returns without a word if the row is missing; here it  *)
(* never is, for EnqueueInsert came first.                                 *)
FinalizeMirror ==
    /\ wpc = "finMirror" /\ ~Stopping /\ Works
    /\ mirror' = [mirror EXCEPT ![wjob] = MirrorAfter(wjob)]
    /\ wpc' = "publish"
    /\ UNCHANGED <<enqVars, queue, wjob, offset, chunkRes, sum, final, inCatch, redis,
                   pollVars, hostVars, reported, announced>>

Forget == /\ wjob' = NoJob /\ offset' = 0 /\ chunkRes' = Count /\ sum' = Count
          /\ final' = NoFinal /\ inCatch' = FALSE

(* PublishAsync cannot fail the job: it does not wait, and is caught.      *)
Publish ==
    /\ wpc = "publish"
    /\ announced' = [announced EXCEPT ![wjob] = @ + 1]
    /\ wpc' = "idle" /\ Forget
    /\ UNCHANGED <<enqVars, queue, redis, mirror, pollVars, hostVars, faults, reported>>

(* An exception leaves ProcessJob: ExecuteAsync finalizes the job as       *)
(* failed, 0 of all.  Out of that TryFinalize it ends ExecuteAsync, and    *)
(* with it the host.                                                       *)
Rescue_EndsHost ==
    wpc' = "ended" /\ host' = "stopping" /\ Forget /\ UNCHANGED stops
Rescue_LogsOnly ==
    wpc' = "idle" /\ Forget /\ UNCHANGED <<host, stops>>
Rescue ==
    IF inCatch
    THEN wpc' = "ended" /\ host' = "stopping" /\ Forget /\ UNCHANGED stops
    ELSE /\ wpc' = "finStatus" /\ inCatch' = TRUE
         /\ final' = [status |-> "failed", completed |-> 0, failed |-> total[wjob]]
         /\ UNCHANGED <<wjob, offset, chunkRes, sum, host, stops>>

(* A call throws, with or without its effect on the store.                 *)
RedisThrows ==
    /\ wpc \in {"incCompleted", "incFailed", "finStatus", "finExpire"} /\ Throws
    /\ (wpc = "incCompleted" => chunkRes.completed # 0)
    /\ (wpc = "incFailed" => chunkRes.failed # 0)
    /\ \/ UNCHANGED redis
       \/ redis' = CASE wpc = "incCompleted" ->
                          [redis EXCEPT ![wjob].exists = TRUE,
                                        ![wjob].completed = @ + chunkRes.completed]
                     [] wpc = "incFailed" ->
                          [redis EXCEPT ![wjob].exists = TRUE,
                                        ![wjob].failed = @ + chunkRes.failed]
                     [] wpc = "finStatus" ->
                          [redis EXCEPT ![wjob].exists = TRUE,
                                        ![wjob].status = final.status]
                     [] OTHER -> [redis EXCEPT ![wjob].ttl = redis[wjob].exists]
    /\ Rescue
    /\ UNCHANGED <<enqVars, queue, mirror, pollVars, flushed, reported, announced>>

MirrorThrows ==
    /\ wpc = "finMirror" /\ Throws
    /\ \/ UNCHANGED mirror
       \/ mirror' = [mirror EXCEPT ![wjob] = MirrorAfter(wjob)]
    /\ Rescue
    /\ UNCHANGED <<enqVars, queue, redis, pollVars, flushed, reported, announced>>

(* The stop's token cancels FinalizeJobAsync, or the wait for a job:       *)
(* the worker ends, with Redis final and the row still "processing".       *)
WorkerCancelled ==
    /\ Stopping /\ wpc \in {"finMirror", "idle"}
    /\ wpc' = "ended" /\ Forget
    /\ UNCHANGED <<enqVars, queue, redis, mirror, pollVars, hostVars, faults, reported, announced>>

-----------------------------------------------------------------------------
(* GET /api/jobs/:id.  Ids are handed out by the 202 only.                 *)

PollStart(j) ==
    /\ host = "up" /\ poll.pc = "idle" /\ enq[j] = "accepted"
    /\ poll' = [pc |-> "redis", job |-> j]
    /\ UNCHANGED <<enqVars, queue, workVars, redis, mirror, answer, hostVars, faults,
                   reported, announced>>

PollAnswer(code, from) ==
    /\ answer' = [answer EXCEPT ![poll.job] =
          [code |-> code, status |-> from.status, total |-> from.total,
           completed |-> from.completed, failed |-> from.failed]]
    /\ poll' = [pc |-> "idle", job |-> NoJob]
    /\ UNCHANGED <<enqVars, queue, workVars, redis, mirror, hostVars, reported, announced>>

PollRedis ==
    /\ Running /\ poll.pc = "redis" /\ redis[poll.job].exists /\ Works
    /\ PollAnswer(200, redis[poll.job])

PollMiss ==
    /\ Running /\ poll.pc = "redis" /\ ~redis[poll.job].exists
    /\ poll' = [poll EXCEPT !.pc = "mirror"]
    /\ UNCHANGED <<enqVars, queue, workVars, redis, mirror, answer, hostVars, faults,
                   reported, announced>>

PollMirror ==
    /\ Running /\ poll.pc = "mirror" /\ Works
    /\ IF mirror[poll.job].status # "none"
       THEN PollAnswer(200, mirror[poll.job])
       ELSE PollAnswer(404, NoMirror)

(* An exception of either store is the poll's 500.                         *)
PollThrows ==
    /\ Running /\ poll.pc \in {"redis", "mirror"} /\ Throws
    /\ PollAnswer(500, NoMirror)

-----------------------------------------------------------------------------
(* The host and Redis                                                      *)

Stop ==
    /\ host = "up" /\ stops < MaxStops
    /\ host' = "stopping" /\ stops' = stops + 1
    /\ UNCHANGED <<enqVars, queue, workVars, redis, mirror, pollVars, flushed, faults,
                   reported, announced>>

(* The process is gone, and with it the queue and every request.           *)
GoDown ==
    /\ host' = "down" /\ queue' = <<>>
    /\ wpc' = "idle" /\ Forget
    /\ enq' = [j \in Jobs |-> IF enq[j] \in {"inserting", "initing", "queueing"}
                              THEN "failed" ELSE enq[j]]
    /\ poll' = [pc |-> "idle", job |-> NoJob]
    /\ UNCHANGED <<total, redis, mirror, answer, flushed, faults, reported, announced>>

(* A stopped host waits for its worker; a killed one does not.             *)
StopEnds == Stopping /\ wpc = "ended" /\ GoDown /\ UNCHANGED stops
Kill == Running /\ stops < MaxStops /\ stops' = stops + 1 /\ GoDown

(* Nothing reads the jobs table at the start: no job is queued again.      *)
Restart ==
    /\ host = "down" /\ host' = "up"
    /\ UNCHANGED <<enqVars, queue, workVars, redis, mirror, pollVars, stops, flushed, faults,
                   reported, announced>>

(* The day of EXPIRE is longer than any step of the worker or of a poll.   *)
Expire(j) ==
    /\ MayExpire /\ redis[j].ttl /\ j \notin {wjob, poll.job}
    /\ redis' = [redis EXCEPT ![j] = NoHash]
    /\ UNCHANGED <<enqVars, queue, workVars, mirror, pollVars, hostVars, faults, reported, announced>>

Flush ==
    /\ MayFlush /\ ~flushed /\ flushed' = TRUE
    /\ redis' = [j \in Jobs |-> NoHash]
    /\ UNCHANGED <<enqVars, queue, workVars, mirror, pollVars, host, stops, faults, reported, announced>>

-----------------------------------------------------------------------------
Enqueue(j) == EnqueueInsert(j) \/ EnqueueInit(j) \/ EnqueueWrite(j)

Work == \/ Take \/ ApplyChunk \/ IncrementCompleted \/ IncrementFailed
        \/ FinalizeStatus \/ FinalizeExpire \/ FinalizeMirror \/ Publish
        \/ ApplyChunkThrows \/ RedisThrows \/ MirrorThrows \/ WorkerCancelled

Poll == PollRedis \/ PollMiss \/ PollMirror \/ PollThrows

(* Every request was answered and no job is left.                          *)
Idle == /\ \A j \in Jobs : enq[j] \in {"rejected", "accepted", "failed"}
        /\ queue = <<>> /\ wpc = "idle" /\ poll.pc = "idle" /\ host = "up"
        /\ UNCHANGED vars

Next == \/ \E j \in Jobs : \/ \E n \in 0..MaxBatch + 1 : EnqueueReceive(j, n)
                           \/ Enqueue(j) \/ EnqueueFail(j)
                           \/ PollStart(j) \/ Expire(j)
        \/ Work \/ Poll
        \/ Stop \/ StopEnds \/ Kill \/ Restart \/ Flush
        \/ Idle

(* Requests that were received and the worker's task are run; a stopped    *)
(* host goes down, and whoever runs it starts it again.                    *)
Fairness == /\ \A j \in Jobs : WF_vars(Enqueue(j) \/ EnqueueFail(j))
            /\ WF_vars(Work) /\ WF_vars(Poll) /\ WF_vars(StopEnds) /\ WF_vars(Restart)

Spec == Init /\ [][Next]_vars /\ Fairness

-----------------------------------------------------------------------------
(* Properties                                                              *)

JobStatus == {"processing"} \cup Terminal
Busy == {"chunk", "incCompleted", "incFailed", "finStatus", "finExpire", "finMirror", "publish"}
Sizes == 0..MaxBatch + 1

CountType == [completed : Nat, failed : Nat]
FinalType == [status : {"none"} \cup Terminal, completed : Nat, failed : Nat]
HashType == [exists : BOOLEAN, status : {""} \cup JobStatus, total : Nat,
             completed : Nat, failed : Nat, ttl : BOOLEAN]
MirrorType == [status : {"none"} \cup JobStatus, total : Nat, completed : Nat, failed : Nat]
AnswerType == [code : {0, 200, 404, 500}, status : {"", "none"} \cup JobStatus,
               total : Nat, completed : Nat, failed : Nat]

(* Every variable has its type, and the worker a job when it is busy.      *)
TypeOK ==
    /\ enq \in [Jobs -> {"idle", "rejected", "inserting", "initing", "queueing",
                         "accepted", "failed"}]
    /\ total \in [Jobs -> Sizes]
    /\ queue \in Seq(Jobs)
    /\ wpc \in Busy \cup {"idle", "ended"}
    /\ wjob \in Jobs \cup {NoJob} /\ (wjob \in Jobs <=> wpc \in Busy)
    /\ offset \in Nat
    /\ chunkRes \in CountType /\ sum \in CountType /\ final \in FinalType
    /\ inCatch \in BOOLEAN
    /\ redis \in [Jobs -> HashType] /\ mirror \in [Jobs -> MirrorType]
    /\ poll \in [pc : {"idle", "redis", "mirror"}, job : Jobs \cup {NoJob}]
    /\ answer \in [Jobs -> AnswerType]
    /\ host \in {"up", "stopping", "down"} /\ stops \in 0..MaxStops
    /\ faults \in 0..MaxFaults /\ flushed \in BOOLEAN
    /\ reported \in [Jobs -> Nat] /\ announced \in [Jobs -> Nat]

(* The row of a finished job accounts for every id of the request, by      *)
(* whichever path the worker finished it, and never claims more ids        *)
(* completed than its chunks reported; "completed" means at least one was. *)
MirrorAccounting ==
    \A j \in Jobs : mirror[j].status \in Terminal =>
       /\ mirror[j].completed + mirror[j].failed = total[j]
       /\ mirror[j].completed <= reported[j]
       /\ mirror[j].status = "completed" => mirror[j].completed > 0

(* bulk_completed is published at most once per job, and only when both    *)
(* stores already say so: a client that polls on it never sees             *)
(* "processing", and the two never disagree on the verdict.                *)
AnnouncedWhenSettled ==
    \A j \in Jobs :
       /\ announced[j] <= 1
       /\ announced[j] = 1 => /\ mirror[j].status \in Terminal
                              /\ redis[j].exists => redis[j].status = mirror[j].status

(* A job whose id was handed out is known: its poll is never a 404, with   *)
(* its hash expired or flushed, after a stop or a kill.                    *)
AcceptedIsKnown ==
    \A j \in Jobs : /\ enq[j] = "accepted" => mirror[j].status # "none"
                    /\ answer[j].code # 404

(* One failing call never takes the worker, and the host with it, down.    *)
OneFaultSurvived == faults <= 1 /\ stops = 0 => host = "up"

(* No call failed, Redis kept its data, and no hash that a stop left final *)
(* before its row can expire.                                              *)
Undisturbed == faults = 0 /\ ~flushed /\ (stops = 0 \/ ~MayExpire)

(* What a client is told about a job never goes backwards: no count drops, *)
(* no verdict is withdrawn, though an expired hash hands over to the row.  *)
AnswersNeverRegress ==
    [][Undisturbed' =>
       \A j \in Jobs : answer[j].code = 200 /\ answer'[j].code = 200 =>
          /\ answer'[j].completed >= answer[j].completed
          /\ answer'[j].failed >= answer[j].failed
          /\ answer[j].status \in Terminal => answer'[j].status = answer[j].status]_vars

(* An accepted job is finished and announced, though one call may fail:    *)
(* only a second failure, in the catch, or a stop can lose it.             *)
AcceptedFinishes ==
    \A j \in Jobs : enq[j] = "accepted" ~> announced[j] = 1 \/ faults > 1 \/ stops > 0

(* With no failing call and no stop, the pipeline implements the promise.  *)
Lifecycle == INSTANCE JobLifecycle WITH
                MaxTotal <- MaxBatch, job <- mirror,
                announced <- {j \in Jobs : announced[j] # 0}
LifecycleSpec == Lifecycle!Spec

(* The row's update had its effect and threw: the catch stores a second    *)
(* verdict over the first.                                                 *)
SecondVerdict ==
    /\ inCatch /\ mirror[wjob].status \in Terminal
    /\ mirror' = [mirror EXCEPT ![wjob].status = "failed", ![wjob].completed = 0,
                                ![wjob].failed = total[wjob]]
    /\ UNCHANGED announced

(* Whatever fails, stops, expires or is lost, no step leaves the lifecycle *)
(* of a job, but for that second verdict.                                  *)
LifecycleSteps == Lifecycle!Init /\ [][Lifecycle!Next \/ SecondVerdict]_(Lifecycle!vars)
=============================================================================
