---------------------------- MODULE JobLifecycle ----------------------------
(***************************************************************************)
(* What a client of the bulk API is promised, with no queue, no chunks and *)
(* one store: a job that was recorded is being processed until, in one     *)
(* step, it is completed or failed with every id accounted for; it is      *)
(* failed only if every id failed; and it is announced once, afterwards.   *)
(***************************************************************************)
EXTENDS Naturals

CONSTANTS Jobs, MaxTotal

VARIABLES job,       \* job[j]: [status, total, completed, failed]
          announced  \* the jobs whose bulk_completed was published

vars == <<job, announced>>

Init == /\ job = [j \in Jobs |-> [status |-> "none", total |-> 0,
                                  completed |-> 0, failed |-> 0]]
        /\ announced = {}

Record(j, n) ==
    /\ job[j].status = "none"
    /\ job' = [job EXCEPT ![j].status = "processing", ![j].total = n]
    /\ UNCHANGED announced

Finish(j) ==
    /\ job[j].status = "processing"
    /\ \E k \in 0..job[j].total :
          job' = [job EXCEPT ![j].status = IF k = 0 THEN "failed" ELSE "completed",
                             ![j].completed = k, ![j].failed = job[j].total - k]
    /\ UNCHANGED announced

Announce(j) ==
    /\ job[j].status \in {"completed", "failed"} /\ j \notin announced
    /\ announced' = announced \cup {j}
    /\ UNCHANGED job

Next == \E j \in Jobs : \/ \E n \in 1..MaxTotal : Record(j, n)
                        \/ Finish(j) \/ Announce(j)

(* A recorded job is finished and announced.                               *)
Spec == /\ Init /\ [][Next]_vars
        /\ \A j \in Jobs : WF_vars(Finish(j)) /\ WF_vars(Announce(j))
=============================================================================
