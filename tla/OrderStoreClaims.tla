-------------------------- MODULE OrderStoreClaims --------------------------
(***************************************************************************)
(* What ARCHITECTURE.md says of the write paths and the code does not do:  *)
(* TLC refutes it.                                                         *)
(***************************************************************************)
EXTENDS OrderStore

(* ARCHITECTURE 4.2, of the rows SKIP LOCKED passes over: "by the time     *)
(* this transaction commits, the other job has already applied an          *)
(* equivalent action".                                                     *)
SkippedAlreadyApplied ==
    [][ChunkCommit => \A o \in found \ locked :
          IF ChunkAction[chunk] = "flag"
          THEN flag'[o] # NoOne
          ELSE row'[o].status = BulkStatus(chunk)]_vars
=============================================================================
