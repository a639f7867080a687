---------------------------- MODULE MCClientCache ----------------------------
(* An instance of ClientCache for TLC: one patch, a job and another's write.  *)
EXTENDS ClientCache

CONSTANT p1
=============================================================================
