----------------------------- MODULE MCJobToasts -----------------------------
(* An instance of JobToasts for TLC: two jobs at a time. *)
EXTENDS JobToasts

CONSTANTS j1, j2
==============================================================================
