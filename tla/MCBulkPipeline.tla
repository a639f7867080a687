--------------------------- MODULE MCBulkPipeline ---------------------------
(***************************************************************************)
(* Instances of BulkPipeline for TLC.  Chunks of two ids and batches of at *)
(* most three: one full chunk, one rest, and both refused sizes.           *)
(***************************************************************************)
EXTENDS BulkPipeline

=============================================================================
