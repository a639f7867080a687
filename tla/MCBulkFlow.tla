------------------------------ MODULE MCBulkFlow ------------------------------
(* An instance of BulkFlow for TLC: two orders on a page and one on the next. *)
EXTENDS BulkFlow, TLC

CONSTANTS i1, i2, i3, j1, j2

Symmetry == Permutations({i1, i2}) \cup Permutations({j1, j2})

PagesDef == {{i1, i2}, {i3}}
=============================================================================
