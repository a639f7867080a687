---------------------------- MODULE MCSuppliersPage ----------------------------
(* An instance of SuppliersPage for TLC: two full pages of two. *)
EXTENDS SuppliersPage

CONSTANTS catalog

SelectsDef == [v \in {catalog} |-> catalog]
InitRowsDef == [s \in {catalog} |-> 4]
=============================================================================
