----------------------------- MODULE MCEventHub -----------------------------
(***************************************************************************)
(* Instances of EventHub for TLC: a client without a filter and one with   *)
(* the filter of supplier u1, two order_updated events of two suppliers    *)
(* and a bulk_completed one.                                               *)
(***************************************************************************)
EXTENDS EventHub

CONSTANTS all, only1, moved1, moved2, moved1Again, bulk, u1, u2

FilterOf == [s \in {all, only1} |-> IF s = only1 THEN u1 ELSE NoSupplier]
SupplierOf == [e \in {moved1, moved1Again, moved2, bulk} |->
                 CASE e = bulk -> NoSupplier [] e = moved2 -> u2 [] OTHER -> u1]
=============================================================================
