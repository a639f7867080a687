----------------------------- MODULE SuppliersPage -----------------------------
(***************************************************************************)
(* The suppliers page: a paged list without filters.  No operation of the  *)
(* API adds or removes a supplier, and nothing leaves the first view.      *)
(***************************************************************************)
EXTENDS PagedList

Init == ListInit

PageRequest == Count \/ Page \/ RequestFails
Paging == NextPage \/ PrevPage

Next == PageRequest \/ Paging

Spec == Init /\ [][Next]_listVars /\ WF_listVars(PageRequest)
=============================================================================
