---------------------------- MODULE MCOrdersPage ----------------------------
(***************************************************************************)
(* An instance of OrdersPage for TLC: one needle and a blank text, one     *)
(* other filter, two columns; all orders fill three pages of two, what the *)
(* filter or the search selects two.                                       *)
(***************************************************************************)
EXTENDS OrdersPage

CONSTANTS needle, narrow

TextsDef == {"", " ", "ab"}
TrimmedDef == [t \in TextsDef |-> IF t = "ab" THEN needle ELSE NoSearch]
SelectionOf(f) == <<f.search, f.rest>>
SelectionsDef == {SelectionOf(f) : f \in OrdersFilters}
SelectsDef == [f \in OrdersFilters |-> SelectionOf(f)]
InitRowsDef == [s \in SelectionsDef |->
                  IF s = SelectionOf(defaultFilters) THEN 5 ELSE IF s[1] = NoSearch THEN 3 ELSE 1]
VolatileDef == {s \in SelectionsDef : s[2] # NoRest /\ s[1] = NoSearch}
=============================================================================
