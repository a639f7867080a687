------------------------------ MODULE OrdersPage ------------------------------
(***************************************************************************)
(* The orders page: its filters with the debounced search box, the         *)
(* ordering, "Clear all" and the paged list below them.  A view is what    *)
(* OrdersFilters (api.ts) holds: the search, the other filters as one      *)
(* value, the field and the direction of the ordering.                     *)
(***************************************************************************)
EXTENDS PagedList

CONSTANTS Texts, EmptyText,  \* what the search box may hold
          Trimmed,           \* Trimmed[t]: its search, or NoSearch when it is blank
          NoSearch,
          Rests, NoRest,     \* the other filters together, and their default
          Fields, FirstField \* what the list can be ordered by

Searches == {Trimmed[t] : t \in Texts} \cup {NoSearch}
OrdersFilters == [search: Searches, rest: Rests, sort: Fields, order: {"asc", "desc"}]
defaultFilters == [search |-> NoSearch, rest |-> NoRest, sort |-> FirstField, order |-> "asc"]

ASSUME FiltersAssumption ==
    /\ EmptyText \in Texts /\ Trimmed[EmptyText] = NoSearch
    /\ NoRest \in Rests /\ FirstField \in Fields
    /\ Views = OrdersFilters /\ FirstView = defaultFilters

VARIABLES
    searchInput,  \* the text in the box
    debounced,    \* useDebouncedValue(searchInput, 300)
    \* history
    chosen,       \* the filters and the ordering the user chose last
    overridden    \* Clear all came after the last text was applied

boxVars == <<searchInput, debounced>>
pageHistory == <<chosen, overridden>>
vars == <<listVars, boxVars, pageHistory>>

ChoiceOf(f) == [rest |-> f.rest, sort |-> f.sort, order |-> f.order]

TypeOK ==
    /\ ListTypeOK
    /\ searchInput \in Texts /\ debounced \in Texts
    /\ chosen \in {ChoiceOf(f) : f \in OrdersFilters}
    /\ overridden \in BOOLEAN

Init == /\ ListInit
        /\ searchInput = EmptyText /\ debounced = EmptyText
        /\ chosen = ChoiceOf(defaultFilters)
        /\ overridden = FALSE

-----------------------------------------------------------------------------
(* Every change of the filters returns to the first page.                  *)
SetFilters_KeepsPage(f) == Visit(f, offset)
SetFilters(f) == Visit(f, 0)

(* A filter, a field or a direction is chosen by the user.                 *)
ChooseView(f) ==
    /\ SetFilters(f)
    /\ chosen' = ChoiceOf(f)
    /\ UNCHANGED <<boxVars, overridden>>

(* The chips of status, priority and flag, and the advanced filters.       *)
ChangeFilter == \E r \in Rests \ {view.rest} : ChooseView([view EXCEPT !.rest = r])

Flip(o) == IF o = "asc" THEN "desc" ELSE "asc"

ChangeSort == \E s \in Fields \ {view.sort} : ChooseView([view EXCEPT !.sort = s])
ChangeOrder == ChooseView([view EXCEPT !.order = Flip(@)])

(* A click on a column's head.                                             *)
SortedBy(s) == IF view.sort = s THEN [view EXCEPT !.order = Flip(@)]
               ELSE [view EXCEPT !.sort = s, !.order = "asc"]

ToggleSort == \E s \in Fields : ChooseView(SortedBy(s))

(* The button is there only while a filter is set; the ordering is none,   *)
(* but is reset too.  The text stays in the box.                           *)
countActiveFilters(f) == (IF f.search = NoSearch THEN 0 ELSE 1) + (IF f.rest = NoRest THEN 0 ELSE 1)

ClearAll ==
    /\ countActiveFilters(view) > 0
    /\ SetFilters(defaultFilters)
    /\ chosen' = ChoiceOf(defaultFilters)
    /\ overridden' = TRUE
    /\ UNCHANGED boxVars

Type ==
    /\ Click
    /\ searchInput' \in Texts \ {searchInput}
    /\ UNCHANGED <<view, offset, cache, lastKey, counted, server, debounced, chosen, overridden>>

SearchedView_FromDefaults(next) == [defaultFilters EXCEPT !.search = next]
SearchedView(next) == [view EXCEPT !.search = next]

SearchChanged_IfAny(next) == next # NoSearch /\ next # view.search
SearchChanged(next) == next # view.search

(* 300 ms after the last keystroke: the debounced text, and the effect     *)
(* that depends on it.  It reads the filters as they are by then.          *)
Debounce ==
    LET next == Trimmed[searchInput]
    IN  /\ debounced # searchInput
        /\ debounced' = searchInput
        /\ IF SearchChanged(next)
           THEN /\ view' = SearchedView(next) /\ offset' = 0
                /\ Show(Key(SearchedView(next), 0))
           ELSE UNCHANGED <<view, offset, cache, lastKey, counted>>
        /\ overridden' = FALSE
        /\ UNCHANGED <<searchInput, server, clicks, chosen>>

(* A write of this client, a job it follows: ["orders"] is invalidated.    *)
Refresh ==
    /\ writes < MaxWrites /\ writes' = writes + 1
    /\ cache' = [k \in DOMAIN cache |-> Invalidate(cache[k], k = Current)]
    /\ counted' = IF Restarts(query) THEN -1 ELSE counted
    /\ UNCHANGED <<view, offset, lastKey, rows, shrunk, clicks, boxVars, pageHistory>>

(* A step of the list alone.                                               *)
Listing(step) == step /\ UNCHANGED <<boxVars, pageHistory>>

Next == \/ ChangeFilter \/ ChangeSort \/ ChangeOrder \/ ToggleSort
        \/ ClearAll \/ Type \/ Debounce
        \/ Listing(NextPage) \/ Listing(PrevPage)
        \/ Listing(Count) \/ Listing(Page) \/ Listing(RequestFails)
        \/ Listing(Write) \/ Refresh

(* The server answers or the request fails, the timer runs out; nobody has *)
(* to click.                                                               *)
Spec == Init /\ [][Next]_vars /\ WF_vars(Listing(Answer)) /\ WF_vars(Debounce)

-----------------------------------------------------------------------------
(* A search that is applied late, over filters chosen meanwhile, changes   *)
(* nothing but the search: what the user chose last is what is listed.     *)
ChoicesKept == ChoiceOf(view) = chosen

(* What is typed is listed in the end, however the keystrokes, the filter  *)
(* changes and the answers interleave; only Clear all may come in between. *)
(* A text typed less than 300 ms before Clear all comes back after it.     *)
TypedIsSearched ==
    \A t \in Texts : searchInput = t ~> (searchInput # t \/ overridden \/ view.search = Trimmed[t])
==============================================================================
