--------------------------- MODULE OrdersPageProofs ---------------------------
(***************************************************************************)
(* Proofs about the orders page, for any filters, searches, page size and  *)
(* number of orders, and for any writes of others.                         *)
(***************************************************************************)
EXTENDS OrdersPage, PagedListProofs

PageInv == TypeOK /\ ListInv /\ ChoicesKept

(* The page: its filters and its search box.                               *)

(* What the filters are made of.                                           *)
LEMMA FilterFacts ==
    ASSUME NEW f \in OrdersFilters
    PROVE  /\ f.search \in Searches /\ f.rest \in Rests /\ f.sort \in Fields
           /\ f.order \in {"asc", "desc"}
           /\ \A r \in Rests : [f EXCEPT !.rest = r] \in OrdersFilters
           /\ \A x \in Fields : [f EXCEPT !.sort = x] \in OrdersFilters
           /\ \A x \in Fields : [f EXCEPT !.sort = x, !.order = "asc"] \in OrdersFilters
           /\ [f EXCEPT !.order = Flip(@)] \in OrdersFilters
           /\ \A x \in Searches : /\ SearchedView(x) = [view EXCEPT !.search = x]
                                  /\ [f EXCEPT !.search = x] \in OrdersFilters
                                  /\ ChoiceOf([f EXCEPT !.search = x]) = ChoiceOf(f)
BY DEF OrdersFilters, Flip, SearchedView, ChoiceOf

(* The page starts with the default filters and nothing typed.             *)
LEMMA PageInitInv == Init => PageInv
<1> SUFFICES ASSUME Init PROVE PageInv
  OBVIOUS
<1>1. ListInv
  BY ListInitInv DEF Init
<1>2. defaultFilters \in OrdersFilters /\ view = defaultFilters
  BY FiltersAssumption DEF Init, ListInit, defaultFilters, OrdersFilters, Searches
<1>3. TypeOK
  BY <1>1, <1>2, FiltersAssumption DEF Init, TypeOK, ListInv
<1>4. ChoicesKept
  BY <1>2 DEF Init, ChoicesKept
<1> QED
  BY <1>1, <1>3, <1>4 DEF PageInv

(* New filters are shown from the first page.                              *)
LEMMA SetFiltersInv ==
    ASSUME PageInv, NEW f \in OrdersFilters, SetFilters(f), chosen' = ChoiceOf(f),
           UNCHANGED boxVars, overridden' \in BOOLEAN
    PROVE  PageInv'
<1>1. f \in Views
  BY FiltersAssumption
<1>2. WithinRows(Key(f, 0))
  BY DEF WithinRows, Key
<1>3. ListInv'
  BY <1>1, <1>2, VisitInv DEF PageInv, SetFilters
<1>4. view' = f
  BY DEF SetFilters, Visit
<1>5. TypeOK'
  BY <1>3 DEF PageInv, TypeOK, ListInv, boxVars
<1>6. ChoicesKept'
  BY <1>4 DEF ChoicesKept, ChoiceOf
<1> QED
  BY <1>3, <1>5, <1>6 DEF PageInv

(* What the user chooses: a filter, a column, a direction, or nothing.     *)
LEMMA ChooseInv ==
    ASSUME PageInv, ChangeFilter \/ ChangeSort \/ ChangeOrder \/ ToggleSort \/ ClearAll
    PROVE  PageInv'
<1>1. view \in OrdersFilters /\ overridden \in BOOLEAN
  BY FiltersAssumption DEF PageInv, TypeOK, ListTypeOK
<1>2. ASSUME NEW f \in OrdersFilters, ChooseView(f)
      PROVE  PageInv'
  BY <1>1, <1>2, SetFiltersInv DEF ChooseView
<1>3. CASE ChangeFilter
  BY <1>1, <1>2, <1>3, FilterFacts DEF ChangeFilter
<1>4. CASE ChangeSort
  BY <1>1, <1>2, <1>4, FilterFacts DEF ChangeSort
<1>5. CASE ChangeOrder
  BY <1>1, <1>2, <1>5, FilterFacts DEF ChangeOrder
<1>6. CASE ToggleSort
  <2>1. \A x \in Fields : SortedBy(x) \in OrdersFilters
    BY <1>1, FilterFacts DEF SortedBy
  <2> QED
    BY <1>2, <1>6, <2>1 DEF ToggleSort
<1>7. CASE ClearAll
  <2>1. defaultFilters \in OrdersFilters
    BY FiltersAssumption DEF defaultFilters, OrdersFilters, Searches
  <2> QED
    BY <1>7, <2>1, SetFiltersInv DEF ClearAll
<1> QED
  BY <1>3, <1>4, <1>5, <1>6, <1>7

(* A keystroke leaves the list alone.                                      *)
LEMMA TypeInv ==
    ASSUME PageInv, Type
    PROVE  PageInv'
<1>1. /\ UNCHANGED <<view, offset, cache, lastKey, counted, server, debounced, chosen, overridden>>
      /\ searchInput' \in Texts /\ clicks' \in 0 .. MaxClicks
  BY SizesAssumption DEF Type, Click, PageInv, TypeOK, ListTypeOK
<1>2. ListTypeOK' /\ TypeOK'
  BY <1>1 DEF PageInv, TypeOK, ListTypeOK, server, Current
<1>3. PagesInv' /\ CountInv' /\ ShownInv'
  BY <1>1 DEF PageInv, ListInv, PagesInv, WithinRows, AnswerOf, Kept, CountInv, ShownInv,
     server, query, Current
<1>4. ChoicesKept'
  BY <1>1 DEF PageInv, ChoicesKept
<1> QED
  BY <1>2, <1>3, <1>4 DEF PageInv, ListInv

(* The debounced text is searched for, over the filters of that moment.    *)
LEMMA DebounceInv ==
    ASSUME PageInv, Debounce
    PROVE  PageInv'
<1> DEFINE next == Trimmed[searchInput]
<1>1. /\ debounced' = searchInput /\ overridden' = FALSE
      /\ UNCHANGED <<searchInput, server, clicks, chosen>>
      /\ \/ /\ view' = SearchedView(next) /\ offset' = 0
            /\ Show(Key(SearchedView(next), 0))
         \/ UNCHANGED <<view, offset, cache, lastKey, counted>>
  BY DEF Debounce
<1>2. /\ view \in OrdersFilters /\ searchInput \in Texts /\ next \in Searches
      /\ Views = OrdersFilters /\ clicks \in 0 .. MaxClicks
  BY FiltersAssumption DEF PageInv, TypeOK, ListTypeOK, Searches
<1> HIDE DEF next
<1>3. CASE /\ view' = SearchedView(next) /\ offset' = 0
           /\ Show(Key(SearchedView(next), 0))
  <2> DEFINE v == SearchedView(next)
  <2>1. v \in Views /\ ChoiceOf(v) = ChoiceOf(view)
    BY <1>2, FilterFacts
  <2> HIDE DEF v
  <2>2. WithinRows(Key(v, 0))
    BY DEF WithinRows, Key
  <2>3. view' = v /\ offset' = 0 /\ Show(Key(v, 0))
    BY <1>3 DEF v
  <2>4. ListInv'
    BY <1>1, <1>2, <2>1, <2>2, <2>3, ShowInv DEF PageInv
  <2>5. TypeOK'
    BY <1>1, <1>2, <2>4 DEF PageInv, TypeOK, ListInv
  <2>6. ChoicesKept'
    BY <1>1, <2>1, <2>3 DEF PageInv, ChoicesKept, ChoiceOf
  <2> QED
    BY <2>4, <2>5, <2>6 DEF PageInv
<1>4. CASE UNCHANGED <<view, offset, cache, lastKey, counted>>
  <2>1. ListTypeOK' /\ TypeOK'
    BY <1>1, <1>2, <1>4 DEF PageInv, TypeOK, ListTypeOK, server, Current
  <2>2. PagesInv' /\ CountInv' /\ ShownInv'
    BY <1>1, <1>4 DEF PageInv, ListInv, PagesInv, WithinRows, AnswerOf, Kept, CountInv, ShownInv,
       server, query, Current
  <2>3. ChoicesKept'
    BY <1>1, <1>4 DEF PageInv, ChoicesKept
  <2> QED
    BY <2>1, <2>2, <2>3 DEF PageInv, ListInv
<1> QED
  BY <1>1, <1>3, <1>4

(* The lists are invalidated: the page on screen is fetched again.         *)
LEMMA RefreshInv ==
    ASSUME PageInv, Refresh
    PROVE  PageInv'
<1>1. /\ cache' = [k \in DOMAIN cache |-> Invalidate(cache[k], k = Current)]
      /\ counted' \in {-1, counted} /\ writes' \in 0 .. MaxWrites
      /\ UNCHANGED <<view, offset, lastKey, rows, shrunk, clicks, boxVars, pageHistory>>
  BY SizesAssumption DEF Refresh, PageInv, TypeOK, ListTypeOK
<1>2. \A k \in DOMAIN cache :
         /\ cache'[k] \in QueryType(Answers, {"failed"}) /\ cache'[k].data = cache[k].data
         /\ k = Current => cache'[k].loading
  <2> SUFFICES ASSUME NEW k \in DOMAIN cache
               PROVE  /\ cache'[k] \in QueryType(Answers, {"failed"}) /\ cache'[k].data = cache[k].data
                      /\ k = Current => cache'[k].loading
    OBVIOUS
  <2>1. cache[k] \in QueryType(Answers, {"failed"})
    BY DEF PageInv, TypeOK, ListTypeOK
  <2>2. \A b \in BOOLEAN :
           /\ Invalidate(cache[k], b) \in QueryType(Answers, {"failed"})
           /\ Invalidate(cache[k], b).data = cache[k].data
           /\ b => Invalidate(cache[k], b).loading
    BY <2>1, InvalidateFacts
  <2>3. PICK b \in BOOLEAN : (b <=> k = Current) /\ cache'[k] = Invalidate(cache[k], b)
    BY <1>1
  <2> QED
    BY <2>2, <2>3
<1>3. DOMAIN cache' = DOMAIN cache /\ Current' = Current /\ Current \in DOMAIN cache
  BY <1>1 DEF Current, PageInv, TypeOK, ListTypeOK
<1>4. ListTypeOK'
  <2>1. counted' \in -1 .. MaxRows
    BY <1>1, SizesAssumption DEF PageInv, TypeOK, ListTypeOK
  <2> QED
    BY <1>1, <1>2, <1>3, <2>1 DEF PageInv, TypeOK, ListTypeOK
<1>5. TypeOK'
  BY <1>1, <1>4 DEF PageInv, TypeOK, boxVars, pageHistory
<1>6. PagesInv'
  BY <1>1, <1>2, <1>3 DEF PageInv, ListInv, PagesInv, WithinRows, AnswerOf, Kept, HasData
<1>7. CountInv' /\ ShownInv'
  BY <1>1, <1>2, <1>3 DEF PageInv, ListInv, CountInv, ShownInv, Kept, query
<1>8. ChoicesKept'
  BY <1>1 DEF PageInv, ChoicesKept, pageHistory
<1> QED
  BY <1>4, <1>5, <1>6, <1>7, <1>8 DEF PageInv, ListInv

(* Every step keeps the invariant.                                         *)
LEMMA PageStepInv == PageInv /\ [Next]_vars => PageInv'
<1> SUFFICES ASSUME PageInv, [Next]_vars PROVE PageInv'
  OBVIOUS
<1>1. ASSUME ListInv', view' \in Views, ChoiceOf(view') = ChoiceOf(view),
             UNCHANGED <<boxVars, pageHistory>>
      PROVE  PageInv'
  <2>1. TypeOK'
    BY <1>1 DEF PageInv, TypeOK, ListInv, boxVars, pageHistory
  <2>2. ChoicesKept'
    BY <1>1 DEF PageInv, ChoicesKept, ChoiceOf, pageHistory
  <2> QED
    BY <1>1, <2>1, <2>2 DEF PageInv
<1>2. ListInv /\ view \in Views
  BY DEF PageInv, ListInv, ListTypeOK
<1>3. CASE Listing(NextPage) \/ Listing(PrevPage)
  <2>1. ListInv'
    BY <1>2, <1>3, PagingInv DEF Listing
  <2>2. view' = view /\ UNCHANGED <<boxVars, pageHistory>>
    BY <1>3 DEF Listing, NextPage, PrevPage, Visit
  <2> QED
    BY <1>1, <1>2, <2>1, <2>2
<1>4. CASE Listing(Count) \/ Listing(Page) \/ Listing(RequestFails) \/ Listing(Write)
  <2>1. ListInv'
    BY <1>2, <1>4, CountKeeps, PageKeeps, FailsKeeps, WriteKeeps DEF Listing
  <2>2. view' = view /\ UNCHANGED <<boxVars, pageHistory>>
    BY <1>4 DEF Listing, Count, Page, RequestFails, Write
  <2> QED
    BY <1>1, <1>2, <2>1, <2>2
<1>5. CASE UNCHANGED vars
  <2>1. UNCHANGED <<view, offset, cache, lastKey, counted, rows, writes, shrunk, clicks>>
        /\ UNCHANGED <<boxVars, pageHistory>>
    BY <1>5 DEF vars, listVars, server
  <2>2. ListTypeOK'
    BY <1>2, <2>1 DEF ListInv, ListTypeOK, Current
  <2>3. PagesInv' /\ CountInv' /\ ShownInv'
    BY <1>2, <2>1 DEF ListInv, PagesInv, WithinRows, AnswerOf, Kept, CountInv, ShownInv,
       query, Current
  <2> QED
    BY <1>1, <1>2, <2>1, <2>2, <2>3 DEF ListInv
<1> QED
  BY <1>3, <1>4, <1>5, ChooseInv, TypeInv, DebounceInv, RefreshInv DEF Next

(* The inductive invariant: besides the types, that every cached page is   *)
(* what was asked for, began within its orders and counts none that is not *)
(* there, and that the page on screen is never without something to show.  *)
THEOREM PageInvariant == Spec => []PageInv
BY PageInitInv, PageStepInv, PTL DEF Spec

-----------------------------------------------------------------------------
(* A search applied late changes nothing but the search (OrdersFilters.tsx *)
(* and useDebouncedValue.ts).                                              *)
THEOREM ChoicesAreKept == Spec => []ChoicesKept
<1>1. PageInv => ChoicesKept
  BY DEF PageInv
<1> QED
  BY <1>1, PageInvariant, PTL

(* While no order has left a selection, paging stops within it, and a      *)
(* change of the filters returns to its first page (OrdersPage.tsx).       *)
THEOREM PagingStaysWithin == Spec => []NeverPastTheEnd
<1>1. PageInv => NeverPastTheEnd
  BY ListWithin DEF PageInv
<1> QED
  BY <1>1, PageInvariant, PTL

(* At rest the rows are those of the filters, the ordering and the page    *)
(* that the controls show (the query key of useOrders in api.ts).          *)
THEOREM RowsAreAsAsked == Spec => []ShownAsAsked
<1>1. PageInv => ShownAsAsked
  BY ListAsAsked DEF PageInv
<1> QED
  BY <1>1, PageInvariant, PTL

(* "No orders match" is said only when none does, or when some have left   *)
(* since (OrdersPage.tsx over OrderRepository.ListAsync).                  *)
THEOREM EmptyIsTrue == Spec => []EmptyMeansNone
<1>1. PageInv => EmptyMeansNone
  BY ListEmpty DEF PageInv
<1> QED
  BY <1>1, PageInvariant, PTL

(* The range line tells how many rows there are (start and end in          *)
(* OrdersPage.tsx).                                                        *)
THEOREM RangeIsTrue == Spec => []RangeTellsRows
<1>1. PageInv => RangeTellsRows
  BY ListRange DEF PageInv
<1> QED
  BY <1>1, PageInvariant, PTL
==============================================================================
