------------------------------ MODULE PagedList ------------------------------
(***************************************************************************)
(* A table that shows one page of a list at a time: the query whose key is *)
(* what to list and where the page starts, the data of the previous page   *)
(* kept on screen until the next one is there (keepPreviousData), the      *)
(* range line and the buttons Previous and Next.  OrdersPage and           *)
(* SuppliersPage are such tables.                                          *)
(*                                                                         *)
(* The answer is put together by two statements on the server, a count and *)
(* a page (OrderRepository.cs:69-80), and others write in between.  Rows   *)
(* are counted, not told apart.  MaxClicks bounds what the user does,      *)
(* MaxWrites what others do to the list.                                   *)
(***************************************************************************)
EXTENDS Integers, FiniteSetsExt, Query

CONSTANTS Views, FirstView,      \* what can be listed: filters and ordering
          Selections, Selects,   \* the rows a view selects, whatever their order
          InitRows,              \* how many rows a selection has at first
          Volatile, NewSizes,    \* the selections whose rows come and go, and to how many
          PageSize, MaxRows, MaxClicks, MaxWrites

ASSUME ViewsAssumption == /\ FirstView \in Views
                          /\ Selects \in [Views -> Selections]
                          /\ InitRows \in [Selections -> 0 .. MaxRows]
                          /\ Volatile \subseteq Selections
                          /\ NewSizes \subseteq 0 .. MaxRows
ASSUME SizesAssumption == /\ PageSize \in Nat \ {0} /\ MaxRows \in Nat
                          /\ MaxClicks \in Nat /\ MaxWrites \in Nat

VARIABLES
    view, offset,  \* React state of the page
    cache,         \* the queries of the pages visited, by key
    lastKey,       \* the last key that had data: what keepPreviousData shows
    counted,       \* the count statement's result for the fetch in flight, or -1
    rows,          \* rows[s]: the rows of a selection on the server
    clicks, writes,
    shrunk         \* history: the selections that have lost rows

server == <<rows, writes, shrunk>>
listVars == <<view, offset, cache, lastKey, counted, server, clicks>>

Keys == [view: Views, offset: Nat]
Request == [view |-> view, offset |-> offset]

Key_WithoutOffset(v, o) == [view |-> v, offset |-> 0]
Key(v, o) == [view |-> v, offset |-> o]
Current == Key(view, offset)
query == cache[Current]

(* An answer to a request; torn says that the count was no longer true     *)
(* when the page was read.                                                 *)
Answers == [of: Keys, total: 0 .. MaxRows, length: 0 .. PageSize, torn: BOOLEAN]

ASSUME NoneAssumption == None \notin Answers \cup {"failed"}

ListTypeOK ==
    /\ view \in Views /\ offset \in Nat
    /\ DOMAIN cache \subseteq Keys
    /\ \A k \in DOMAIN cache : cache[k] \in QueryType(Answers, {"failed"})
    /\ Current \in DOMAIN cache
    /\ lastKey \in DOMAIN cache \cup {None}
    /\ counted \in -1 .. MaxRows
    /\ rows \in [Selections -> 0 .. MaxRows] /\ shrunk \subseteq Selections
    /\ clicks \in 0 .. MaxClicks /\ writes \in 0 .. MaxWrites

ListInit ==
    /\ view = FirstView /\ offset = 0
    /\ cache = [k \in {Key(FirstView, 0)} |-> Send(NewQuery)]
    /\ lastKey = None /\ counted = -1
    /\ rows = InitRows /\ shrunk = {}
    /\ clicks = 0 /\ writes = 0

-----------------------------------------------------------------------------
(* What is on screen.                                                      *)

(* query.data: the previous page's while the current one has none yet.     *)
data == CASE HasData(query) -> query.data
          [] Pending(query) /\ lastKey # None -> cache[lastKey].data
          [] OTHER -> None

total == IF data = None THEN 0 ELSE data.total
start_FromZero == IF total = 0 THEN 0 ELSE offset
start == IF total = 0 THEN 0 ELSE offset + 1
end == Min({offset + PageSize, total})
canPrev == offset > 0
canNext_OnFullPage == offset + PageSize <= total
canNext == offset + PageSize < total

(* Both buttons are disabled while anything is being fetched.              *)
Enabled == ~query.loading

(* The body of the table.                                                  *)
Body == CASE Pending(query) /\ data = None -> "skeleton"
          [] data = None -> "nothing"
          [] data # None /\ data.length = 0 -> "none match"
          [] OTHER -> "rows"

Settled == ~query.loading /\ HasData(query)

-----------------------------------------------------------------------------
(* The user.                                                               *)

(* Another key: the fetch of the old one is given up, the new one is       *)
(* fetched unless it is cached and fresh.                                  *)
Show(k) ==
    LET cached == IF k \in DOMAIN cache THEN cache[k] ELSE NewQuery
    IN  IF k = Current THEN UNCHANGED <<cache, lastKey, counted>>
        ELSE \E expired \in BOOLEAN :
             LET q == Appear(cached, expired)
             IN /\ cache' = [c \in DOMAIN cache \cup {k} |->
                               CASE c = k -> q
                                 [] c = Current -> Abandon(query)
                                 [] OTHER -> cache[c]]
                /\ lastKey' = IF HasData(q) THEN k ELSE lastKey
                /\ counted' = -1

Click == clicks < MaxClicks /\ clicks' = clicks + 1

Visit(v, o) ==
    /\ Click
    /\ view' = v /\ offset' = o
    /\ Show(Key(v, o))
    /\ UNCHANGED server

NextPage == Enabled /\ canNext /\ Visit(view, offset + PageSize)
PrevPage == Enabled /\ canPrev /\ Visit(view, Max({0, offset - PageSize}))

-----------------------------------------------------------------------------
(* The server and the network.                                             *)

SetQuery(q) == cache' = [cache EXCEPT ![Current] = q]

Count == /\ query.loading /\ counted = -1
         /\ counted' = rows[Selects[view]]
         /\ UNCHANGED <<view, offset, cache, lastKey, server, clicks>>

PageRows(o, n) == Max({0, Min({PageSize, n - o})})

(* The page is read and the answer arrives.                                *)
Page == /\ query.loading /\ counted # -1
        /\ LET n == rows[Selects[view]]
           IN  SetQuery(Succeed(query, [of |-> Request, total |-> counted,
                                        length |-> PageRows(offset, n), torn |-> counted # n]))
        /\ lastKey' = Current /\ counted' = -1
        /\ UNCHANGED <<view, offset, server, clicks>>

RequestFails == /\ query.loading
                /\ SetQuery(Fail(query, "failed", TRUE))
                /\ counted' = -1
                /\ UNCHANGED <<view, offset, lastKey, server, clicks>>

(* Somebody else's writes move orders in and out of a selection.           *)
Write == /\ writes < MaxWrites /\ writes' = writes + 1
         /\ \E s \in Volatile, n \in NewSizes :
              /\ n # rows[s]
              /\ rows' = [rows EXCEPT ![s] = n]
              /\ shrunk' = IF n < rows[s] THEN shrunk \cup {s} ELSE shrunk
         /\ UNCHANGED <<view, offset, cache, lastKey, counted, clicks>>

Answer == Count \/ Page \/ RequestFails

-----------------------------------------------------------------------------
(* While nothing has left a selection, the page is never behind its end:   *)
(* whatever the order of filter changes, cached pages and late answers,    *)
(* the table is not empty when orders match (canNext, the disabled buttons *)
(* and setFilters' return to the first page together).                     *)
NeverPastTheEnd ==
    offset = 0 \/ Selects[view] \in shrunk \/ offset < rows[Selects[view]]

(* "No orders match these filters." is not said of filters that orders     *)
(* match, unless they left the selection after the user had paged to them. *)
EmptyMeansNone ==
    Settled /\ Body = "none match" =>
        total = 0 \/ data.torn \/ Selects[view] \in shrunk

(* The range line "start-end of total" tells how many rows are below it,   *)
(* unless the list changed between the two statements of the answer.       *)
RangeTellsRows ==
    Settled /\ ~data.torn => data.length = IF total = 0 THEN 0 ELSE Max({0, end - start + 1})

(* With nothing in flight and no error, the rows are those of the filters, *)
(* the ordering and the page that the controls show.                       *)
ShownAsAsked == Settled => data.of = Request

(* A page does not load for ever, whatever fails: the answer or the error  *)
(* comes after one retry.                                                  *)
PageSettles == query.loading ~> ~query.loading
==============================================================================
