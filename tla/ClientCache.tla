----------------------------- MODULE ClientCache -----------------------------
(***************************************************************************)
(* The server state that the web client keeps across its pages, and how    *)
(* its own writes reach what is on screen: the queries of the orders,      *)
(* statistics and supplier pages and of the detail sheet, the status       *)
(* patches sent from the sheet, and the jobs followed by a toast.          *)
(*                                                                         *)
(* The server's data is a version that every write increases; an answer is *)
(* the version that was read; what is answered about a supplier is told    *)
(* apart from nothing but a 404.  "list" stands for the list on the orders *)
(* page at one key: OrdersPage has its keys, JobToasts what leads a toast  *)
(* to its report.  MaxVersion bounds the writes, MaxMoves what the user    *)
(* opens and navigates to, MaxFailures the requests that fail.             *)
(***************************************************************************)
EXTENDS Integers, Query

CONSTANTS Patches,  \* the patches this client sends
          MaxVersion, MaxMoves, MaxFailures

ASSUME BoundsAssumption == MaxVersion \in Nat /\ MaxMoves \in Nat /\ MaxFailures \in Nat

(* The keys that begin with "orders" are invalidated together; those of    *)
(* the sheet and of the supplier do not.                                   *)
OrdersQueries == {"list", "stats", "recent"}
OfSupplier == {"supplier", "performance"}
Queries == OrdersQueries \cup OfSupplier \cup {"order"}
Routes == {"orders", "stats", "supplier"}
Errors == {"failed", "not_found"}

ASSUME NoneAssumption == None \notin Errors

VARIABLES
    route, sheet,   \* the page, and whether the order is open in its sheet
    cache,          \* the queries
    read,           \* read[q]: the version its fetch in flight has read, or -1
    version,        \* the server's
    known,          \* the supplier of the address exists: chosen when its page is first shown
    patch,          \* where each patch is
    result,         \* result[p]: the version it made
    patching,       \* the patch the StatusPatcher on screen waits for, or None
    job, jobResult, \* where the bulk job is, and the version it made
    toast,          \* its toast is on the page
    moves, failures,
    \* history
    owed,           \* the version a query has to show, see below
    late            \* the sheet's request that was in flight when a patch was answered

server == <<version, known, result, jobResult, failures>>
page == <<route, sheet, patching, toast, moves>>
history == <<owed, late>>
vars == <<route, sheet, cache, read, version, known, patch, result, patching,
          job, jobResult, toast, moves, failures, history>>

TypeOK ==
    /\ route \in Routes /\ sheet \in BOOLEAN
    /\ cache \in [Queries -> QueryType(0 .. MaxVersion, Errors)]
    /\ read \in [Queries -> -1 .. MaxVersion]
    /\ version \in 0 .. MaxVersion /\ known \in BOOLEAN
    /\ patch \in [Patches -> {"idle", "sent", "applied", "done"}]
    /\ result \in [Patches -> 0 .. MaxVersion]
    /\ patching \in Patches \cup {None}
    /\ job \in {"none", "running", "ended", "reported"} /\ jobResult \in 0 .. MaxVersion
    /\ toast \in BOOLEAN /\ moves \in 0 .. MaxMoves
    /\ failures \in 0 .. MaxFailures
    /\ owed \in [Queries -> 0 .. MaxVersion]
    /\ late \in {"none", "pending", "answered"}

(* What a page observes.  An unknown supplier's page is replaced by "not   *)
(* found", and its sections with it.                                       *)
NotFound(c) == c["supplier"].error = "not_found"

OnPage(r, s, c) ==
    LET open == IF s THEN {"order"} ELSE {}
    IN  CASE r = "orders" -> {"list"} \cup open
          [] r = "stats"  -> {"stats"}
          [] r = "supplier" /\ NotFound(c) -> {"supplier"}
          [] OTHER -> {"supplier", "performance", "recent"} \cup open

Observed == OnPage(route, sheet, cache)

Init == /\ route = "orders" /\ sheet = FALSE
        /\ cache = [q \in Queries |-> IF q = "list" THEN Send(NewQuery) ELSE NewQuery]
        /\ read = [q \in Queries |-> -1]
        /\ version = 0 /\ known = TRUE
        /\ patch = [p \in Patches |-> "idle"] /\ result = [p \in Patches |-> 0]
        /\ patching = None
        /\ job = "none" /\ jobResult = 0 /\ toast = FALSE
        /\ moves = 0 /\ failures = 0
        /\ owed = [q \in Queries |-> 0] /\ late = "none"

-----------------------------------------------------------------------------
(* A late request that is given up or tried again does no harm.            *)
NotLate == late' = IF late = "pending" THEN "none" ELSE late

(* The user moves.  What a page no longer observes gives up its fetch,     *)
(* what it begins to observe is fetched unless it is fresh.                *)

Leaves_Unaborted(q) == q
Leaves(q) == Abandon(q)

Move(r, s) ==
    /\ route' = r /\ sheet' = s /\ patching' = None
    /\ LET mounted == r = "supplier" /\ route # "supplier"
           after == IF mounted THEN {"supplier", "performance", "recent"} ELSE OnPage(r, s, cache)
       IN  /\ \E expired \in SUBSET (after \ Observed) :
                cache' = [q \in Queries |->
                            CASE q \in after \ Observed -> Appear(cache[q], q \in expired)
                              [] q \in Observed \ after -> Leaves(cache[q])
                              [] OTHER -> cache[q]]
           /\ read' = [q \in Queries |-> IF q \in Observed \ after THEN -1 ELSE read[q]]
           /\ IF "order" \in Observed \ after THEN NotLate ELSE UNCHANGED late
    /\ UNCHANGED <<version, result, jobResult, failures, patch, job, owed>>

(* The state of the page is lost with it, its toasts too.                  *)
Navigate ==
    /\ moves < MaxMoves /\ moves' = moves + 1
    /\ \E r \in Routes \ {route} :
         /\ Move(r, FALSE)
         /\ IF r = "supplier" /\ \A q \in OfSupplier \cup {"recent"} : cache[q] = NewQuery
            THEN known' \in BOOLEAN ELSE UNCHANGED known
    /\ toast' = FALSE

(* A click on a row of the list, or of the supplier's recent orders.       *)
OpenOrder ==
    /\ ~sheet /\ moves < MaxMoves /\ moves' = moves + 1
    /\ \E q \in {"list", "recent"} \cap Observed : HasData(cache[q])
    /\ Move(route, TRUE) /\ UNCHANGED <<toast, known>>

CloseOrder == sheet /\ Move(route, FALSE) /\ UNCHANGED <<toast, known, moves>>

-----------------------------------------------------------------------------
(* Requests for data.                                                      *)

Read(q) == /\ cache[q].loading /\ read[q] = -1 /\ q \notin OfSupplier
           /\ read' = [read EXCEPT ![q] = version]
           /\ UNCHANGED <<page, cache, server, patch, job, history>>

Answer(q) ==
    /\ cache[q].loading /\ read[q] # -1
    /\ cache' = [cache EXCEPT ![q] = Succeed(@, read[q])]
    /\ read' = [read EXCEPT ![q] = -1]
    /\ late' = IF q # "order" THEN late ELSE IF late = "pending" THEN "answered" ELSE "none"
    /\ UNCHANGED <<page, server, patch, job, owed>>

AnswerSupplier(q) ==
    /\ cache[q].loading /\ q \in OfSupplier /\ known
    /\ cache' = [cache EXCEPT ![q] = Succeed(@, 0)]
    /\ UNCHANGED <<page, read, server, patch, job, history>>

(* A 404 is not retried.  When it is the supplier's, the page becomes "not *)
(* found": the fetches of the sections are given up, and the sheet goes.   *)
AnswerMissing(q) ==
    /\ cache[q].loading /\ q \in OfSupplier /\ ~known
    /\ LET failed == [cache EXCEPT ![q] = Fail(@, "not_found", FALSE)]
           gone == Observed \ OnPage(route, sheet, failed)
       IN  /\ cache' = [x \in Queries |-> IF x \in gone THEN Leaves(failed[x]) ELSE failed[x]]
           /\ read' = [x \in Queries |-> IF x \in gone THEN -1 ELSE read[x]]
           /\ sheet' = (sheet /\ ~NotFound(failed))
           /\ patching' = IF NotFound(failed) THEN None ELSE patching
           /\ IF "order" \in gone THEN NotLate ELSE UNCHANGED late
    /\ UNCHANGED <<route, toast, moves, server, patch, job, owed>>

RequestFails(q) ==
    /\ cache[q].loading
    /\ failures < MaxFailures /\ failures' = failures + 1
    /\ cache' = [cache EXCEPT ![q] = Fail(@, "failed", TRUE)]
    /\ read' = [read EXCEPT ![q] = -1]
    /\ IF q = "order" THEN NotLate ELSE UNCHANGED late
    /\ UNCHANGED <<page, version, known, result, jobResult, patch, job, owed>>

-----------------------------------------------------------------------------
(* Writes.                                                                 *)

IsAbout_ListOnly(q) == q = "list"
IsAbout(q) == q \in OrdersQueries

(* invalidateQueries({ queryKey: ["orders"] }), after c has been set.      *)
InvalidateOrders(c) ==
    /\ cache' = [q \in Queries |-> IF IsAbout(q) THEN Invalidate(c[q], q \in Observed) ELSE c[q]]
    /\ read' = [q \in Queries |-> IF IsAbout(q) /\ q \in Observed /\ Restarts(c[q]) THEN -1 ELSE read[q]]

(* From now on the orders queries owe this client version v, but a query   *)
(* that is being loaded for the first time: invalidating it only joins     *)
(* that load, which may have read an older version.                        *)
FirstLoad(q) == cache[q].loading /\ ~HasData(cache[q])
Acknowledged(v) ==
    [q \in Queries |-> IF q \in OrdersQueries /\ ~FirstLoad(q) THEN v ELSE owed[q]]

(* Apply is pressed: the sheet shows the order, and its StatusPatcher is   *)
(* not waiting.  Closing the sheet forgets a patch in flight.              *)
SendPatch(p) ==
    /\ sheet /\ HasData(cache["order"]) /\ patching = None
    /\ patch[p] = "idle"
    /\ patch' = [patch EXCEPT ![p] = "sent"] /\ patching' = p
    /\ UNCHANGED <<route, sheet, toast, moves, cache, read, server, job, history>>

PatchApplied(p) ==
    /\ patch[p] = "sent" /\ version < MaxVersion
    /\ version' = version + 1
    /\ result' = [result EXCEPT ![p] = version + 1]
    /\ patch' = [patch EXCEPT ![p] = "applied"]
    /\ UNCHANGED <<page, cache, read, known, jobResult, failures, job, history>>

StopsWaiting(p) == patching' = IF patching = p THEN None ELSE patching

Detail_Untouched(p) == cache["order"]
Detail(p) == SetData(cache["order"], result[p])

(* onSuccess runs even when the sheet is closed: the detail is replaced    *)
(* without cancelling its fetch, and the lists are invalidated.            *)
PatchAnswered(p) ==
    /\ patch[p] = "applied"
    /\ patch' = [patch EXCEPT ![p] = "done"] /\ StopsWaiting(p)
    /\ InvalidateOrders([cache EXCEPT !["order"] = Detail(p)])
    /\ owed' = [Acknowledged(result[p]) EXCEPT !["order"] = result[p]]
    /\ late' = IF cache["order"].loading THEN "pending" ELSE "none"
    /\ UNCHANGED <<route, sheet, toast, moves, server, job>>

(* Refused, or the answer is lost after the patch was applied.             *)
PatchFails(p) ==
    /\ patch[p] \in {"sent", "applied"}
    /\ patch' = [patch EXCEPT ![p] = "done"] /\ StopsWaiting(p)
    /\ UNCHANGED <<route, sheet, toast, moves, cache, read, server, job, history>>

(* The POST of a bulk action is answered on the orders page.               *)
SubmitJob ==
    /\ job = "none" /\ route = "orders" /\ ~sheet
    /\ job' = "running" /\ toast' = TRUE
    /\ InvalidateOrders(cache)
    /\ UNCHANGED <<route, sheet, patching, moves, server, patch, history>>

JobEnds ==
    /\ job = "running" /\ version < MaxVersion
    /\ job' = "ended"
    /\ version' = version + 1 /\ jobResult' = version + 1
    /\ UNCHANGED <<page, cache, read, known, failures, patch, result, history>>

(* The toast has polled the job's end.                                     *)
JobReported ==
    /\ job = "ended" /\ toast
    /\ job' = "reported"
    /\ InvalidateOrders(cache)
    /\ owed' = Acknowledged(jobResult)
    /\ UNCHANGED <<page, server, patch, late>>

OtherWrite ==
    /\ version < MaxVersion /\ version' = version + 1
    /\ UNCHANGED <<page, cache, read, known, result, jobResult, failures, patch, job, history>>

-----------------------------------------------------------------------------
Fetching(q) == Read(q) \/ Answer(q) \/ AnswerSupplier(q) \/ AnswerMissing(q) \/ RequestFails(q)

Next == \/ Navigate \/ OpenOrder \/ CloseOrder
        \/ \E q \in Queries : Fetching(q)
        \/ \E p \in Patches : SendPatch(p) \/ PatchApplied(p) \/ PatchAnswered(p) \/ PatchFails(p)
        \/ SubmitJob \/ JobEnds \/ JobReported \/ OtherWrite

Spec == Init /\ [][Next]_vars

-----------------------------------------------------------------------------
(* A list or a statistic at rest on the page shows at least what this      *)
(* client was told of its own writes, patched here or done by a job whose  *)
(* end the toast reported, whatever page it was loaded on and whichever    *)
(* answers were on their way; but for the first loads of Acknowledged.     *)
FreshAfterOwnWrite ==
    \A q \in OrdersQueries \cap Observed :
        HasData(cache[q]) /\ ~cache[q].loading /\ cache[q].error = None => cache[q].data >= owed[q]

(* The sheet shows at least the patch it was last told of, while requests  *)
(* of its own start, fail, are given up and come late.  It is behind only  *)
(* while what it shows is the answer of a request that was in flight when  *)
(* the patch was answered, for nothing cancels that one; and the next      *)
(* answer puts it right.                                                   *)
DetailShowsOwnPatch ==
    HasData(cache["order"]) /\ late # "answered" => cache["order"].data >= owed["order"]

(* No request goes on for what is not on the page: its answer could not be *)
(* seen, and a page that shows it again would join it.                     *)
NothingLoadsUnseen == \A q \in Queries : cache[q].loading => q \in Observed
==============================================================================
