-------------------------------- MODULE Query --------------------------------
(***************************************************************************)
(* One entry of the web client's query cache: TanStack Query 5 as          *)
(* src/lib/queryClient.ts configures it.  The library is not in the        *)
(* repository; what is modelled is what its pages rely on:                 *)
(*                                                                         *)
(*   - a query has at most one fetch in flight, and a second caller joins  *)
(*     it; a refetch restarts it instead, but only when there is data;     *)
(*   - the page's abort signal is passed to fetch, so a query nobody       *)
(*     observes any more gives up its fetch and stays as it was;           *)
(*   - a failed fetch is tried once more and then is an error, which keeps *)
(*     the data there was;                                                 *)
(*   - data is fresh for 30 seconds unless it is invalidated or its last   *)
(*     fetch failed.  Time is not modelled: data that is shown again may   *)
(*     or may not have expired.                                            *)
(***************************************************************************)
EXTENDS Naturals

CONSTANT None

NewQuery == [data |-> None, loading |-> FALSE, retried |-> FALSE, error |-> None, stale |-> FALSE]

QueryType(D, E) ==
    [data: D \cup {None}, loading: BOOLEAN, retried: BOOLEAN,
     error: E \cup {None}, stale: BOOLEAN]

HasData(q) == q.data # None

(* Nothing to show yet, and no error either: the skeleton rows.            *)
Pending(q) == ~HasData(q) /\ q.error = None

(* A fetch starts: without data an earlier error is forgotten.             *)
Send(q) == [q EXCEPT !.loading = TRUE, !.retried = FALSE,
                     !.error = IF HasData(q) THEN @ ELSE None]

Fetch(q)   == IF q.loading THEN q ELSE Send(q)
Restarts(q) == HasData(q) \/ ~q.loading
Refetch(q) == IF Restarts(q) THEN Send(q) ELSE q

Abandon(q) == [q EXCEPT !.loading = FALSE, !.retried = FALSE]

Succeed(q, d) == [data |-> d, loading |-> FALSE, retried |-> FALSE, error |-> None, stale |-> FALSE]

(* retry: 1, for every query whose page does not say otherwise.            *)
MayRetry_Always(q) == TRUE
MayRetry(q) == ~q.retried

(* A fetch fails with error e; "retry" is the query's option.              *)
Fail(q, e, retry) ==
    IF retry /\ MayRetry(q)
    THEN [q EXCEPT !.retried = TRUE]
    ELSE [q EXCEPT !.loading = FALSE, !.retried = FALSE, !.error = e, !.stale = HasData(q)]

(* setQueryData: a fetch in flight goes on.                                *)
SetData(q, d) == [q EXCEPT !.data = d, !.error = None, !.stale = FALSE]

(* invalidateQueries: what is on the page is fetched again, the rest when  *)
(* it is shown next.                                                       *)
Invalidate(q, shown) ==
    LET marked == [q EXCEPT !.stale = HasData(q)]
    IN  IF shown THEN Refetch(marked) ELSE marked

(* A page shows q again; expired says that its 30 seconds are over.        *)
Appear(q, expired) == IF HasData(q) /\ ~q.stale /\ ~expired THEN q ELSE Fetch(q)
==============================================================================
