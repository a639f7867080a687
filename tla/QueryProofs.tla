---------------------------- MODULE QueryProofs ----------------------------
(***************************************************************************)
(* What the operations on a query return, for data in D and errors in E.   *)
(***************************************************************************)
EXTENDS Query, TLAPS

(* A new query has no data and loads nothing.                              *)
LEMMA NewQueryFacts ==
    ASSUME NEW D, NEW E
    PROVE  /\ NewQuery \in QueryType(D, E)
           /\ ~HasData(NewQuery) /\ ~NewQuery.loading
BY DEF NewQuery, QueryType, HasData

(* Sending a request keeps the data and starts loading.                    *)
LEMMA SendFacts ==
    ASSUME NEW D, NEW E, NEW q \in QueryType(D, E)
    PROVE  /\ Send(q) \in QueryType(D, E)
           /\ Send(q).data = q.data /\ Send(q).loading /\ Send(q).stale = q.stale
           /\ ~HasData(q) => Send(q).error = None
           /\ HasData(q) => Send(q).error = q.error
BY DEF Send, QueryType, HasData

(* A fetch is in flight afterwards, and the data there was is kept.        *)
LEMMA FetchFacts ==
    ASSUME NEW D, NEW E, NEW q \in QueryType(D, E)
    PROVE  /\ Fetch(q) \in QueryType(D, E)
           /\ Fetch(q).data = q.data /\ Fetch(q).loading
           /\ q.loading => Fetch(q) = q
           /\ ~q.loading => Fetch(q) = Send(q)
BY SendFacts DEF Fetch, QueryType

(* A refetch keeps the data and loads again.                               *)
LEMMA RefetchFacts ==
    ASSUME NEW D, NEW E, NEW q \in QueryType(D, E)
    PROVE  /\ Refetch(q) \in QueryType(D, E)
           /\ Refetch(q).data = q.data /\ Refetch(q).loading /\ Refetch(q).stale = q.stale
           /\ ~Restarts(q) => Refetch(q) = q /\ q.loading /\ ~HasData(q)
BY SendFacts DEF Refetch, Restarts, QueryType

(* An abandoned request loads no more and keeps the data.                  *)
LEMMA AbandonFacts ==
    ASSUME NEW D, NEW E, NEW q \in QueryType(D, E)
    PROVE  /\ Abandon(q) \in QueryType(D, E)
           /\ Abandon(q).data = q.data /\ ~Abandon(q).loading
           /\ Abandon(q).error = q.error /\ Abandon(q).stale = q.stale
BY DEF Abandon, QueryType

(* An answer becomes the data and ends the loading.                        *)
LEMMA SucceedFacts ==
    ASSUME NEW D, NEW E, NEW q \in QueryType(D, E), NEW d \in D
    PROVE  /\ Succeed(q, d) \in QueryType(D, E)
           /\ Succeed(q, d).data = d /\ ~Succeed(q, d).loading
           /\ Succeed(q, d).error = None /\ ~Succeed(q, d).stale
BY DEF Succeed, QueryType

(* What there is is stale, and what is on the page is being fetched.       *)
LEMMA InvalidateFacts ==
    ASSUME NEW D, NEW E, NEW q \in QueryType(D, E), NEW shown \in BOOLEAN
    PROVE  /\ Invalidate(q, shown) \in QueryType(D, E)
           /\ Invalidate(q, shown).data = q.data /\ Invalidate(q, shown).stale = HasData(q)
           /\ shown => Invalidate(q, shown).loading
           /\ ~shown => /\ Invalidate(q, shown).loading = q.loading
                        /\ Invalidate(q, shown).error = q.error
<1> DEFINE marked == [q EXCEPT !.stale = HasData(q)]
<1>1. /\ marked \in QueryType(D, E)
      /\ marked.data = q.data /\ marked.loading = q.loading /\ marked.error = q.error
      /\ marked.stale = HasData(q)
  BY DEF QueryType, HasData
<1>2. Invalidate(q, shown) = IF shown THEN Refetch(marked) ELSE marked
  BY DEF Invalidate
<1> HIDE DEF marked
<1> QED
  BY <1>1, <1>2, RefetchFacts

(* A query appears with the data it has and is fetched, unless it is fresh. *)
LEMMA AppearFacts ==
    ASSUME NEW D, NEW E, NEW q \in QueryType(D, E), NEW expired \in BOOLEAN
    PROVE  /\ Appear(q, expired) \in QueryType(D, E)
           /\ Appear(q, expired).data = q.data
           /\ Appear(q, expired).loading \/ (Appear(q, expired) = q /\ HasData(q) /\ ~q.stale)
           /\ q.loading => Appear(q, expired) = q
           /\ ~q.loading => Appear(q, expired) \in {q, Send(q)}
BY FetchFacts DEF Appear
=============================================================================
