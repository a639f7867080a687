-------------------------- MODULE ClientCacheProofs --------------------------
(***************************************************************************)
(* Proofs about ClientCache, for any number of patches, writes, moves and  *)
(* failing requests.                                                       *)
(***************************************************************************)
EXTENDS ClientCache, QueryProofs

CacheType == QueryType(0 .. MaxVersion, Errors)

(* A read belongs to the fetch in flight, and is as new as what is owed,   *)
(* but for that of the sheet's late request.                               *)
NewEnough(q, v) == v >= owed[q] \/ (q = "order" /\ late = "pending")

ReadsInFlight ==
    \A q \in Queries : read[q] # -1 => /\ cache[q].loading /\ q \notin OfSupplier
                                       /\ NewEnough(q, read[q])

(* Nobody was told of a version that the server does not have.             *)
WithinVersion ==
    /\ \A q \in Queries : owed[q] <= version
    /\ \A p \in Patches : result[p] <= version
    /\ jobResult <= version

(* What is older than what is owed is marked stale.                        *)
OldIsStale ==
    \A q \in OrdersQueries : HasData(cache[q]) /\ ~cache[q].stale => cache[q].data >= owed[q]

(* What is stale and on the page is being fetched, or its fetch failed.    *)
StaleIsFetched ==
    \A q \in OrdersQueries \cap Observed :
        HasData(cache[q]) /\ ~cache[q].loading /\ cache[q].error = None => ~cache[q].stale

(* An unknown supplier never has data, a known one is never "not found";   *)
(* the page that says so loads nothing and has no sheet.                   *)
SupplierKnown ==
    /\ known => \A q \in OfSupplier : cache[q].error # "not_found"
    /\ ~known => \A q \in OfSupplier : ~HasData(cache[q])
    /\ NotFound(cache) => ~cache["supplier"].loading
    /\ NotFound(cache) /\ route = "supplier" => ~sheet

CacheInv ==
    /\ TypeOK /\ NothingLoadsUnseen /\ DetailShowsOwnPatch
    /\ ReadsInFlight /\ WithinVersion /\ OldIsStale /\ StaleIsFetched /\ SupplierKnown

(* The client starts with an empty cache and nothing in flight.            *)
LEMMA CacheInitInv == Init => CacheInv
<1> SUFFICES ASSUME Init PROVE CacheInv
  OBVIOUS
<1>0. Queries = {"list", "stats", "recent", "supplier", "performance", "order"}
  BY DEF Queries, OrdersQueries, OfSupplier
<1>1. /\ NewQuery \in CacheType /\ ~HasData(NewQuery) /\ ~NewQuery.loading /\ NewQuery.error = None
      /\ Send(NewQuery) \in CacheType /\ ~HasData(Send(NewQuery)) /\ Send(NewQuery).error = None
  BY DEF NewQuery, Send, CacheType, QueryType, HasData
<1>2. \A q \in Queries : /\ cache[q] \in CacheType /\ ~HasData(cache[q]) /\ cache[q].error = None
                         /\ cache[q].loading => q = "list"
                         /\ read[q] = -1 /\ owed[q] = 0
  BY <1>1 DEF Init
<1>3. TypeOK
  <2>1. cache \in [Queries -> CacheType]
    BY <1>1 DEF Init
  <2>2. /\ read \in [Queries -> -1 .. MaxVersion] /\ owed \in [Queries -> 0 .. MaxVersion]
        /\ result \in [Patches -> 0 .. MaxVersion]
    BY BoundsAssumption DEF Init
  <2>3. version \in 0 .. MaxVersion /\ jobResult \in 0 .. MaxVersion
        /\ moves \in 0 .. MaxMoves /\ failures \in 0 .. MaxFailures
    BY BoundsAssumption DEF Init
  <2> QED
    BY <2>1, <2>2, <2>3 DEF Init, TypeOK, Routes, CacheType
<1>4. Observed = {"list"}
  BY DEF Observed, OnPage, Init
<1>5. NothingLoadsUnseen /\ DetailShowsOwnPatch
  BY <1>0, <1>2, <1>4 DEF NothingLoadsUnseen, DetailShowsOwnPatch
<1>6. ReadsInFlight /\ WithinVersion
  BY <1>2 DEF ReadsInFlight, NewEnough, WithinVersion, Init
<1>7. OldIsStale /\ StaleIsFetched
  BY <1>2 DEF OldIsStale, StaleIsFetched, Queries
<1>8. SupplierKnown
  BY <1>0, <1>2, NoneAssumption DEF SupplierKnown, NotFound, OfSupplier, Init, Errors
<1> QED
  BY <1>3, <1>5, <1>6, <1>7, <1>8 DEF CacheInv

(* A page that is opened or left: what it shows afterwards is fetched or   *)
(* fresh, what it does not show is not loading.                            *)
LEMMA MoveInv ==
    ASSUME CacheInv, NEW r \in Routes, NEW s \in BOOLEAN, Move(r, s),
           r # route => ~s,
           r = route /\ route = "supplier" /\ NotFound(cache) => ~s,
           toast' \in BOOLEAN, known' \in BOOLEAN, moves' \in 0 .. MaxMoves,
           known' = known \/ (r = "supplier" /\ route # "supplier"
                                /\ \A q \in OfSupplier : cache[q] = NewQuery)
    PROVE  CacheInv'
<1> USE DEF CacheInv
<1> DEFINE mounted == r = "supplier" /\ route # "supplier"
           after == IF mounted THEN {"supplier", "performance", "recent"} ELSE OnPage(r, s, cache)
<1>0. /\ Queries = {"list", "stats", "recent", "supplier", "performance", "order"}
      /\ OrdersQueries \subseteq Queries /\ OfSupplier \subseteq Queries
      /\ cache \in [Queries -> CacheType]
  BY DEF Queries, OrdersQueries, OfSupplier, TypeOK, CacheType
<1>1. PICK expired \in SUBSET (after \ Observed) :
         cache' = [q \in Queries |->
                            CASE q \in after \ Observed -> Appear(cache[q], q \in expired)
                              [] q \in Observed \ after -> Leaves(cache[q])
                              [] OTHER -> cache[q]]
  BY DEF Move
<1>2. /\ route' = r /\ sheet' = s /\ patching' = None
      /\ read' = [q \in Queries |-> IF q \in Observed \ after THEN -1 ELSE read[q]]
      /\ late' \in {"none", "pending", "answered"} /\ (late' = "answered" <=> late = "answered")
      /\ "order" \notin Observed \ after => late' = late
      /\ UNCHANGED <<version, result, jobResult, failures, patch, job, owed>>
  BY DEF Move, NotLate, TypeOK
<1>3. ASSUME NEW q \in Queries
      PROVE  /\ cache'[q] \in CacheType
             /\ cache'[q].data = cache[q].data /\ cache'[q].stale = cache[q].stale
             /\ cache'[q].error \in {cache[q].error, None}
             /\ cache'[q].loading => q \in after
             /\ q \in after \ Observed =>
                   /\ cache'[q].loading \/ (HasData(cache[q]) /\ ~cache[q].stale)
                   /\ ~HasData(cache[q]) => cache'[q].error = None
             /\ q \notin after \ Observed /\ q \notin Observed \ after => cache'[q] = cache[q]
             /\ q \in Observed \ after => ~cache'[q].loading
  <2> HIDE DEF after
  <2> DEFINE old == cache[q]
  <2>0. old \in CacheType
    BY <1>0
  <2>1. CASE q \in after \ Observed
    <3> DEFINE e == q \in expired
               new == Appear(old, e)
    <3>1. cache'[q] = new /\ ~old.loading
      BY <1>1, <2>1 DEF NothingLoadsUnseen
    <3>3. /\ Send(old) \in CacheType /\ Send(old).data = old.data /\ Send(old).stale = old.stale
          /\ Send(old).loading
          /\ ~HasData(old) => Send(old).error = None
          /\ HasData(old) => Send(old).error = old.error
      <4> HIDE DEF old
      <4> QED
        BY <2>0, SendFacts DEF CacheType
    <3>4. new \in {old, Send(old)} /\ (new.loading \/ (new = old /\ HasData(old) /\ ~old.stale))
      BY <3>1, <3>3 DEF Appear, Fetch
    <3> HIDE DEF new, old
    <3>5. /\ new \in CacheType /\ new.data = old.data /\ new.stale = old.stale
          /\ new.error \in {old.error, None}
          /\ new.loading \/ (HasData(old) /\ ~old.stale)
          /\ ~HasData(old) => new.error = None
      BY <2>0, <3>1, <3>3, <3>4
    <3> QED
      BY <2>1, <3>1, <3>5 DEF old
  <2>2. CASE q \in Observed \ after
    <3>1. cache'[q] = Abandon(old)
      BY <1>1, <2>2 DEF Leaves
    <3>2. /\ Abandon(old) \in CacheType /\ Abandon(old).data = old.data /\ ~Abandon(old).loading
          /\ Abandon(old).error = old.error /\ Abandon(old).stale = old.stale
      <4> HIDE DEF old
      <4> QED
        BY <2>0, AbandonFacts DEF CacheType
    <3> QED
      BY <2>2, <3>1, <3>2
  <2>3. CASE q \notin after \ Observed /\ q \notin Observed \ after
    <3>1. cache'[q] = cache[q]
      BY <1>1, <2>3
    <3> QED
      BY <2>0, <2>3, <3>1 DEF NothingLoadsUnseen
  <2> QED
    BY <2>1, <2>2, <2>3
<1>4. mounted => ~NotFound(cache')
  <2> SUFFICES ASSUME mounted PROVE cache'["supplier"].error # "not_found"
    BY DEF NotFound
  <2>1. "supplier" \in after \ Observed /\ "supplier" \in OfSupplier
    BY DEF Observed, OnPage, OfSupplier, TypeOK, Routes
  <2>2. CASE HasData(cache["supplier"])
    <3>1. cache["supplier"].error # "not_found"
      BY <2>1, <2>2 DEF SupplierKnown, TypeOK
    <3> QED
      BY <1>0, <1>3, <2>1, <3>1, NoneAssumption DEF Errors
  <2>3. CASE ~HasData(cache["supplier"])
    BY <1>0, <1>3, <2>1, <2>3, NoneAssumption DEF Errors
  <2> QED
    BY <2>2, <2>3
<1>5. r = "supplier" /\ ~mounted => cache'["supplier"] = cache["supplier"]
  <2> SUFFICES ASSUME r = "supplier", route = "supplier"
               PROVE  cache'["supplier"] = cache["supplier"]
    OBVIOUS
  <2>1. "supplier" \in after /\ "supplier" \in Observed
    BY DEF Observed, OnPage
  <2> QED
    BY <1>0, <1>3, <2>1
<1>6. Observed' = after
  <2>1. Observed' = OnPage(r, s, cache')
    BY <1>2 DEF Observed, OnPage, NotFound
  <2>2. CASE mounted
    BY <1>4, <2>1, <2>2 DEF OnPage
  <2>3. CASE ~mounted
    BY <1>5, <2>1, <2>3 DEF OnPage, NotFound
  <2> QED
    BY <2>2, <2>3
<1> HIDE DEF after
<1>7. TypeOK'
  <2>1. cache' \in [Queries -> CacheType]
    BY <1>1, <1>3
  <2>2. read' \in [Queries -> -1 .. MaxVersion]
    BY <1>2, BoundsAssumption DEF TypeOK
  <2> QED
    BY <1>2, <2>1, <2>2 DEF TypeOK, CacheType
<1>8. NothingLoadsUnseen'
  BY <1>3, <1>6 DEF NothingLoadsUnseen
<1>9. DetailShowsOwnPatch' /\ OldIsStale' /\ WithinVersion'
  BY <1>0, <1>2, <1>3 DEF DetailShowsOwnPatch, OldIsStale, WithinVersion, HasData
<1>10. ReadsInFlight'
  <2> SUFFICES ASSUME NEW q \in Queries, read'[q] # -1
               PROVE  cache'[q].loading /\ q \notin OfSupplier /\ NewEnough(q, read[q])'
    BY DEF ReadsInFlight
  <2>1. q \notin Observed \ after /\ read'[q] = read[q]
    BY <1>2
  <2>2. cache[q].loading /\ q \in Observed
    BY <2>1 DEF ReadsInFlight, NothingLoadsUnseen
  <2>3. cache'[q] = cache[q]
    BY <1>3, <2>1, <2>2
  <2> QED
    BY <1>2, <2>1, <2>2, <2>3 DEF ReadsInFlight, NewEnough
<1>11. StaleIsFetched'
  <2> SUFFICES ASSUME NEW q \in OrdersQueries, q \in after, HasData(cache'[q]),
                      ~cache'[q].loading, cache'[q].error = None
               PROVE  ~cache'[q].stale
    BY <1>6 DEF StaleIsFetched
  <2>1. CASE q \in Observed
    <3>1. cache'[q] = cache[q]
      BY <1>0, <1>3, <2>1
    <3> QED
      BY <2>1, <3>1 DEF StaleIsFetched
  <2>2. CASE q \notin Observed
    BY <1>0, <1>3, <2>2
  <2> QED
    BY <2>1, <2>2
<1>12. SupplierKnown'
  <2>1. known' => \A q \in OfSupplier : cache'[q].error # "not_found"
    <3> SUFFICES ASSUME known', NEW q \in OfSupplier PROVE cache'[q].error # "not_found"
      OBVIOUS
    <3>1. CASE known
      BY <1>0, <1>3, <3>1, NoneAssumption DEF SupplierKnown, Errors
    <3>2. CASE ~known
      <4>1. cache[q] = NewQuery
        BY <3>2
      <4> QED
        BY <1>0, <1>3, <4>1, NoneAssumption DEF Errors, NewQuery
    <3> QED
      BY <3>1, <3>2
  <2>2. ~known' => \A q \in OfSupplier : ~HasData(cache'[q])
    <3> SUFFICES ASSUME ~known', NEW q \in OfSupplier PROVE ~HasData(cache[q])
      BY <1>0, <1>3 DEF HasData
    <3>1. ~HasData(NewQuery)
      BY DEF NewQuery, HasData
    <3> QED
      BY <3>1 DEF SupplierKnown
  <2>3. NotFound(cache') => ~cache'["supplier"].loading
    <3>1. CASE mounted
      BY <1>4, <3>1
    <3>2. CASE ~mounted /\ r = "supplier"
      BY <1>5, <3>2 DEF NotFound, SupplierKnown
    <3>3. CASE r # "supplier"
      <4>1. "supplier" \notin after
        BY <3>3 DEF after, OnPage, Routes
      <4> QED
        BY <1>0, <1>3, <4>1
    <3> QED
      BY <3>1, <3>2, <3>3
  <2>4. NotFound(cache') /\ r = "supplier" => ~s
    BY <1>4, <1>5 DEF NotFound
  <2>5. NotFound(cache)' <=> NotFound(cache')
    BY DEF NotFound
  <2> QED
    BY <1>2, <2>1, <2>2, <2>3, <2>4, <2>5 DEF SupplierKnown
<1> QED
  BY <1>7, <1>8, <1>9, <1>10, <1>11, <1>12
(* Navigation mounts and unmounts queries and aborts what nobody observes. *)
LEMMA MovesInv ==
    ASSUME CacheInv, Navigate \/ OpenOrder \/ CloseOrder
    PROVE  CacheInv'
<1> USE DEF CacheInv
<1>0. moves < MaxMoves /\ moves' = moves + 1 => moves' \in 0 .. MaxMoves
  BY BoundsAssumption DEF TypeOK
<1>1. CASE Navigate
  <2>1. PICK r \in Routes \ {route} :
           /\ Move(r, FALSE)
           /\ IF r = "supplier" /\ \A q \in OfSupplier \cup {"recent"} : cache[q] = NewQuery
              THEN known' \in BOOLEAN ELSE UNCHANGED known
    BY <1>1 DEF Navigate
  <2>2. /\ known' \in BOOLEAN /\ toast' \in BOOLEAN /\ moves' \in 0 .. MaxMoves
        /\ known' = known \/ (r = "supplier" /\ route # "supplier"
                                /\ \A q \in OfSupplier : cache[q] = NewQuery)
    BY <1>0, <1>1, <2>1 DEF Navigate, TypeOK
  <2> QED
    BY <2>1, <2>2, MoveInv
<1>2. CASE OpenOrder
  <2>1. /\ Move(route, TRUE) /\ UNCHANGED <<toast, known>> /\ route \in Routes
        /\ toast \in BOOLEAN /\ known \in BOOLEAN /\ moves' \in 0 .. MaxMoves
    BY <1>0, <1>2 DEF OpenOrder, TypeOK
  <2>2. route = "supplier" => ~NotFound(cache)
    BY <1>2 DEF OpenOrder, Observed, OnPage
  <2> QED
    BY <2>1, <2>2, MoveInv
<1>3. CASE CloseOrder
  <2>1. /\ Move(route, FALSE) /\ UNCHANGED <<toast, known>> /\ route \in Routes
        /\ toast \in BOOLEAN /\ known \in BOOLEAN /\ moves' \in 0 .. MaxMoves
    BY <1>3 DEF CloseOrder, TypeOK
  <2> QED
    BY <2>1, MoveInv
<1> QED
  BY <1>1, <1>2, <1>3

(* Steps that change no query, and owe nobody anything new.                *)
LEMMA QueriesAlone ==
    ASSUME CacheInv, TypeOK', UNCHANGED <<route, sheet, cache, read, known, history>>,
           version' >= version,
           \A p \in Patches : result'[p] <= version', jobResult' <= version'
    PROVE  CacheInv'
<1> USE DEF CacheInv
<1>1. Observed' = Observed
  BY DEF Observed
<1>2. NothingLoadsUnseen' /\ DetailShowsOwnPatch' /\ ReadsInFlight' /\ OldIsStale'
  BY <1>1 DEF NothingLoadsUnseen, DetailShowsOwnPatch, ReadsInFlight, NewEnough, OldIsStale, history
<1>3. StaleIsFetched' /\ SupplierKnown'
  BY <1>1 DEF StaleIsFetched, SupplierKnown, NotFound
<1>4. WithinVersion'
  BY DEF WithinVersion, TypeOK, history
<1> QED
  BY <1>2, <1>3, <1>4

(* A write of the database, or a patch on its way, leaves the cache alone. *)
LEMMA WritesInv ==
    ASSUME CacheInv,
           JobEnds \/ OtherWrite
             \/ \E p \in Patches : SendPatch(p) \/ PatchApplied(p) \/ PatchFails(p)
    PROVE  CacheInv'
<1> USE DEF CacheInv
<1>1. CASE JobEnds \/ OtherWrite
  BY <1>1, QueriesAlone, BoundsAssumption DEF JobEnds, OtherWrite, page, history, TypeOK, WithinVersion
<1>2. ASSUME NEW p \in Patches, SendPatch(p) \/ PatchFails(p) PROVE CacheInv'
  <2>1. /\ UNCHANGED <<route, sheet, toast, moves, cache, read, server, job, history>>
        /\ patch' \in [Patches -> {"idle", "sent", "applied", "done"}]
        /\ patching' \in Patches \cup {None}
    BY <1>2 DEF SendPatch, PatchFails, StopsWaiting, TypeOK
  <2>2. TypeOK'
    BY <2>1 DEF TypeOK, server, history
  <2> QED
    BY <2>1, <2>2, QueriesAlone DEF server, TypeOK, WithinVersion
<1>3. ASSUME NEW p \in Patches, PatchApplied(p) PROVE CacheInv'
  <2>1. /\ version' = version + 1 /\ version' \in 0 .. MaxVersion
        /\ result' = [result EXCEPT ![p] = version + 1]
        /\ UNCHANGED <<page, cache, read, known, jobResult, failures, job, history>>
        /\ patch' = [patch EXCEPT ![p] = "applied"]
    BY <1>3, BoundsAssumption DEF PatchApplied, TypeOK
  <2>2. TypeOK'
    BY <2>1 DEF TypeOK, page, history
  <2>3. \A x \in Patches : result'[x] <= version'
    BY <2>1 DEF TypeOK, WithinVersion
  <2> QED
    BY <2>1, <2>2, <2>3, QueriesAlone DEF page, WithinVersion, TypeOK
<1> QED
  BY <1>1, <1>2, <1>3

(* The database answers with the version it has.                           *)
LEMMA ReadInv ==
    ASSUME CacheInv, NEW q \in Queries, Read(q)
    PROVE  CacheInv'
<1> USE DEF CacheInv
<1>1. Observed' = Observed
  BY DEF Observed, Read, page
<1>2. TypeOK'
  BY DEF Read, page, server, history, TypeOK
<1>3. NothingLoadsUnseen' /\ DetailShowsOwnPatch' /\ OldIsStale' /\ WithinVersion'
  BY <1>1 DEF NothingLoadsUnseen, DetailShowsOwnPatch, OldIsStale, WithinVersion, Read, server, history
<1>4. StaleIsFetched' /\ SupplierKnown'
  BY <1>1 DEF StaleIsFetched, SupplierKnown, NotFound, Read, page, server
<1>5. ReadsInFlight'
  BY DEF ReadsInFlight, NewEnough, Read, TypeOK, WithinVersion, history
<1> QED
  BY <1>2, <1>3, <1>4, <1>5

(* One query's fetch is answered: it has data, as new as what is owed      *)
(* unless this was the late request.                                       *)
LEMMA AnswerInv ==
    ASSUME CacheInv, NEW q \in Queries, Answer(q) \/ AnswerSupplier(q)
    PROVE  CacheInv'
<1> USE DEF CacheInv
<1>0. cache \in [Queries -> CacheType] /\ OrdersQueries \cap OfSupplier = {}
      /\ "order" \notin OfSupplier /\ "supplier" \in OfSupplier /\ OfSupplier \subseteq Queries
      /\ OrdersQueries \subseteq Queries /\ "order" \in Queries
  BY DEF TypeOK, CacheType, OrdersQueries, OfSupplier, Queries
<1>1. PICK d \in 0 .. MaxVersion :
         /\ cache' = [cache EXCEPT ![q] = Succeed(cache[q], d)]
         /\ q \notin OfSupplier => NewEnough(q, d)
         /\ q \in OfSupplier => known
  <2>1. CASE Answer(q)
    <3>1. /\ read[q] \in 0 .. MaxVersion /\ cache' = [cache EXCEPT ![q] = Succeed(cache[q], read[q])]
          /\ NewEnough(q, read[q]) /\ q \notin OfSupplier
      BY <2>1, BoundsAssumption DEF Answer, ReadsInFlight, TypeOK
    <3> QED
      BY <3>1
  <2>2. CASE AnswerSupplier(q)
    <3>1. /\ 0 \in 0 .. MaxVersion /\ cache' = [cache EXCEPT ![q] = Succeed(cache[q], 0)]
          /\ q \in OfSupplier /\ known
      BY <2>2, BoundsAssumption DEF AnswerSupplier
    <3> QED
      BY <3>1
  <2> QED
    BY <2>1, <2>2
<1> DEFINE n == Succeed(cache[q], d)
<1>2. n \in CacheType /\ n.data = d /\ ~n.loading /\ n.error = None /\ ~n.stale
  BY DEF Succeed, CacheType, QueryType
<1> HIDE DEF n
<1>3. cache' = [cache EXCEPT ![q] = n]
  BY <1>1 DEF n
<1>4. /\ UNCHANGED <<page, server, patch, job, owed>>
      /\ late' \in {"none", "pending", "answered"}
      /\ q # "order" => late' = late
      /\ q = "order" => late' = IF late = "pending" THEN "answered" ELSE "none"
      /\ cache[q].loading /\ read' \in {read, [read EXCEPT ![q] = -1]}
      /\ q \notin OfSupplier => read'[q] = -1
      /\ q \in OfSupplier => read[q] = -1
  BY <1>0 DEF Answer, AnswerSupplier, TypeOK, ReadsInFlight, history
<1>5. NotFound(cache') <=> NotFound(cache)
  <2>1. CASE q = "supplier"
    <3>1. ~NotFound(cache)
      BY <1>0, <1>1, <2>1 DEF SupplierKnown, NotFound
    <3> QED
      BY <1>0, <1>2, <1>3, <2>1, <3>1, NoneAssumption DEF NotFound, Errors
  <2>2. CASE q # "supplier"
    BY <1>0, <1>3, <2>2 DEF NotFound
  <2> QED
    BY <2>1, <2>2
<1>6. Observed' = Observed
  BY <1>4, <1>5 DEF Observed, OnPage, NotFound, page
<1>7. TypeOK'
  <2>1. cache' \in [Queries -> CacheType]
    BY <1>0, <1>2, <1>3
  <2>2. read' \in [Queries -> -1 .. MaxVersion]
    <3>1. read \in [Queries -> -1 .. MaxVersion] /\ -1 \in -1 .. MaxVersion
      BY BoundsAssumption DEF TypeOK
    <3> QED
      BY <1>4, <3>1
  <2> QED
    BY <1>4, <2>1, <2>2 DEF TypeOK, CacheType, page, server
<1>8. NothingLoadsUnseen'
  BY <1>0, <1>2, <1>3, <1>6 DEF NothingLoadsUnseen
<1>9. OldIsStale' /\ WithinVersion'
  <2>1. "order" \notin OrdersQueries
    BY DEF OrdersQueries
  <2> QED
    BY <1>0, <1>1, <1>2, <1>3, <1>4, <2>1 DEF NewEnough, OldIsStale, WithinVersion, HasData, server
<1>a. DetailShowsOwnPatch'
  <2>1. CASE q = "order"
    BY <1>0, <1>1, <1>2, <1>3, <1>4, <2>1 DEF NewEnough, DetailShowsOwnPatch
  <2>2. CASE q # "order"
    BY <1>0, <1>3, <1>4, <2>2 DEF DetailShowsOwnPatch, HasData
  <2> QED
    BY <2>1, <2>2
<1>10. ReadsInFlight'
  <2> SUFFICES ASSUME NEW x \in Queries, read'[x] # -1
               PROVE  cache'[x].loading /\ x \notin OfSupplier /\ NewEnough(x, read[x])'
    BY DEF ReadsInFlight
  <2>1. x # q /\ read'[x] = read[x] /\ cache'[x] = cache[x]
    BY <1>0, <1>3, <1>4 DEF TypeOK
  <2> QED
    BY <1>4, <2>1 DEF ReadsInFlight, NewEnough
<1>11. StaleIsFetched'
  BY <1>0, <1>2, <1>3, <1>6 DEF StaleIsFetched
<1>12. SupplierKnown'
  <2>1. NotFound(cache)' <=> NotFound(cache)
    BY <1>5 DEF NotFound
  <2> QED
    BY <1>0, <1>1, <1>2, <1>3, <1>4, <2>1, NoneAssumption
       DEF SupplierKnown, HasData, Errors, page, server
<1> QED
  BY <1>7, <1>8, <1>9, <1>a, <1>10, <1>11, <1>12

(* A failed request is tried again or gives up; old data stays.            *)
LEMMA FailsInv ==
    ASSUME CacheInv, NEW q \in Queries, RequestFails(q)
    PROVE  CacheInv'
<1> USE DEF CacheInv
<1>0. cache \in [Queries -> CacheType] /\ OfSupplier \subseteq Queries /\ OrdersQueries \subseteq Queries
      /\ "supplier" \in OfSupplier /\ "order" \in Queries
  BY DEF TypeOK, CacheType, OrdersQueries, OfSupplier, Queries
<1> DEFINE old == cache[q]
           n == Fail(old, "failed", TRUE)
<1>1. old \in CacheType /\ old.loading
  BY <1>0 DEF RequestFails
<1>2. /\ n \in CacheType /\ n.data = old.data
      /\ n.loading => n.error = old.error /\ n.stale = old.stale
      /\ ~n.loading => n.error = "failed"
      /\ ~n.stale => ~old.stale \/ ~HasData(old)
  <2> HIDE DEF old
  <2> QED
    BY <1>1 DEF Fail, MayRetry, CacheType, QueryType, HasData, Errors
<1>3. /\ cache' = [cache EXCEPT ![q] = n] /\ read' = [read EXCEPT ![q] = -1]
      /\ UNCHANGED <<page, version, known, result, jobResult, patch, job, owed>>
      /\ failures' \in 0 .. MaxFailures
      /\ late' \in {"none", "pending", "answered"} /\ (late' = "answered" <=> late = "answered")
      /\ q # "order" => late' = late
  BY BoundsAssumption DEF RequestFails, NotLate, TypeOK
<1> HIDE DEF n, old
<1>4. /\ cache'[q] = n /\ \A x \in Queries \ {q} : cache'[x] = cache[x]
      /\ old = cache[q] /\ n.error \in {old.error, "failed"}
  BY <1>0, <1>2, <1>3 DEF old
<1>5. NotFound(cache') <=> NotFound(cache)
  <2>1. CASE q = "supplier"
    <3>1. ~NotFound(cache)
      BY <1>1, <1>4, <2>1 DEF SupplierKnown
    <3> QED
      BY <1>4, <2>1, <3>1 DEF NotFound
  <2>2. CASE q # "supplier"
    BY <1>0, <1>4, <2>2 DEF NotFound
  <2> QED
    BY <2>1, <2>2
<1>6. Observed' = Observed
  BY <1>3, <1>5 DEF Observed, OnPage, NotFound, page
<1>7. TypeOK'
  <2>1. cache' \in [Queries -> CacheType] /\ read' \in [Queries -> -1 .. MaxVersion]
    BY <1>0, <1>2, <1>3, BoundsAssumption DEF TypeOK
  <2> QED
    BY <1>3, <2>1 DEF TypeOK, CacheType, page
<1>8. NothingLoadsUnseen'
  BY <1>1, <1>4, <1>6 DEF NothingLoadsUnseen
<1>9. DetailShowsOwnPatch' /\ OldIsStale' /\ WithinVersion'
  BY <1>0, <1>2, <1>3, <1>4 DEF DetailShowsOwnPatch, OldIsStale, WithinVersion, HasData
<1>10. ReadsInFlight'
  BY <1>3, <1>4 DEF ReadsInFlight, NewEnough, TypeOK
<1>11. StaleIsFetched'
  <2>1. "failed" # None
    BY NoneAssumption DEF Errors
  <2> QED
    BY <1>0, <1>2, <1>4, <1>6, <2>1 DEF StaleIsFetched
<1>12. SupplierKnown'
  <2>1. NotFound(cache)' <=> NotFound(cache)
    BY <1>5 DEF NotFound
  <2>2. \A x \in OfSupplier : /\ HasData(cache'[x]) <=> HasData(cache[x])
                              /\ cache'[x].error \in {cache[x].error, "failed"}
    BY <1>0, <1>2, <1>4 DEF HasData
  <2>3. NotFound(cache) => ~cache'["supplier"].loading
    BY <1>0, <1>1, <1>4 DEF SupplierKnown
  <2> QED
    BY <1>3, <2>1, <2>2, <2>3 DEF SupplierKnown, page
<1> QED
  BY <1>7, <1>8, <1>9, <1>10, <1>11, <1>12
(* The 404 of a supplier or of its performance.                            *)
LEMMA MissingInv ==
    ASSUME CacheInv, NEW q \in Queries, AnswerMissing(q)
    PROVE  CacheInv'
<1> USE DEF CacheInv
<1>0. /\ cache \in [Queries -> CacheType] /\ OrdersQueries \subseteq Queries
      /\ Queries = {"list", "stats", "recent", "supplier", "performance", "order"}
      /\ OfSupplier = {"supplier", "performance"} /\ OrdersQueries = {"list", "stats", "recent"}
  BY DEF TypeOK, CacheType, OrdersQueries, OfSupplier, Queries
<1>1. cache[q].loading /\ q \in OfSupplier /\ ~known /\ ~HasData(cache[q]) /\ q \in Observed
  BY DEF AnswerMissing, SupplierKnown, NothingLoadsUnseen
<1>2. route = "supplier" /\ ~NotFound(cache)
  <2>1. route = "supplier"
    BY <1>0, <1>1 DEF Observed, OnPage, TypeOK, Routes
  <2>2. NotFound(cache) => q = "supplier"
    BY <1>1, <2>1 DEF Observed, OnPage
  <2> QED
    BY <1>1, <2>1, <2>2 DEF SupplierKnown
<1> DEFINE old == cache[q]
           n == Fail(old, "not_found", FALSE)
<1>3. /\ n \in CacheType /\ n.data = old.data /\ ~n.loading /\ n.error = "not_found"
  <2>1. old \in CacheType
    BY <1>0
  <2> HIDE DEF old
  <2> QED
    BY <2>1 DEF Fail, CacheType, QueryType, HasData, Errors
<1> DEFINE failed == [cache EXCEPT ![q] = n]
           left == OnPage(route, sheet, failed)
           gone == Observed \ left
<1>4. /\ cache' = [x \in Queries |-> IF x \in gone THEN Leaves(failed[x]) ELSE failed[x]]
      /\ read' = [x \in Queries |-> IF x \in gone THEN -1 ELSE read[x]]
      /\ sheet' = (sheet /\ ~NotFound(failed))
      /\ patching' = IF NotFound(failed) THEN None ELSE patching
      /\ late' \in {"none", "pending", "answered"} /\ (late' = "answered" <=> late = "answered")
      /\ "order" \notin gone => late' = late
      /\ UNCHANGED <<route, toast, moves, server, patch, job, owed>>
  BY DEF AnswerMissing, NotLate, TypeOK
<1> HIDE DEF n
<1>5. /\ failed[q] = n /\ \A x \in Queries \ {q} : failed[x] = cache[x]
      /\ \A x \in Queries : failed[x] \in CacheType
  BY <1>0, <1>3
<1>6. NotFound(failed) <=> q = "supplier"
  BY <1>0, <1>2, <1>3, <1>5 DEF NotFound
<1> HIDE DEF failed
<1>7. /\ "supplier" \in left /\ left \subseteq Observed
      /\ q # "supplier" => left = Observed
      /\ q = "supplier" => left = {"supplier"}
  BY <1>2, <1>6 DEF Observed, OnPage
<1>8. ASSUME NEW x \in Queries
      PROVE  /\ cache'[x] \in CacheType
             /\ cache'[x].data = cache[x].data
             /\ x # q => cache'[x].error = cache[x].error /\ cache'[x].stale = cache[x].stale
             /\ cache'[x].loading => x # q /\ x \in left /\ cache[x].loading
             /\ x \in left => cache'[x] = failed[x] /\ read'[x] = read[x]
             /\ x \notin left /\ x \in Observed => read'[x] = -1
  <2> DEFINE f == failed[x]
  <2>1. /\ f \in CacheType /\ f.data = cache[x].data /\ (x # q => f = cache[x])
        /\ f.loading => x # q
    BY <1>3, <1>5
  <2>2. /\ Abandon(f) \in CacheType /\ Abandon(f).data = f.data /\ ~Abandon(f).loading
        /\ Abandon(f).error = f.error /\ Abandon(f).stale = f.stale
    <3> HIDE DEF f
    <3> QED
      BY <2>1, AbandonFacts DEF CacheType
  <2>3. cache'[x] = IF x \in gone THEN Abandon(f) ELSE f
    BY <1>4 DEF Leaves
  <2> HIDE DEF f, left
  <2>4. f = failed[x]
    BY DEF f
  <2>5. cache[x].loading => x \in Observed
    BY DEF NothingLoadsUnseen
  <2>6. CASE x \in gone
    BY <1>4, <2>1, <2>2, <2>3, <2>4, <2>6
  <2>7. CASE x \notin gone
    <3>1. cache'[x] = f
      BY <2>3, <2>7
    <3> QED
      BY <1>4, <2>1, <3>1, <2>4, <2>5, <2>7
  <2> QED
    BY <2>6, <2>7
<1>9. NotFound(cache') <=> q = "supplier"
  <2>1. cache'["supplier"] = failed["supplier"]
    BY <1>0, <1>7, <1>8
  <2> QED
    BY <1>6, <2>1 DEF NotFound
<1>10. Observed' = left
  <2>1. NotFound(cache)' <=> NotFound(cache')
    BY DEF NotFound
  <2>2. Observed' = OnPage(route, sheet', cache')
    BY <1>4 DEF Observed, OnPage, NotFound
  <2>3. CASE q = "supplier"
    BY <1>2, <1>7, <1>9, <2>2, <2>3 DEF OnPage
  <2>4. CASE q # "supplier"
    <3>1. sheet' = sheet
      BY <1>4, <1>6, <2>4 DEF TypeOK
    <3> QED
      BY <1>2, <1>6, <1>9, <2>2, <2>4, <3>1 DEF OnPage
  <2> QED
    BY <2>3, <2>4
<1> HIDE DEF left
<1>11. TypeOK'
  <2>1. cache' \in [Queries -> CacheType]
    BY <1>4, <1>8
  <2>2. read' \in [Queries -> -1 .. MaxVersion]
    <3>1. read \in [Queries -> -1 .. MaxVersion] /\ -1 \in -1 .. MaxVersion
      BY BoundsAssumption DEF TypeOK
    <3> QED
      BY <1>4, <3>1
  <2>3. sheet' \in BOOLEAN /\ patching' \in Patches \cup {None}
    BY <1>4 DEF TypeOK
  <2> QED
    BY <1>4, <2>1, <2>2, <2>3 DEF TypeOK, CacheType, server
<1>12. NothingLoadsUnseen'
  BY <1>8, <1>10 DEF NothingLoadsUnseen
<1>13. \A x \in OrdersQueries \cup {"order"} : x \in Queries /\ x # q /\ x \notin OfSupplier
  BY <1>0, <1>1
<1>14. DetailShowsOwnPatch' /\ OldIsStale' /\ WithinVersion'
  BY <1>4, <1>8, <1>13 DEF DetailShowsOwnPatch, OldIsStale, WithinVersion, HasData, server
<1>15. ReadsInFlight'
  <2> SUFFICES ASSUME NEW x \in Queries, read'[x] # -1
               PROVE  cache'[x].loading /\ x \notin OfSupplier /\ NewEnough(x, read[x])'
    BY DEF ReadsInFlight
  <2>1. read'[x] = read[x]
    BY <1>4
  <2>2. cache[x].loading /\ x \in Observed /\ x \notin OfSupplier /\ NewEnough(x, read[x])
    BY <2>1 DEF ReadsInFlight, NothingLoadsUnseen
  <2>3. x \in left /\ x # q
    BY <1>1, <1>8, <2>2
  <2> QED
    BY <1>4, <1>5, <1>8, <2>1, <2>2, <2>3 DEF NewEnough
<1>16. StaleIsFetched'
  <2> SUFFICES ASSUME NEW x \in OrdersQueries, x \in left, HasData(cache'[x]),
                      ~cache'[x].loading, cache'[x].error = None
               PROVE  ~cache'[x].stale
    BY <1>10 DEF StaleIsFetched
  <2>1. cache'[x] = cache[x] /\ x \in Observed
    BY <1>5, <1>7, <1>8, <1>13
  <2> QED
    BY <2>1 DEF StaleIsFetched
<1>17. SupplierKnown'
  <2>1. NotFound(cache)' <=> q = "supplier"
    BY <1>9 DEF NotFound
  <2>2. known' = known /\ \A x \in OfSupplier : ~HasData(cache'[x])
    BY <1>0, <1>1, <1>4, <1>8 DEF SupplierKnown, HasData, server
  <2>3. q = "supplier" => ~cache'["supplier"].loading /\ ~sheet'
    BY <1>4, <1>6, <1>8
  <2> QED
    BY <1>1, <2>1, <2>2, <2>3 DEF SupplierKnown
<1> QED
  BY <1>11, <1>12, <1>14, <1>15, <1>16, <1>17

(* The invalidation after a write: what the page shows is fetched again,   *)
(* the rest is stale; only a first load may still answer with less.        *)
LEMMA InvalidateInv ==
    ASSUME CacheInv, NEW c \in [Queries -> CacheType], InvalidateOrders(c),
           \A q \in Queries \ {"order"} : c[q] = cache[q],
           c["order"].loading = cache["order"].loading,
           owed' \in [Queries -> 0 .. version],
           \A q \in OrdersQueries : owed'[q] = owed[q] \/ ~FirstLoad(q),
           HasData(c["order"]) /\ late' # "answered" => c["order"].data >= owed'["order"],
           late' \in {"none", "pending", "answered"},
           read["order"] # -1 => read["order"] >= owed'["order"] \/ late' = "pending",
           UNCHANGED <<route, sheet, server, moves>>,
           patch' \in [Patches -> {"idle", "sent", "applied", "done"}],
           patching' \in Patches \cup {None}, toast' \in BOOLEAN,
           job' \in {"none", "running", "ended", "reported"}
    PROVE  CacheInv'
<1> USE DEF CacheInv
<1>0. /\ cache \in [Queries -> CacheType]
      /\ Queries = {"list", "stats", "recent", "supplier", "performance", "order"}
      /\ OfSupplier = {"supplier", "performance"} /\ OrdersQueries = {"list", "stats", "recent"}
  BY DEF TypeOK, CacheType, OrdersQueries, OfSupplier, Queries
<1>1. ASSUME NEW q \in OrdersQueries
      PROVE  /\ cache'[q] \in CacheType
             /\ HasData(cache'[q]) => cache'[q].stale
             /\ q \in Observed => cache'[q].loading
             /\ q \notin Observed => ~cache'[q].loading
             /\ read'[q] = IF q \in Observed /\ Restarts(cache[q]) THEN -1 ELSE read[q]
  <2> DEFINE old == cache[q]
             shown == q \in Observed
             new == Invalidate(old, shown)
  <2>1. cache'[q] = new /\ old \in CacheType /\ (old.loading => shown)
        /\ read'[q] = IF q \in Observed /\ Restarts(cache[q]) THEN -1 ELSE read[q]
    BY <1>0 DEF InvalidateOrders, IsAbout, NothingLoadsUnseen
  <2>2. /\ new \in CacheType /\ new.data = old.data /\ new.stale = HasData(old)
        /\ shown => new.loading
        /\ ~shown => new.loading = old.loading
    <3>1. shown \in BOOLEAN
      OBVIOUS
    <3> HIDE DEF old, shown
    <3> QED
      BY <2>1, <3>1, InvalidateFacts DEF CacheType
  <2> HIDE DEF new, old
  <2> QED
    BY <2>1, <2>2 DEF HasData
<1>2. /\ \A q \in OfSupplier : cache'[q] = cache[q] /\ read'[q] = read[q]
      /\ cache'["order"] = c["order"] /\ read'["order"] = read["order"]
  BY <1>0 DEF InvalidateOrders, IsAbout
<1>3. Observed' = Observed /\ (NotFound(cache)' <=> NotFound(cache))
  BY <1>0, <1>2 DEF Observed, OnPage, NotFound
<1>4. TypeOK'
  <2>1. cache' \in [Queries -> CacheType]
    <3>1. DOMAIN cache' = Queries /\ cache' = [q \in Queries |-> cache'[q]]
      BY DEF InvalidateOrders
    <3>2. \A q \in Queries : cache'[q] \in CacheType
      BY <1>0, <1>1, <1>2
    <3> QED
      BY <3>1, <3>2
  <2>2. read' \in [Queries -> -1 .. MaxVersion]
    <3>1. read \in [Queries -> -1 .. MaxVersion] /\ -1 \in -1 .. MaxVersion
      BY BoundsAssumption DEF TypeOK
    <3> QED
      BY <3>1 DEF InvalidateOrders
  <2>3. owed' \in [Queries -> 0 .. MaxVersion]
    BY BoundsAssumption DEF TypeOK
  <2> QED
    BY <2>1, <2>2, <2>3 DEF TypeOK, CacheType, server
<1>5. NothingLoadsUnseen'
  <2> SUFFICES ASSUME NEW q \in Queries, cache'[q].loading PROVE q \in Observed
    BY <1>3 DEF NothingLoadsUnseen
  <2> QED
    BY <1>0, <1>1, <1>2 DEF NothingLoadsUnseen
<1>6. DetailShowsOwnPatch' /\ OldIsStale' /\ StaleIsFetched'
  BY <1>1, <1>2, <1>3 DEF DetailShowsOwnPatch, OldIsStale, StaleIsFetched
<1>7. WithinVersion'
  BY DEF WithinVersion, server
<1>8. ReadsInFlight'
  <2> SUFFICES ASSUME NEW q \in Queries, read'[q] # -1
               PROVE  cache'[q].loading /\ q \notin OfSupplier /\ NewEnough(q, read[q])'
    BY DEF ReadsInFlight
  <2>1. CASE q \in OrdersQueries
    <3>1. read'[q] = read[q] /\ (q \in Observed => ~Restarts(cache[q]))
      BY <1>1, <2>1
    <3>2. cache[q].loading /\ q \in Observed /\ read[q] >= owed[q] /\ q \notin OfSupplier
      BY <1>0, <2>1, <3>1 DEF ReadsInFlight, NewEnough, NothingLoadsUnseen
    <3>3. FirstLoad(q)
      BY <3>1, <3>2 DEF Restarts, FirstLoad
    <3> QED
      BY <1>1, <2>1, <3>1, <3>2, <3>3 DEF NewEnough
  <2>2. CASE q \in OfSupplier
    BY <1>2, <2>2 DEF ReadsInFlight
  <2>3. CASE q = "order"
    BY <1>0, <1>2, <2>3 DEF ReadsInFlight, NewEnough
  <2> QED
    BY <1>0, <2>1, <2>2, <2>3
<1>9. SupplierKnown'
  BY <1>0, <1>2, <1>3 DEF SupplierKnown, server
<1> QED
  BY <1>4, <1>5, <1>6, <1>7, <1>8, <1>9

(* Invalidating owes every loaded list the acknowledged version.           *)
LEMMA AcknowledgedFacts ==
    ASSUME CacheInv, NEW v \in 0 .. version
    PROVE  /\ Acknowledged(v) \in [Queries -> 0 .. version]
           /\ \A q \in OrdersQueries : Acknowledged(v)[q] = owed[q] \/ ~FirstLoad(q)
           /\ Acknowledged(v)["order"] = owed["order"]
<1>1. OrdersQueries \subseteq Queries /\ "order" \in Queries /\ "order" \notin OrdersQueries
  BY DEF OrdersQueries, OfSupplier, Queries
<1>2. \A q \in Queries : owed[q] \in 0 .. version
  BY DEF CacheInv, TypeOK, WithinVersion
<1> QED
  BY <1>1, <1>2 DEF Acknowledged

(* A job is submitted, or its end is reported and the lists invalidated.   *)
LEMMA JobInv ==
    ASSUME CacheInv, SubmitJob \/ JobReported
    PROVE  CacheInv'
<1> USE DEF CacheInv
<1>0. /\ cache \in [Queries -> CacheType] /\ "order" \in Queries
      /\ jobResult \in 0 .. version
      /\ HasData(cache["order"]) /\ late # "answered" => cache["order"].data >= owed["order"]
      /\ read["order"] # -1 => read["order"] >= owed["order"] \/ late = "pending"
      /\ late \in {"none", "pending", "answered"}
  BY DEF TypeOK, CacheType, Queries, WithinVersion, DetailShowsOwnPatch, ReadsInFlight, NewEnough
<1>1. CASE SubmitJob
  <2>1. /\ InvalidateOrders(cache) /\ owed' = owed
        /\ UNCHANGED <<route, sheet, server, moves, late>>
        /\ patch' \in [Patches -> {"idle", "sent", "applied", "done"}]
        /\ patching' \in Patches \cup {None} /\ toast' \in BOOLEAN
        /\ job' \in {"none", "running", "ended", "reported"}
    BY <1>1 DEF SubmitJob, TypeOK, history
  <2>2. owed \in [Queries -> 0 .. version]
    BY DEF TypeOK, WithinVersion
  <2> QED
    BY <1>0, <2>1, <2>2, InvalidateInv
<1>2. CASE JobReported
  <2>1. /\ InvalidateOrders(cache) /\ owed' = Acknowledged(jobResult)
        /\ UNCHANGED <<route, sheet, server, moves, late>>
        /\ patch' \in [Patches -> {"idle", "sent", "applied", "done"}]
        /\ patching' \in Patches \cup {None} /\ toast' \in BOOLEAN
        /\ job' \in {"none", "running", "ended", "reported"}
    BY <1>2 DEF JobReported, page, TypeOK
  <2> QED
    BY <1>0, <2>1, AcknowledgedFacts, InvalidateInv
<1> QED
  BY <1>1, <1>2

(* The patch's answer is put into the sheet and the lists are invalidated. *)
LEMMA PatchAnsweredInv ==
    ASSUME CacheInv, NEW p \in Patches, PatchAnswered(p)
    PROVE  CacheInv'
<1> USE DEF CacheInv
<1>0. /\ cache \in [Queries -> CacheType] /\ "order" \in Queries
      /\ result[p] \in 0 .. version /\ result[p] \in 0 .. MaxVersion
  BY DEF TypeOK, CacheType, Queries, WithinVersion
<1> DEFINE old == cache["order"]
           d == result[p]
           n == SetData(old, d)
           c == [cache EXCEPT !["order"] = n]
<1>1. n \in CacheType /\ n.data = d /\ n.loading = old.loading
  <2>1. old \in CacheType /\ d \in 0 .. MaxVersion
    BY <1>0
  <2> HIDE DEF old, d
  <2> QED
    BY <2>1 DEF SetData, CacheType, QueryType
<1>2. /\ InvalidateOrders(c) /\ owed' = [Acknowledged(d) EXCEPT !["order"] = d]
      /\ late' = IF cache["order"].loading THEN "pending" ELSE "none"
      /\ UNCHANGED <<route, sheet, server, moves, toast, job>>
      /\ patch' \in [Patches -> {"idle", "sent", "applied", "done"}]
      /\ patching' \in Patches \cup {None} /\ toast' \in BOOLEAN
      /\ job' \in {"none", "running", "ended", "reported"}
  BY DEF PatchAnswered, Detail, StopsWaiting, TypeOK
<1> HIDE DEF n
<1>3. /\ c \in [Queries -> CacheType] /\ c["order"] = n
      /\ \A q \in Queries \ {"order"} : c[q] = cache[q]
  BY <1>0, <1>1
<1> HIDE DEF c
<1>5. /\ owed' \in [Queries -> 0 .. version] /\ owed'["order"] = d
      /\ \A q \in OrdersQueries : owed'[q] = owed[q] \/ ~FirstLoad(q)
  <2>1. /\ Acknowledged(d) \in [Queries -> 0 .. version]
        /\ \A q \in OrdersQueries : Acknowledged(d)[q] = owed[q] \/ ~FirstLoad(q)
    BY <1>0, AcknowledgedFacts
  <2>2. OrdersQueries \subseteq Queries /\ "order" \notin OrdersQueries
    BY DEF OrdersQueries, OfSupplier, Queries
  <2> QED
    BY <1>0, <1>2, <2>1, <2>2
<1>6. read["order"] # -1 => late' = "pending"
  BY <1>0, <1>2 DEF ReadsInFlight
<1>7. c["order"].data >= owed'["order"]
  BY <1>0, <1>1, <1>3, <1>5
<1>8. late' \in {"none", "pending", "answered"}
  BY <1>2
<1> QED
  BY <1>1, <1>2, <1>3, <1>5, <1>6, <1>7, <1>8, InvalidateInv

(* Every step keeps the invariant.                                         *)
LEMMA CacheStepInv == CacheInv /\ [Next]_vars => CacheInv'
<1> SUFFICES ASSUME CacheInv, [Next]_vars PROVE CacheInv'
  OBVIOUS
<1>1. ASSUME NEW q \in Queries, Fetching(q) PROVE CacheInv'
  BY <1>1, ReadInv, AnswerInv, MissingInv, FailsInv DEF Fetching
<1>2. ASSUME NEW p \in Patches, PatchAnswered(p) PROVE CacheInv'
  BY <1>2, PatchAnsweredInv
<1>3. CASE UNCHANGED vars
  BY <1>3, QueriesAlone DEF vars, history, CacheInv, TypeOK, WithinVersion
<1> QED
  BY <1>1, <1>2, <1>3, MovesInv, WritesInv, JobInv DEF Next

(* The inductive invariant: besides the properties, that a read is as new  *)
(* as what is owed unless it is the late request's, that older data is marked stale, and that what is      *)
(* stale on the page is being fetched.                                     *)
THEOREM CacheInvariant == Spec => []CacheInv
BY CacheInitInv, CacheStepInv, PTL DEF Spec

(* A list or statistic at rest shows what this client was told of its own  *)
(* writes (api.ts, BulkJobToast.tsx).                                      *)
THEOREM OwnWritesAreShown == Spec => []FreshAfterOwnWrite
<1>1. CacheInv => FreshAfterOwnWrite
  <2> SUFFICES ASSUME CacheInv, NEW q \in OrdersQueries \cap Observed, HasData(cache[q]),
                      ~cache[q].loading, cache[q].error = None
               PROVE  cache[q].data >= owed[q]
    BY DEF FreshAfterOwnWrite
  <2> QED
    BY DEF CacheInv, StaleIsFetched, OldIsStale
<1> QED
  BY <1>1, CacheInvariant, PTL

(* The sheet is behind the patch it was last told of only while it shows   *)
(* the answer of a request that was in flight when the patch was answered; *)
(* its next answer puts it right (usePatchStatus in api.ts, which cancels  *)
(* no fetch).                                                              *)
THEOREM DetailKeepsUp == Spec => []DetailShowsOwnPatch
<1>1. CacheInv => DetailShowsOwnPatch
  BY DEF CacheInv
<1> QED
  BY <1>1, CacheInvariant, PTL

(* No request goes on for what no page shows (queryClient.ts).             *)
THEOREM NothingUnseenLoads == Spec => []NothingLoadsUnseen
<1>1. CacheInv => NothingLoadsUnseen
  BY DEF CacheInv
<1> QED
  BY <1>1, CacheInvariant, PTL
=============================================================================
