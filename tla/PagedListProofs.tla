--------------------------- MODULE PagedListProofs ---------------------------
(***************************************************************************)
(* Proofs about the paged list, for any views, selections, page size and   *)
(* number of rows, and for any writes of others: what the orders page and  *)
(* the suppliers page share, and the suppliers page, which adds nothing.   *)
(***************************************************************************)
EXTENDS PagedList, QueryProofs

Kept(s) == s \notin shrunk

(* What is known of a page that was shown once: it began within the orders *)
(* of its filters, its answer is of that page and counts no order that is  *)
(* not there, unless some have left since.                                 *)
WithinRows(k) ==
    k.offset = 0 \/ (Kept(Selects[k.view]) => k.offset < rows[Selects[k.view]])

AnswerOf(k, d) ==
    /\ d.of = k
    /\ ~d.torn => d.length = PageRows(k.offset, d.total)
    /\ Kept(Selects[k.view]) => /\ d.total <= rows[Selects[k.view]]
                                /\ k.offset = 0 \/ k.offset < d.total

PagesInv ==
    \A k \in DOMAIN cache : /\ WithinRows(k)
                            /\ HasData(cache[k]) => AnswerOf(k, cache[k].data)

(* The count that the answer in flight begins with is no more than the     *)
(* orders there are, unless some have left since.                          *)
CountInv ==
    counted # -1 /\ Kept(Selects[view]) =>
       /\ counted <= rows[Selects[view]]
       /\ offset = 0 \/ offset < counted

(* The page on screen is loading, or has rows or an error to show.         *)
ShownInv == query.loading \/ HasData(query) \/ query.error # None

ListInv == ListTypeOK /\ PagesInv /\ CountInv /\ ShownInv

(* The least and the greatest of two integers.                             *)
LEMMA MinMax ==
    ASSUME NEW a \in Int, NEW b \in Int
    PROVE  /\ Min({a, b}) = IF a <= b THEN a ELSE b
           /\ Max({a, b}) = IF a >= b THEN a ELSE b
<1> DEFINE m == IF a <= b THEN a ELSE b
           n == IF a >= b THEN a ELSE b
<1>1. /\ m \in {a, b} /\ \A y \in {a, b} : m <= y
      /\ n \in {a, b} /\ \A y \in {a, b} : n >= y
  OBVIOUS
<1>2. \A x \in {a, b} : (\A y \in {a, b} : x <= y) => x = m
  OBVIOUS
<1>3. \A x \in {a, b} : (\A y \in {a, b} : x >= y) => x = n
  OBVIOUS
<1> HIDE DEF m, n
<1>4. Min({a, b}) = m
  BY <1>1, <1>2 DEF Min
<1>5. Max({a, b}) = n
  BY <1>1, <1>3 DEF Max
<1> QED
  BY <1>4, <1>5 DEF m, n

(* A page has as many rows as there are from its start on, up to its size. *)
LEMMA PageRowsFacts ==
    ASSUME NEW o \in Nat, NEW n \in Nat
    PROVE  PageRows(o, n) = IF n <= o THEN 0 ELSE IF n - o <= PageSize THEN n - o ELSE PageSize
<1>1. PageSize \in Nat /\ PageSize > 0 /\ n - o \in Int
  BY SizesAssumption
<1>2. Min({PageSize, n - o}) = IF PageSize <= n - o THEN PageSize ELSE n - o
  BY <1>1, MinMax
<1>3. Max({0, Min({PageSize, n - o})}) =
         IF 0 >= Min({PageSize, n - o}) THEN 0 ELSE Min({PageSize, n - o})
  BY <1>1, <1>2, MinMax
<1> QED
  BY <1>1, <1>2, <1>3 DEF PageRows

(* A page without rows that begins within the orders is of no orders.      *)
LEMMA EmptyPage ==
    ASSUME NEW o \in Nat, NEW n \in Nat, PageRows(o, n) = 0, o = 0 \/ o < n
    PROVE  n = 0
<1>1. PageRows(o, n) = IF n <= o THEN 0 ELSE IF n - o <= PageSize THEN n - o ELSE PageSize
  BY PageRowsFacts
<1> QED
  BY <1>1, SizesAssumption

-----------------------------------------------------------------------------
(* The steps of the list.                                                  *)

(* What the types say of the page on screen.                               *)
LEMMA ListTypes ==
    ASSUME ListTypeOK
    PROVE  /\ view \in Views /\ offset \in Nat /\ Current \in Keys /\ Current \in DOMAIN cache
           /\ Current.view = view /\ Current.offset = offset
           /\ query \in QueryType(Answers, {"failed"})
           /\ Selects[view] \in Selections /\ rows[Selects[view]] \in 0 .. MaxRows
           /\ MaxRows \in Nat /\ PageSize \in Nat /\ PageSize > 0
           /\ None \notin Answers /\ None # "failed"
BY ViewsAssumption, SizesAssumption, NoneAssumption
   DEF ListTypeOK, Current, Key, Keys, query

(* The list at the start: the first page of the first view is loading.     *)
LEMMA ListInitInv == ListInit => ListInv
<1> SUFFICES ASSUME ListInit PROVE ListInv
  OBVIOUS
<1> DEFINE k == Key(FirstView, 0)
           q == Send(NewQuery)
<1>1. q \in QueryType(Answers, {"failed"}) /\ q.loading /\ ~HasData(q)
  BY NewQueryFacts, SendFacts DEF HasData
<1>2. k \in Keys /\ k.offset = 0 /\ Current = k /\ cache = [c \in {k} |-> q]
  BY ViewsAssumption DEF ListInit, Key, Keys, Current
<1>3. ListTypeOK
  BY <1>1, <1>2, ViewsAssumption, SizesAssumption DEF ListInit, ListTypeOK
<1>4. PagesInv
  BY <1>1, <1>2 DEF PagesInv, WithinRows
<1>5. CountInv /\ ShownInv
  BY <1>1, <1>2 DEF ListInit, CountInv, ShownInv, query
<1> QED
  BY <1>3, <1>4, <1>5 DEF ListInv

(* Another page is shown, which begins within its orders.                  *)
LEMMA ShowInv ==
    ASSUME ListInv, NEW v \in Views, NEW o \in Nat, WithinRows(Key(v, o)),
           view' = v, offset' = o, Show(Key(v, o)), UNCHANGED server,
           clicks' \in 0 .. MaxClicks
    PROVE  ListInv'
<1> DEFINE k == Key(v, o)
<1>1. k \in Keys /\ k.view = v /\ k.offset = o /\ Current' = k
  BY DEF Key, Keys, Current
<1>2. ListTypeOK /\ PagesInv /\ CountInv /\ ShownInv
  BY DEF ListInv
<1>3. CASE k = Current
  <2>1. UNCHANGED <<cache, lastKey, counted>>
    BY <1>3 DEF Show
  <2>2. v = view /\ o = offset
    BY <1>1, <1>2, <1>3, ListTypes
  <2> QED
    BY <1>2, <2>1, <2>2 DEF ListInv, ListTypeOK, PagesInv, WithinRows, AnswerOf, Kept, CountInv,
       ShownInv, server, Current, query
<1>4. CASE k # Current
  <2> DEFINE cached == IF k \in DOMAIN cache THEN cache[k] ELSE NewQuery
  <2>1. PICK expired \in BOOLEAN :
           /\ cache' = [c \in DOMAIN cache \cup {k} |->
                          CASE c = k -> Appear(cached, expired)
                            [] c = Current -> Abandon(query)
                            [] OTHER -> cache[c]]
           /\ lastKey' = IF HasData(Appear(cached, expired)) THEN k ELSE lastKey
           /\ counted' = -1
    BY <1>4 DEF Show
  <2>2. cached \in QueryType(Answers, {"failed"})
    BY <1>2, NewQueryFacts DEF ListTypeOK
  <2>3. HasData(cached) => k \in DOMAIN cache /\ cached = cache[k]
    BY NewQueryFacts
  <2> HIDE DEF cached
  <2> DEFINE q == Appear(cached, expired)
  <2>4. /\ q \in QueryType(Answers, {"failed"}) /\ q.data = cached.data
        /\ q.loading \/ HasData(q)
    BY <2>2, AppearFacts DEF HasData
  <2> HIDE DEF q
  <2>5. /\ query \in QueryType(Answers, {"failed"})
        /\ Abandon(query) \in QueryType(Answers, {"failed"}) /\ Abandon(query).data = query.data
    BY <1>2, ListTypes, AbandonFacts
  <2>6. /\ DOMAIN cache' = DOMAIN cache \cup {k} /\ cache'[k] = q
        /\ cache'[Current] = Abandon(query)
        /\ \A c \in DOMAIN cache : c # k /\ c # Current => cache'[c] = cache[c]
    BY <1>2, <1>4, <2>1 DEF q, ListTypeOK
  <2>7. \A c \in DOMAIN cache' :
           /\ cache'[c] \in QueryType(Answers, {"failed"})
           /\ c # k => c \in DOMAIN cache /\ cache'[c].data = cache[c].data
    BY <1>2, <2>4, <2>5, <2>6 DEF ListTypeOK, query
  <2>8. ListTypeOK'
    <3>1. lastKey' \in DOMAIN cache' \cup {None} /\ counted' \in -1 .. MaxRows
      BY <1>2, <2>1, <2>6, SizesAssumption DEF ListTypeOK
    <3>2. DOMAIN cache' \subseteq Keys /\ Current' \in DOMAIN cache'
      BY <1>1, <1>2, <2>6 DEF ListTypeOK
    <3> QED
      BY <1>2, <2>7, <3>1, <3>2 DEF ListTypeOK, server
  <2>9. PagesInv'
    <3> SUFFICES ASSUME NEW c \in DOMAIN cache'
                 PROVE  (WithinRows(c) /\ (HasData(cache[c]) => AnswerOf(c, cache[c].data)))'
      BY DEF PagesInv
    <3>1. CASE c = k
      BY <1>2, <2>3, <2>4, <2>6, <3>1 DEF PagesInv, WithinRows, AnswerOf, Kept, server, HasData
    <3>2. CASE c # k
      BY <1>2, <2>7, <3>2 DEF PagesInv, WithinRows, AnswerOf, Kept, server, HasData
    <3> QED
      BY <3>1, <3>2
  <2>10. CountInv' /\ ShownInv'
    BY <1>1, <2>1, <2>4, <2>6 DEF CountInv, ShownInv, query
  <2> QED
    BY <2>8, <2>9, <2>10 DEF ListInv
<1> QED
  BY <1>3, <1>4

(* A click that shows a page which begins within its orders.               *)
LEMMA VisitInv ==
    ASSUME ListInv, NEW v \in Views, NEW o \in Nat, WithinRows(Key(v, o)), Visit(v, o)
    PROVE  ListInv'
<1>1. clicks' \in 0 .. MaxClicks
  BY SizesAssumption DEF ListInv, ListTypeOK, Visit, Click
<1> QED
  BY <1>1, ShowInv DEF Visit

(* Next leads to rows that were counted, Previous to rows before them.     *)
LEMMA PagingInv ==
    ASSUME ListInv, NextPage \/ PrevPage
    PROVE  ListInv'
<1>1. /\ view \in Views /\ offset \in Nat /\ Current \in DOMAIN cache
      /\ Current.view = view /\ Current.offset = offset
      /\ rows[Selects[view]] \in Nat /\ PageSize \in Nat /\ PageSize > 0
  BY ListTypes DEF ListInv
<1>2. WithinRows(Current) /\ (HasData(query) => AnswerOf(Current, query.data))
  BY <1>1 DEF ListInv, PagesInv, query
<1>3. CASE NextPage
  <2>1. ~query.loading /\ offset + PageSize < total
    BY <1>3 DEF NextPage, Enabled, canNext
  <2>2. CASE HasData(query)
    <3>1. total = query.data.total /\ query.data \in Answers
      <4>1. data = query.data
        BY <2>2 DEF data, Pending, HasData
      <4>2. query.data \in Answers
        BY <2>2, ListTypes DEF ListInv, QueryType, HasData
      <4> QED
        BY <2>2, <4>1, <4>2 DEF total, HasData
    <3>2. Kept(Selects[view]) => query.data.total <= rows[Selects[view]]
      BY <1>1, <1>2, <2>2 DEF AnswerOf
    <3>3. query.data.total \in Nat
      BY <3>1, SizesAssumption DEF Answers
    <3>4. Kept(Selects[view]) => offset + PageSize < rows[Selects[view]]
      BY <1>1, <2>1, <3>1, <3>2, <3>3
    <3>5. WithinRows(Key(view, offset + PageSize))
      BY <3>4 DEF WithinRows, Key
    <3> QED
      BY <1>1, <1>3, <3>5, VisitInv DEF NextPage
  <2>3. CASE ~HasData(query)
    <3>1. total = 0
      BY <2>1, <2>3 DEF ListInv, ShownInv, Pending, data, total
    <3> QED
      BY <1>1, <2>1, <3>1
  <2> QED
    BY <2>2, <2>3
<1>4. CASE PrevPage
  <2> DEFINE o == Max({0, offset - PageSize})
  <2>1. o \in Nat /\ o <= offset
    <3>1. o = IF 0 >= offset - PageSize THEN 0 ELSE offset - PageSize
      BY <1>1, MinMax
    <3> QED
      BY <1>1, <3>1
  <2> HIDE DEF o
  <2>2. WithinRows(Key(view, o))
    <3>1. offset < rows[Selects[view]] => o < rows[Selects[view]]
      BY <1>1, <2>1
    <3>2. offset = 0 => o = 0
      BY <2>1
    <3> QED
      BY <1>1, <1>2, <3>1, <3>2 DEF WithinRows, Key
  <2> QED
    BY <1>1, <1>4, <2>1, <2>2, VisitInv DEF PrevPage, o
<1> QED
  BY <1>3, <1>4

(* The first statement of an answer.                                       *)
LEMMA CountKeeps ==
    ASSUME ListInv, Count
    PROVE  ListInv'
<1>1. /\ counted' = rows[Selects[view]]
      /\ UNCHANGED <<view, offset, cache, lastKey, server, clicks>>
  BY DEF Count
<1>2. counted' \in 0 .. MaxRows /\ WithinRows(Current) /\ Current.view = view /\ Current.offset = offset
  BY <1>1, ListTypes DEF ListInv, PagesInv
<1>3. ListTypeOK'
  BY <1>1, <1>2, SizesAssumption DEF ListInv, ListTypeOK, server, Current
<1>4. PagesInv'
  BY <1>1 DEF ListInv, PagesInv, WithinRows, AnswerOf, Kept, server
<1>5. CountInv' /\ ShownInv'
  BY <1>1, <1>2, SizesAssumption DEF ListInv, CountInv, ShownInv, WithinRows, Kept, server, Current, query
<1> QED
  BY <1>3, <1>4, <1>5 DEF ListInv

(* The query on screen is replaced by one that is loading, has data or an  *)
(* error; its data is that of before or an answer of this page.            *)
LEMMA QueryInv ==
    ASSUME ListInv, NEW q \in QueryType(Answers, {"failed"}),
           SetQuery(q), UNCHANGED <<view, offset, server, clicks>>,
           counted' = -1, lastKey' \in {lastKey, Current},
           q.loading \/ HasData(q) \/ q.error # None,
           HasData(q) => AnswerOf(Current, q.data)
    PROVE  ListInv'
<1>1. /\ Current \in DOMAIN cache /\ DOMAIN cache' = DOMAIN cache /\ cache'[Current] = q
      /\ \A c \in DOMAIN cache : c # Current => cache'[c] = cache[c]
      /\ Current' = Current /\ query' = q
  BY ListTypes DEF ListInv, SetQuery, Current, query
<1>2. ListTypeOK'
  <2>1. \A c \in DOMAIN cache' : cache'[c] \in QueryType(Answers, {"failed"})
    BY <1>1 DEF ListInv, ListTypeOK
  <2>2. counted' \in -1 .. MaxRows
    BY SizesAssumption
  <2>3. Current' \in DOMAIN cache'
    BY <1>1
  <2>4. lastKey' \in DOMAIN cache' \cup {None}
    <3>1. lastKey \in DOMAIN cache \cup {None}
      BY DEF ListInv, ListTypeOK
    <3>2. lastKey' \in DOMAIN cache \cup {None}
      BY <1>1, <3>1
    <3> QED
      BY <1>1, <3>2
  <2> QED
    BY <1>1, <2>1, <2>2, <2>3, <2>4 DEF ListInv, ListTypeOK, server
<1>3. PagesInv'
  <2> SUFFICES ASSUME NEW c \in DOMAIN cache'
               PROVE  (WithinRows(c) /\ (HasData(cache[c]) => AnswerOf(c, cache[c].data)))'
    BY DEF PagesInv
  <2>1. CASE c = Current
    BY <1>1, <2>1 DEF ListInv, PagesInv, WithinRows, AnswerOf, Kept, server
  <2>2. CASE c # Current
    BY <1>1, <2>2 DEF ListInv, PagesInv, WithinRows, AnswerOf, Kept, server
  <2> QED
    BY <2>1, <2>2
<1>4. CountInv'
  BY DEF CountInv
<1>5. ShownInv'
  <2>1. query' = q
    BY <1>1
  <2>2. query'.loading \/ query'.data # None \/ query'.error # None
    BY <2>1, Zenon DEF HasData
  <2> QED
    BY <2>2, Zenon DEF ShownInv, HasData
<1> QED
  BY <1>2, <1>3, <1>4, <1>5 DEF ListInv

(* The second statement, and the answer.                                   *)
LEMMA PageKeeps ==
    ASSUME ListInv, Page
    PROVE  ListInv'
<1> DEFINE n == rows[Selects[view]]
           d == [of |-> Request, total |-> counted, length |-> PageRows(offset, n),
                 torn |-> counted # n]
           q == Succeed(query, d)
<1>1. /\ counted # -1 /\ SetQuery(q) /\ lastKey' = Current /\ counted' = -1
      /\ UNCHANGED <<view, offset, server, clicks>>
  BY DEF Page
<1>2. /\ offset \in Nat /\ n \in 0 .. MaxRows /\ counted \in 0 .. MaxRows
      /\ Current = Request /\ Current \in Keys /\ Current.view = view /\ Current.offset = offset
      /\ PageSize \in Nat /\ PageSize > 0 /\ query \in QueryType(Answers, {"failed"})
  <2>1. counted \in 0 .. MaxRows
    BY <1>1, SizesAssumption DEF ListInv, ListTypeOK
  <2> QED
    BY <2>1, ListTypes DEF ListInv, Current, Key, Request
<1>3. PageRows(offset, n) \in 0 .. PageSize
  BY <1>2, PageRowsFacts
<1>4. d \in Answers
  BY <1>2, <1>3 DEF Answers
<1>5. AnswerOf(Current, d)
  BY <1>1, <1>2 DEF ListInv, CountInv, AnswerOf, Kept
<1> HIDE DEF d
<1>6. q \in QueryType(Answers, {"failed"}) /\ q.data = d
  BY <1>2, <1>4, SucceedFacts
<1>7. HasData(q)
  BY <1>4, <1>6, NoneAssumption DEF HasData
<1> HIDE DEF q
<1> QED
  BY <1>1, <1>5, <1>6, <1>7, QueryInv

(* A request fails: it is tried again, or the data that there was stays.   *)
LEMMA FailsKeeps ==
    ASSUME ListInv, RequestFails
    PROVE  ListInv'
<1> DEFINE q == Fail(query, "failed", TRUE)
<1>1. /\ query.loading /\ SetQuery(q) /\ counted' = -1
      /\ UNCHANGED <<view, offset, lastKey, server, clicks>>
  BY DEF RequestFails
<1>2. query \in QueryType(Answers, {"failed"}) /\ Current \in DOMAIN cache
  BY ListTypes DEF ListInv
<1>3. /\ q \in QueryType(Answers, {"failed"}) /\ q.data = query.data
      /\ q.loading \/ q.error = "failed"
  <2>1. q \in QueryType(Answers, {"failed"}) /\ q.data = query.data
    BY <1>2 DEF Fail, QueryType, HasData
  <2>2. ~q.loading => q.error = "failed"
    BY <1>1, <1>2 DEF Fail, QueryType, HasData
  <2> QED
    BY <2>1, <2>2, Zenon
<1>4. HasData(q) => AnswerOf(Current, q.data)
  BY <1>2, <1>3 DEF ListInv, PagesInv, query, HasData
<1> HIDE DEF q
<1> QED
  BY <1>1, <1>3, <1>4, NoneAssumption, QueryInv

(* Others add orders to a selection, or take some away.                    *)
LEMMA WriteKeeps ==
    ASSUME ListInv, Write
    PROVE  ListInv'
<1>1. PICK s \in Volatile, n \in NewSizes :
         /\ n # rows[s]
         /\ rows' = [rows EXCEPT ![s] = n]
         /\ shrunk' = IF n < rows[s] THEN shrunk \cup {s} ELSE shrunk
  BY DEF Write
<1>2. /\ s \in Selections /\ n \in 0 .. MaxRows /\ MaxRows \in Nat
      /\ rows \in [Selections -> 0 .. MaxRows]
  BY ViewsAssumption, SizesAssumption DEF ListInv, ListTypeOK
<1>3. \A x \in Selections : /\ Kept(x)' => Kept(x) /\ rows[x] <= rows'[x]
                            /\ rows[x] \in Nat /\ rows'[x] \in Nat
  BY <1>1, <1>2 DEF Kept
<1>4. /\ UNCHANGED <<view, offset, cache, lastKey, counted, clicks>>
      /\ writes' \in 0 .. MaxWrites
  BY SizesAssumption DEF Write, ListInv, ListTypeOK
<1>5. ListTypeOK'
  BY <1>1, <1>2, <1>4 DEF ListInv, ListTypeOK, Current
<1>6. PagesInv'
  <2> SUFFICES ASSUME NEW c \in DOMAIN cache
               PROVE  WithinRows(c)' /\ (HasData(cache[c]) => AnswerOf(c, cache[c].data)')
    BY <1>4 DEF PagesInv, AnswerOf
  <2>1. c \in Keys /\ Selects[c.view] \in Selections /\ c.offset \in Nat
    BY ViewsAssumption DEF ListInv, ListTypeOK, Keys
  <2>2. WithinRows(c)'
    BY <1>3, <2>1 DEF ListInv, PagesInv, WithinRows
  <2>3. ASSUME HasData(cache[c])
        PROVE  AnswerOf(c, cache[c].data)'
    <3>1. cache[c].data \in Answers
      BY <2>3 DEF ListInv, ListTypeOK, QueryType, HasData
    <3>2. cache[c].data.total \in Nat
      BY <3>1, SizesAssumption DEF Answers
    <3>3. AnswerOf(c, cache[c].data)
      BY <2>3 DEF ListInv, PagesInv
    <3>4. Kept(Selects[c.view])' => cache[c].data.total <= rows'[Selects[c.view]]
      BY <1>3, <2>1, <3>2, <3>3 DEF AnswerOf
    <3> QED
      BY <1>3, <1>4, <2>1, <3>3, <3>4 DEF AnswerOf
  <2> QED
    BY <2>2, <2>3
<1>7. CountInv'
  <2>1. Selects[view] \in Selections /\ counted \in -1 .. MaxRows
    BY ListTypes DEF ListInv, ListTypeOK
  <2> QED
    BY <1>2, <1>3, <1>4, <2>1 DEF ListInv, CountInv
<1>8. ShownInv'
  BY <1>4 DEF ListInv, ShownInv, query, Current
<1> QED
  BY <1>5, <1>6, <1>7, <1>8 DEF ListInv

-----------------------------------------------------------------------------
(* What the list promises.                                                 *)

(* The page that is shown is one that was shown: it began within its rows. *)
LEMMA ListWithin == ListInv => NeverPastTheEnd
<1> SUFFICES ASSUME ListInv PROVE NeverPastTheEnd
  OBVIOUS
<1>1. WithinRows(Current) /\ Current.view = view /\ Current.offset = offset
  BY ListTypes DEF ListInv, PagesInv
<1> QED
  BY <1>1 DEF NeverPastTheEnd, WithinRows, Kept

(* What the page at rest has to show.                                      *)
LEMMA SettledFacts ==
    ASSUME ListInv, Settled
    PROVE  /\ data = query.data /\ data \in Answers /\ data # None /\ total = data.total
           /\ AnswerOf(Current, data) /\ Current = Request
           /\ Current.view = view /\ Current.offset = offset
           /\ offset \in Nat /\ total \in Nat /\ PageSize \in Nat /\ PageSize > 0
<1>1. /\ HasData(query) /\ Current \in DOMAIN cache
      /\ query \in QueryType(Answers, {"failed"})
  BY ListTypes DEF ListInv, Settled
<1>2. data = query.data
  BY <1>1 DEF data, Pending, HasData
<1>3. data \in Answers /\ data # None
  BY <1>1, <1>2 DEF QueryType, HasData
<1>4. total = data.total /\ total \in Nat
  BY <1>3, SizesAssumption DEF total, Answers
<1>5. AnswerOf(Current, data)
  BY <1>1, <1>2 DEF ListInv, PagesInv, query
<1> QED
  BY <1>1, <1>2, <1>3, <1>4, <1>5, ListTypes DEF ListInv, Current, Key, Request

(* The rows at rest are an answer of the key on screen.                    *)
LEMMA ListAsAsked == ListInv => ShownAsAsked
BY SettledFacts DEF ShownAsAsked, AnswerOf

(* An answer without rows that begins within the rows it counts has none. *)
LEMMA ListEmpty == ListInv => EmptyMeansNone
<1> SUFFICES ASSUME ListInv, Settled, Body = "none match", ~data.torn, Kept(Selects[view])
             PROVE  total = 0
  BY DEF EmptyMeansNone, Kept
<1>1. data # None /\ data.length = 0
  BY SettledFacts DEF Body
<1>2. /\ PageRows(offset, total) = 0
      /\ offset = 0 \/ offset < total
  BY <1>1, SettledFacts DEF AnswerOf
<1>3. offset \in Nat /\ total \in Nat /\ PageSize \in Nat /\ PageSize > 0
  BY SettledFacts
<1> QED
  BY <1>2, <1>3, EmptyPage

(* The range line subtracts what the page was cut from.                    *)
LEMMA ListRange == ListInv => RangeTellsRows
<1> SUFFICES ASSUME ListInv, Settled, ~data.torn
             PROVE  data.length = IF total = 0 THEN 0 ELSE Max({0, end - start + 1})
  BY DEF RangeTellsRows
<1>1. /\ offset \in Nat /\ total \in Nat /\ PageSize \in Nat /\ PageSize > 0
      /\ data.length = PageRows(offset, total)
  BY SettledFacts DEF AnswerOf
<1>2. data.length = IF total <= offset THEN 0
                    ELSE IF total - offset <= PageSize THEN total - offset ELSE PageSize
  BY <1>1, PageRowsFacts
<1>3. end = IF offset + PageSize <= total THEN offset + PageSize ELSE total
  BY <1>1, MinMax DEF end
<1>4. CASE total = 0
  BY <1>1, <1>2, <1>4
<1>5. CASE total # 0
  <2>1. start = offset + 1
    BY <1>5 DEF start
  <2>2. Max({0, end - start + 1}) = IF 0 >= end - start + 1 THEN 0 ELSE end - start + 1
    BY <1>1, <1>3, <2>1, MinMax
  <2> QED
    BY <1>1, <1>2, <1>3, <1>5, <2>1, <2>2
<1> QED
  BY <1>4, <1>5

-----------------------------------------------------------------------------
(* The suppliers page.                                                     *)

Suppliers == INSTANCE SuppliersPage

(* It is the list with the two buttons and their requests, nothing else.   *)
LEMMA SuppliersSteps ==
    /\ Suppliers!Init => ListInit
    /\ Suppliers!Next => NextPage \/ PrevPage \/ Count \/ Page \/ RequestFails
    /\ UNCHANGED Suppliers!listVars => UNCHANGED listVars
<1>1. Suppliers!Init => ListInit
  BY DEF ListInit, Key, Send, NewQuery, HasData, Suppliers!Init, Suppliers!ListInit,
     Suppliers!Key, Suppliers!Send, Suppliers!NewQuery, Suppliers!HasData
<1>2. Suppliers!Current = Current /\ Suppliers!query = query
  BY DEF Current, Key, query, Suppliers!Current, Suppliers!Key, Suppliers!query
<1>3. Suppliers!Next => \/ Suppliers!NextPage \/ Suppliers!PrevPage
                        \/ Suppliers!Count \/ Suppliers!Page \/ Suppliers!RequestFails
  BY DEF Suppliers!Next, Suppliers!Paging, Suppliers!PageRequest
<1>4. Suppliers!Count => Count
  BY <1>2 DEF Count, server, Suppliers!Count, Suppliers!server
<1>5. Suppliers!Page => Page
  BY <1>2
     DEF Page, SetQuery, Succeed, Request, PageRows, Min, Max, Current, Key, query, server,
     Suppliers!Page, Suppliers!SetQuery, Suppliers!Succeed, Suppliers!Request,
     Suppliers!PageRows, Suppliers!Min, Suppliers!Max, Suppliers!Current, Suppliers!Key,
     Suppliers!query, Suppliers!server
<1>6. Suppliers!RequestFails => RequestFails
  BY <1>2
     DEF RequestFails, SetQuery, Fail, MayRetry, HasData, Current, Key, query, server,
     Suppliers!RequestFails, Suppliers!SetQuery, Suppliers!Fail, Suppliers!MayRetry,
     Suppliers!HasData, Suppliers!Current, Suppliers!Key, Suppliers!query, Suppliers!server
<1>7. /\ Suppliers!NextPage => NextPage
      /\ Suppliers!PrevPage => PrevPage
  BY <1>2
     DEF NextPage, PrevPage, Enabled, canNext, canPrev, total, data, Pending, Visit, Click, Show,
     Appear, Fetch, Send, Abandon, NewQuery, HasData, Max, Current, Key, query, server,
     Suppliers!NextPage, Suppliers!PrevPage, Suppliers!Enabled, Suppliers!canNext,
     Suppliers!canPrev, Suppliers!total, Suppliers!data, Suppliers!Pending, Suppliers!Visit,
     Suppliers!Click, Suppliers!Show, Suppliers!Appear, Suppliers!Fetch, Suppliers!Send,
     Suppliers!Abandon, Suppliers!NewQuery, Suppliers!HasData, Suppliers!Max,
     Suppliers!Current, Suppliers!Key, Suppliers!query, Suppliers!server
<1>8. UNCHANGED Suppliers!listVars => UNCHANGED listVars
  BY DEF listVars, server, Suppliers!listVars, Suppliers!server
<1> QED
  BY <1>1, <1>3, <1>4, <1>5, <1>6, <1>7, <1>8

(* Nothing leaves the list, so nothing is excepted.                        *)
SuppliersInv == ListInv /\ shrunk = {}

(* The buttons, the two statements of an answer and a failing request keep *)
(* the invariant of the list, and take no row away.                        *)
LEMMA SuppliersStepInv ==
    SuppliersInv /\ [Suppliers!Next]_(Suppliers!listVars) => SuppliersInv'
<1> SUFFICES ASSUME SuppliersInv, [Suppliers!Next]_(Suppliers!listVars) PROVE SuppliersInv'
  OBVIOUS
<1>1. CASE NextPage \/ PrevPage
  <2>1. UNCHANGED shrunk
    BY <1>1 DEF NextPage, PrevPage, Visit, server
  <2> QED
    BY <1>1, <2>1, PagingInv DEF SuppliersInv
<1>2. CASE Count \/ Page \/ RequestFails
  <2>1. UNCHANGED shrunk
    BY <1>2 DEF Count, Page, RequestFails, server
  <2> QED
    BY <1>2, <2>1, CountKeeps, PageKeeps, FailsKeeps DEF SuppliersInv
<1>3. CASE UNCHANGED listVars
  BY <1>3 DEF SuppliersInv, ListInv, ListTypeOK, PagesInv, WithinRows, AnswerOf, Kept, CountInv,
     ShownInv, listVars, server, query, Current
<1> QED
  BY <1>1, <1>2, <1>3, SuppliersSteps

(* However Next, Previous, answers, failures and cached pages interleave,  *)
(* the suppliers page begins within its list (canNext in SuppliersPage.tsx *)
(* stops there), says "none" and the range truly, and shows the page it    *)
(* says; no row ever leaves the list, so none of this has an exception.    *)
THEOREM SuppliersPagingStaysWithin ==
    Suppliers!Spec => []/\ NeverPastTheEnd /\ shrunk = {}
                        /\ EmptyMeansNone /\ RangeTellsRows /\ ShownAsAsked
<1>1. Suppliers!Init => SuppliersInv
  BY SuppliersSteps, ListInitInv DEF SuppliersInv, ListInit
<1>2. SuppliersInv => /\ NeverPastTheEnd /\ shrunk = {}
                      /\ EmptyMeansNone /\ RangeTellsRows /\ ShownAsAsked
  BY ListWithin, ListEmpty, ListRange, ListAsAsked DEF SuppliersInv
<1> QED
  BY <1>1, <1>2, SuppliersStepInv, PTL DEF Suppliers!Spec
==============================================================================
