-------------------------- MODULE OrderStoreProofs --------------------------
(***************************************************************************)
(* Proofs about OrderStore, for any set of orders, requests and chunks.    *)
(***************************************************************************)
EXTENDS OrderStore, FiniteSetTheorems, TLAPS

(* The types, with what is known of a request and of the worker at each    *)
(* stage: the first layer of the inductive invariant.                      *)
TypeInv == TypeOK /\ RequestShape /\ WorkerShape

(* A chunk is a sequence of ids, and its distinct ids are at most as many. *)
LEMMA ChunkLength ==
    ASSUME NEW c \in Chunks
    PROVE  /\ Len(ChunkIds[c]) \in Nat
           /\ \A S \in SUBSET IdsOf(c) :
                 IsFiniteSet(S) /\ Cardinality(S) \in Nat
                                /\ Cardinality(S) <= Len(ChunkIds[c])
<1> DEFINE ids == ChunkIds[c]
<1>1. ids \in Seq(OrderIds)
  BY ChunksAssumption
<1>2. Len(ids) \in Nat /\ DOMAIN ids = 1..Len(ids)
  BY <1>1
<1>3. ids \in Surjection(1..Len(ids), IdsOf(c))
  BY <1>1, <1>2 DEF Surjection, IdsOf, Range
<1>4. IsFiniteSet(1..Len(ids)) /\ Cardinality(1..Len(ids)) = Len(ids)
  <2> DEFINE n == Len(ids)
  <2>1. n \in Nat
    BY <1>2
  <2> HIDE DEF n
  <2>2. IsFiniteSet(1..n) /\ Cardinality(1..n) = IF 1 > n THEN 0 ELSE n - 1 + 1
    BY <2>1, FS_Interval
  <2>3. IsFiniteSet(1..n) /\ Cardinality(1..n) = n
    BY <2>1, <2>2
  <2> QED
    BY <2>3 DEF n
<1>5. IsFiniteSet(IdsOf(c)) /\ Cardinality(IdsOf(c)) <= Len(ids)
  BY <1>3, <1>4, FS_Surjection
<1>6. Cardinality(IdsOf(c)) \in Nat
  BY <1>5, FS_CardinalityType
<1>7. ASSUME NEW S \in SUBSET IdsOf(c)
      PROVE  IsFiniteSet(S) /\ Cardinality(S) \in Nat /\ Cardinality(S) <= Len(ids)
  <2>1. IsFiniteSet(S) /\ Cardinality(S) <= Cardinality(IdsOf(c))
    BY <1>5, FS_Subset
  <2>2. Cardinality(S) \in Nat
    BY <2>1, FS_CardinalityType
  <2> QED
    BY <1>2, <1>5, <1>6, <2>1, <2>2
<1> QED
  BY <1>2, <1>7

(* The initial states, tables as imported and nobody at work, are typed.   *)
THEOREM TypeInit == Init => TypeInv
<1> SUFFICES ASSUME Init PROVE TypeInv
  OBVIOUS
<1>1. \A o \in Existing : <<[by |-> NoOne, status |-> InitStatus[o]]>> \in Seq(Change)
  BY OrderIdsAssumption DEF Change
<1>2. TypeOK
  BY <1>1, OrderIdsAssumption DEF Init, TypeOK, Row, NoRow, BodyType, NoStatus
<1>3. RequestShape
  BY DEF Init, RequestShape, Past
<1>4. WorkerShape
  BY DEF Init, WorkerShape
<1> QED
  BY <1>2, <1>3, <1>4 DEF TypeInv

(* Appending to a sequence gives one that is longer by the new element,    *)
(* which is last, and keeps the others.                                    *)
LEMMA AppendType ==
    ASSUME NEW S, NEW s \in Seq(S), NEW e \in S
    PROVE  /\ Append(s, e) \in Seq(S)
           /\ Len(Append(s, e)) = Len(s) + 1
           /\ Len(s) \in Nat
           /\ \A k \in 1..Len(s) : Append(s, e)[k] = s[k]
           /\ Append(s, e)[Len(s) + 1] = e
OBVIOUS

(* A step of a PATCH request that does not commit leaves the tables alone. *)
LEMMA TypeRefuse ==
    ASSUME TypeInv, NEW p \in Patches, NEW answer, Refuse(p, answer),
           ppc[p] \in {"loading", "saving", "committing", "rereading"},
           answer \in {"404", "409 cancelled", "409 version", "failed"},
           answer = "409 version" => ppc[p] = "saving"
    PROVE  TypeInv'
<1>1. TypeOK'
  BY DEF TypeInv, TypeOK, Refuse, dbVars, bulkVars
<1>2. RequestShape'
  BY DEF TypeInv, TypeOK, RequestShape, Past, Refuse, dbVars, bulkVars
<1>3. WorkerShape'
  BY DEF TypeInv, WorkerShape, Refuse, bulkVars
<1> QED
  BY <1>1, <1>2, <1>3 DEF TypeInv

(* The status that UpdateAsync saves, the body's or the loaded one, is a   *)
(* status of the table.                                                    *)
LEMMA NewStatusType ==
    ASSUME TypeInv, NEW p \in Patches, ppc[p] = "committing"
    PROVE  NewStatus(p) \in Statuses
<1>1. seen[p] \in Row /\ body[p].status # "bogus" /\ body[p] \in BodyType
  BY DEF TypeInv, TypeOK, RequestShape, Past
<1> QED
  BY <1>1 DEF NewStatus, BodyType, Row

(* The steps of a received PATCH keep the types.                           *)
LEMMA TypePatchStep ==
    ASSUME TypeInv, NEW p \in Patches, PatchStep(p)
    PROVE  TypeInv'
<1>1. CASE PatchNotFound(p) \/ PatchCancelled(p) \/ PatchConflict(p)
  BY <1>1, TypeRefuse DEF PatchNotFound, PatchCancelled, PatchConflict
<1>2. CASE PatchLoad(p)
  <2>1. row[target[p]] \in Row
    BY <1>2 DEF PatchLoad, TypeInv, TypeOK
  <2>2. TypeOK'
    BY <1>2, <2>1 DEF TypeInv, TypeOK, PatchLoad, dbVars, bulkVars
  <2>3. RequestShape'
    BY <1>2, <2>1 DEF TypeInv, TypeOK, RequestShape, Past, PatchLoad, LoadsCancelled,
                      dbVars, bulkVars
  <2>4. WorkerShape'
    BY <1>2 DEF TypeInv, WorkerShape, PatchLoad, bulkVars
  <2> QED
    BY <2>2, <2>3, <2>4 DEF TypeInv
<1>3. CASE PatchUpdate(p)
  <2>2. TypeOK'
    BY <1>3 DEF TypeInv, TypeOK, PatchUpdate, dbVars, bulkVars
  <2>3. RequestShape'
    BY <1>3 DEF TypeInv, TypeOK, RequestShape, Past, PatchUpdate, dbVars, bulkVars
  <2>4. WorkerShape'
    BY <1>3 DEF TypeInv, WorkerShape, PatchUpdate, bulkVars
  <2> QED
    BY <2>2, <2>3, <2>4 DEF TypeInv
<1>4. CASE PatchCommit(p)
  <2>1. target[p] \in Existing /\ seen[p] \in Row
    BY <1>4 DEF PatchCommit, TypeInv, RequestShape, Past
  <2>2. NewStatus(p) \in Statuses
    BY <1>4, NewStatusType DEF PatchCommit
  <2>3. [by |-> p, status |-> NewStatus(p)] \in Change
    BY <2>2 DEF Change, Writers
  <2>4. [status |-> NewStatus(p), version |-> seen[p].version + 1] \in Row
    BY <2>1, <2>2 DEF Row
  <2>5. row' \in [Existing -> Row]
    BY <1>4, <2>4 DEF TypeInv, TypeOK, PatchCommit
  <2>6. hist' \in [Existing -> Seq(Change)]
    <3>1. hist \in [Existing -> Seq(Change)]
      BY DEF TypeInv, TypeOK
    <3>2. Append(hist[target[p]], [by |-> p, status |-> NewStatus(p)]) \in Seq(Change)
      BY <2>1, <2>3, <3>1, AppendType
    <3> QED
      BY <1>4, <3>1, <3>2 DEF PatchCommit
  <2>7. TypeOK'
    BY <1>4, <2>5, <2>6 DEF TypeInv, TypeOK, PatchCommit, bulkVars
  <2>8. RequestShape'
    BY <1>4 DEF TypeInv, TypeOK, RequestShape, Past, PatchCommit, bulkVars
  <2>9. WorkerShape'
    BY <1>4 DEF TypeInv, WorkerShape, PatchCommit, bulkVars
  <2> QED
    BY <2>7, <2>8, <2>9 DEF TypeInv
<1>5. CASE PatchReread(p)
  <2>1. target[p] \in Existing /\ row[target[p]].status \in Statuses
    BY <1>5 DEF PatchReread, TypeInv, TypeOK, RequestShape, Past, Row
  <2>2. TypeOK'
    BY <1>5, <2>1 DEF TypeInv, TypeOK, PatchReread, dbVars, bulkVars
  <2>3. RequestShape'
    BY <1>5, <2>1 DEF TypeInv, TypeOK, RequestShape, Past, PatchReread, dbVars, bulkVars
  <2>4. WorkerShape'
    BY <1>5 DEF TypeInv, WorkerShape, PatchReread, bulkVars
  <2> QED
    BY <2>2, <2>3, <2>4 DEF TypeInv
<1>6. CASE PatchPublish(p)
  <2>1. /\ target[p] \in Existing /\ seen[p].status \in Statuses
        /\ shown[p] \in Statuses
    BY <1>6 DEF PatchPublish, TypeInv, RequestShape, Past, Row
  <2>2. events' \in Seq(Event)
    <3> DEFINE e == [by |-> p, id |-> target[p], old |-> seen[p].status, new |-> shown[p]]
    <3>1. events \in Seq(Event)
      BY DEF TypeInv, TypeOK
    <3>2. e \in Event
      BY <2>1 DEF Event
    <3>3. Append(events, e) \in Seq(Event)
      BY <3>1, <3>2, AppendType
    <3> QED
      BY <1>6, <3>1, <3>3 DEF PatchPublish, OldStatus
  <2>3. TypeOK'
    BY <1>6, <2>2 DEF TypeInv, TypeOK, PatchPublish, dbVars, bulkVars
  <2>4. RequestShape'
    BY <1>6 DEF TypeInv, TypeOK, RequestShape, Past, PatchPublish, dbVars, bulkVars
  <2>5. WorkerShape'
    BY <1>6 DEF TypeInv, WorkerShape, PatchPublish, bulkVars
  <2> QED
    BY <2>3, <2>4, <2>5 DEF TypeInv
<1> QED
  BY <1>1, <1>2, <1>3, <1>4, <1>5, <1>6 DEF PatchStep

(* Receiving a PATCH keeps the types, whatever its id and body.            *)
LEMMA TypePatchReceive ==
    ASSUME TypeInv, NEW p \in Patches, NEW o \in OrderIds, NEW b \in Bodies,
           PatchReceive(p, o, b)
    PROVE  TypeInv'
<1>1. b \in BodyType
  BY RequestsAssumption
<1>2. TypeOK'
  BY <1>1 DEF TypeInv, TypeOK, PatchReceive, dbVars, bulkVars
<1>3. RequestShape'
  <2>1. CASE ValidBody(b)
    <3>1. /\ ppc' = [ppc EXCEPT ![p] = "loading"] /\ body' = [body EXCEPT ![p] = b]
          /\ target' = [target EXCEPT ![p] = o]
          /\ ppc[p] = "idle" /\ b.status # "bogus"
          /\ UNCHANGED <<reply, seen, shown>>
      BY <2>1 DEF PatchReceive, ValidBody
    <3> QED
      BY <3>1 DEF TypeInv, TypeOK, RequestShape, Past
  <2>2. CASE ~ValidBody(b)
    <3>1. /\ ppc' = [ppc EXCEPT ![p] = "done"] /\ body' = [body EXCEPT ![p] = b]
          /\ reply' = [reply EXCEPT ![p] = "400"] /\ target' = [target EXCEPT ![p] = o]
          /\ ppc[p] = "idle"
          /\ UNCHANGED <<seen, shown>>
      BY <2>2 DEF PatchReceive
    <3> QED
      BY <3>1 DEF TypeInv, TypeOK, RequestShape, Past
  <2> QED
    BY <2>1, <2>2
<1>4. WorkerShape'
  BY DEF TypeInv, WorkerShape, PatchReceive, bulkVars
<1> QED
  BY <1>2, <1>3, <1>4 DEF TypeInv

(* The rows that an open transaction leaves are typed.                     *)
LEMMA TypeApplyWritten ==
    ASSUME TypeInv, wpc = "applying", ApplyWritten
    PROVE  /\ row' \in [Existing -> Row]
           /\ flag' \in [Existing -> Chunks \cup {NoOne}]
           /\ hist' \in [Existing -> Seq(Change)]
<1>0. /\ chunk \in Chunks
      /\ row \in [Existing -> Row]
      /\ flag \in [Existing -> Chunks \cup {NoOne}]
      /\ hist \in [Existing -> Seq(Change)]
  BY DEF TypeInv, TypeOK, WorkerShape
<1>1. CASE ChunkAction[chunk] = "flag"
  BY <1>0, <1>1 DEF ApplyWritten
<1>2. CASE ChunkAction[chunk] # "flag"
  <2>1. ChunkAction[chunk] \in {"approve", "reject"}
    BY <1>0, <1>2, ChunksAssumption DEF Actions
  <2>2. BulkStatus(chunk) \in Statuses
    BY <2>1 DEF BulkStatus, Statuses
  <2>3. [by |-> chunk, status |-> BulkStatus(chunk)] \in Change
    BY <1>0, <2>2 DEF Change, Writers
  <2>4. \A o \in Existing :
           Append(hist[o], [by |-> chunk, status |-> BulkStatus(chunk)]) \in Seq(Change)
    BY <1>0, <2>3, AppendType
  <2>5. \A o \in Existing :
           [status |-> BulkStatus(chunk), version |-> row[o].version + 1] \in Row
    BY <1>0, <2>2 DEF Row
  <2>6. hist' \in [Existing -> Seq(Change)]
    BY <1>0, <1>2, <2>4 DEF ApplyWritten
  <2> QED
    BY <1>0, <1>2, <2>5, <2>6 DEF ApplyWritten
<1> QED
  BY <1>1, <1>2

(* The end of a chunk keeps the types of the worker's state.               *)
LEMMA TypeChunkReturn ==
    ASSUME TypeInv, wpc # "idle", NEW done \in Nat, NEW notDone \in Nat,
           ChunkReturn(done, notDone),
           row' \in [Existing -> Row], flag' \in [Existing -> Chunks \cup {NoOne}],
           hist' \in [Existing -> Seq(Change)]
    PROVE  TypeInv'
<1>1. chunk \in Chunks
  BY DEF TypeInv, WorkerShape
<1>2. TypeOK'
  BY <1>1 DEF TypeInv, TypeOK, ChunkReturn, patchVars
<1>3. RequestShape'
  BY DEF TypeInv, RequestShape, Past, ChunkReturn, patchVars
<1>4. WorkerShape'
  BY <1>1 DEF TypeInv, TypeOK, WorkerShape, ChunkReturn
<1> QED
  BY <1>2, <1>3, <1>4 DEF TypeInv

(* The loop counts a row as completed exactly when it writes it, and never *)
(* writes a cancelled one.                                                 *)
LEMMA ChunkRowOutcome ==
    ASSUME NEW o, ChunkRow(o)
    PROVE  /\ o \in todo /\ todo' = todo \ {o}
           /\ \/ /\ written' = written \cup {o} /\ held[o].status # Cancelled
                 /\ completed' = completed + 1 /\ failed' = failed
              \/ /\ written' = written /\ completed' = completed /\ failed' = failed + 1
<1>1. CASE Refused(o)
  BY <1>1, Zenon DEF ChunkRow
<1>2. CASE ~Refused(o)
  BY <1>2, Zenon DEF ChunkRow, Refused
<1> QED
  BY <1>1, <1>2

(* The steps of the bulk worker keep the types.                            *)
LEMMA TypeChunkStep ==
    ASSUME TypeInv, ChunkStep
    PROVE  TypeInv'
<1>1. ASSUME NEW c \in Chunks, ChunkTake(c) PROVE TypeInv'
  <2>1. TypeOK'
    BY <1>1 DEF TypeInv, TypeOK, ChunkTake, dbVars, patchVars
  <2>2. RequestShape'
    BY <1>1 DEF TypeInv, RequestShape, Past, ChunkTake, patchVars
  <2>3. WorkerShape'
    BY <1>1 DEF TypeInv, TypeOK, WorkerShape, ChunkTake
  <2> QED
    BY <2>1, <2>2, <2>3 DEF TypeInv
<1>2. CASE ChunkReadExisting
  <2>1. TypeOK'
    BY <1>2 DEF TypeInv, TypeOK, ChunkReadExisting, dbVars, patchVars
  <2>2. RequestShape'
    BY <1>2 DEF TypeInv, RequestShape, Past, ChunkReadExisting, patchVars
  <2>3. WorkerShape'
    BY <1>2 DEF TypeInv, TypeOK, WorkerShape, ChunkReadExisting, IdsOf
  <2> QED
    BY <2>1, <2>2, <2>3 DEF TypeInv
<1>3. CASE ChunkLock
  <2>1. chunk \in Chunks /\ found = IdsOf(chunk) \cap Existing
    BY <1>3 DEF ChunkLock, TypeInv, WorkerShape
  <2>2. locked' \subseteq found
    BY <1>3, <2>1 DEF ChunkLock
  <2>3. completed' \in Nat /\ failed' \in Nat
    <3>1. /\ Len(ChunkIds[chunk]) \in Nat /\ Cardinality(found) \in Nat
          /\ Cardinality(found) <= Len(ChunkIds[chunk])
          /\ Cardinality(found \ locked') \in Nat
      BY <2>1, <2>2, ChunkLength
    <3> QED
      BY <1>3, <3>1 DEF ChunkLock, NotFoundCount
  <2>4. held' \in [locked' -> Row]
    BY <1>3, <2>2 DEF ChunkLock, TypeInv, TypeOK
  <2>5. TypeOK'
    BY <1>3, <2>2, <2>3, <2>4 DEF TypeInv, TypeOK, WorkerShape, ChunkLock, dbVars, patchVars
  <2>6. RequestShape'
    BY <1>3 DEF TypeInv, RequestShape, Past, ChunkLock, patchVars
  <2>7. WorkerShape'
    BY <1>3, <2>1, <2>2 DEF TypeInv, TypeOK, WorkerShape, ChunkLock, IdsOf
  <2> QED
    BY <2>5, <2>6, <2>7 DEF TypeInv
<1>4. ASSUME NEW o \in todo, ChunkRow(o) PROVE TypeInv'
  <2>t. /\ todo \subseteq locked /\ written \subseteq locked
        /\ completed \in Nat /\ failed \in Nat
    BY DEF TypeInv, TypeOK
  <2>r. /\ o \in todo /\ todo' = todo \ {o}
        /\ \/ /\ written' = written \cup {o}
              /\ completed' = completed + 1 /\ failed' = failed
           \/ /\ written' = written /\ completed' = completed /\ failed' = failed + 1
    BY <1>4, ChunkRowOutcome
  <2>0. /\ todo' \subseteq locked /\ written' \subseteq locked
        /\ completed' \in Nat /\ failed' \in Nat
    BY <2>t, <2>r
  <2>a. UNCHANGED <<dbVars, patchVars, events, wpc, chunk, found, locked, held, result>>
    BY <1>4 DEF ChunkRow
  <2>1. TypeOK'
    BY <2>0, <2>a DEF TypeInv, TypeOK, dbVars, patchVars
  <2>2. RequestShape'
    BY <1>4 DEF TypeInv, RequestShape, Past, ChunkRow, patchVars
  <2>3. WorkerShape'
    BY <1>4 DEF TypeInv, TypeOK, WorkerShape, ChunkRow, IdsOf
  <2> QED
    BY <2>1, <2>2, <2>3 DEF TypeInv
<1>5. CASE ChunkCommit
  <2>1. wpc = "applying" /\ ApplyWritten /\ ChunkReturn(completed, failed)
    BY <1>5 DEF ChunkCommit
  <2>2. completed \in Nat /\ failed \in Nat
    BY DEF TypeInv, TypeOK
  <2> QED
    BY <2>1, <2>2, TypeApplyWritten, TypeChunkReturn
<1> QED
  BY <1>1, <1>2, <1>3, <1>4, <1>5 DEF ChunkStep

(* Failing calls and clients that go away keep the types.                  *)
LEMMA TypeFault ==
    ASSUME TypeInv, Fault
    PROVE  TypeInv'
<1>1. ASSUME wpc # "idle" PROVE Len(ChunkIds[chunk]) \in Nat /\ 0 \in Nat
  BY <1>1, ChunkLength DEF TypeInv, WorkerShape
<1>2. CASE ChunkFail
  <2>1. wpc # "idle" /\ ChunkReturn(0, Len(ChunkIds[chunk]))
    BY <1>2 DEF ChunkFail
  <2>2. /\ row' \in [Existing -> Row] /\ flag' \in [Existing -> Chunks \cup {NoOne}]
        /\ hist' \in [Existing -> Seq(Change)]
    BY <1>2 DEF ChunkFail, dbVars, TypeInv, TypeOK
  <2> QED
    BY <1>1, <2>1, <2>2, TypeChunkReturn
<1>3. CASE ChunkCommitUnknown
  <2>1. wpc = "applying" /\ ApplyWritten /\ ChunkReturn(0, Len(ChunkIds[chunk]))
    BY <1>3 DEF ChunkCommitUnknown
  <2> QED
    BY <1>1, <2>1, TypeApplyWritten, TypeChunkReturn
<1>4. ASSUME NEW p \in Patches, PatchFail(p) PROVE TypeInv'
  BY <1>4, TypeRefuse DEF PatchFail
<1> QED
  BY <1>2, <1>3, <1>4 DEF Fault

(* A step that changes nothing keeps the types.                            *)
LEMMA TypeIdle ==
    ASSUME TypeInv, UNCHANGED vars
    PROVE  TypeInv'
<1>1. TypeOK'
  BY DEF TypeInv, TypeOK, vars, dbVars, patchVars, bulkVars
<1>2. RequestShape'
  BY DEF TypeInv, RequestShape, Past, vars, patchVars
<1>3. WorkerShape'
  BY DEF TypeInv, WorkerShape, vars, bulkVars
<1> QED
  BY <1>1, <1>2, <1>3 DEF TypeInv

(* Every step keeps the types.                                             *)
THEOREM TypeNext == TypeInv /\ [Next]_vars => TypeInv'
BY TypePatchReceive, TypePatchStep, TypeChunkStep, TypeFault, TypeIdle DEF Next, Idle

(* Type correctness.                                                       *)
THEOREM TypeCorrect == Spec => []TypeOK
<1>1. TypeInv => TypeOK
  BY DEF TypeInv
<1> QED
  BY <1>1, TypeInit, TypeNext, PTL DEF Spec
-----------------------------------------------------------------------------
(* The second layer: versions, locks and loaded rows.                      *)
StoreInv == HistoryMatches /\ HolderKnowsRow /\ LoadedInHistory

HistGrowth(o) == \/ hist'[o] = hist[o]
                 \/ \E e \in Change : hist'[o] = Append(hist[o], e)

(* What a step may do to the history: nothing, or append.                  *)
LEMMA GrowthKeepsPrefix ==
    ASSUME TypeInv, NEW o \in Existing, HistGrowth(o)
    PROVE  /\ Len(hist[o]) \in Nat /\ Len(hist'[o]) \in Nat
           /\ Len(hist[o]) <= Len(hist'[o])
           /\ \A k \in 1..Len(hist[o]) : hist'[o][k] = hist[o][k]
<1>1. hist[o] \in Seq(Change)
  BY DEF TypeInv, TypeOK
<1>2. CASE hist'[o] = hist[o]
  BY <1>1, <1>2
<1>3. ASSUME NEW e \in Change, hist'[o] = Append(hist[o], e)
      PROVE  /\ Len(hist[o]) \in Nat /\ Len(hist'[o]) \in Nat
             /\ Len(hist[o]) <= Len(hist'[o])
             /\ \A k \in 1..Len(hist[o]) : hist'[o][k] = hist[o][k]
  BY <1>1, <1>3, AppendType
<1> QED
  BY <1>2, <1>3 DEF HistGrowth

(* In the initial states each order has version 1 and one history entry,   *)
(* and no row is locked.                                                   *)
THEOREM StoreInit == Init => StoreInv
<1> SUFFICES ASSUME Init PROVE StoreInv
  OBVIOUS
<1>1. \A o \in Existing : LET h == <<[by |-> NoOne, status |-> InitStatus[o]]>>
                          IN  Len(h) = 1 /\ h[1].status = InitStatus[o]
  OBVIOUS
<1>2. HistoryMatches
  BY <1>1 DEF Init, HistoryMatches
<1>3. HolderKnowsRow /\ LoadedInHistory
  BY DEF Init, HolderKnowsRow, HeldRowsCurrent, LoadedInHistory, Past
<1> QED
  BY <1>2, <1>3 DEF StoreInv

(* A request's own step that is neither UPDATE nor commit.                 *)
LEMMA StoreQuietPatch ==
    ASSUME TypeInv, StoreInv, NEW p \in Patches,
           UNCHANGED <<row, hist, bulkVars>>,
           \A q \in Patches \ {p} : /\ ppc'[q] = ppc[q] /\ target'[q] = target[q]
                                    /\ seen'[q] = seen[q] /\ reply'[q] = reply[q],
           ppc'[p] # "committing",
           \/ ~(\/ ppc'[p] \in {"saving", "committing", "rereading", "publishing"}
                \/ reply'[p] = "200")
           \/ /\ seen'[p].version \in 1..Len(hist[target'[p]])
              /\ hist[target'[p]][seen'[p].version].status = seen'[p].status
    PROVE  StoreInv'
<1>1. HistoryMatches'
  BY DEF StoreInv, HistoryMatches
<1>2. HolderKnowsRow'
  BY DEF StoreInv, HolderKnowsRow, HeldRowsCurrent, bulkVars
<1>3. LoadedInHistory'
  BY DEF StoreInv, LoadedInHistory, Past
<1> QED
  BY <1>1, <1>2, <1>3 DEF StoreInv

(* Receiving a PATCH disturbs nothing that is known of the tables.         *)
LEMMA StorePatchReceive ==
    ASSUME TypeInv, StoreInv, NEW p \in Patches, NEW o \in OrderIds, NEW b \in Bodies,
           PatchReceive(p, o, b)
    PROVE  StoreInv'
<1>1. /\ UNCHANGED <<row, hist, bulkVars>>
      /\ \A q \in Patches \ {p} : /\ ppc'[q] = ppc[q] /\ target'[q] = target[q]
                                  /\ seen'[q] = seen[q] /\ reply'[q] = reply[q]
  BY DEF PatchReceive, dbVars, TypeInv, TypeOK
<1>2. ppc'[p] \in {"loading", "done"} /\ reply'[p] \in {"none", "400"}
  BY DEF PatchReceive, TypeInv, TypeOK, RequestShape, Past
<1> QED
  BY <1>1, <1>2, StoreQuietPatch

(* Refusing or failing a PATCH releases its row and changes nothing else.  *)
LEMMA StoreRefuse ==
    ASSUME TypeInv, StoreInv, NEW p \in Patches, NEW answer, answer # "200",
           Refuse(p, answer)
    PROVE  StoreInv'
<1>1. /\ UNCHANGED <<row, hist, bulkVars>>
      /\ \A q \in Patches \ {p} : /\ ppc'[q] = ppc[q] /\ target'[q] = target[q]
                                  /\ seen'[q] = seen[q] /\ reply'[q] = reply[q]
  BY DEF Refuse, dbVars, TypeInv, TypeOK
<1>2. ppc'[p] = "done" /\ reply'[p] = answer
  BY DEF Refuse, TypeInv, TypeOK
<1> QED
  BY <1>1, <1>2, StoreQuietPatch

(* The steps of a received PATCH, the conditional UPDATE and its commit    *)
(* among them, keep the store's invariant.                                 *)
LEMMA StorePatchStep ==
    ASSUME TypeInv, StoreInv, NEW p \in Patches, PatchStep(p)
    PROVE  StoreInv'
<1>1. CASE PatchNotFound(p) \/ PatchCancelled(p) \/ PatchConflict(p)
  BY <1>1, StoreRefuse DEF PatchNotFound, PatchCancelled, PatchConflict
<1>2. CASE PatchLoad(p)
  <2>1. /\ UNCHANGED <<row, hist, bulkVars>>
        /\ \A q \in Patches \ {p} : /\ ppc'[q] = ppc[q] /\ target'[q] = target[q]
                                    /\ seen'[q] = seen[q] /\ reply'[q] = reply[q]
        /\ ppc'[p] = "saving" /\ target'[p] = target[p] /\ seen'[p] = row[target[p]]
        /\ target[p] \in Existing
    BY <1>2 DEF PatchLoad, dbVars, TypeInv, TypeOK
  <2>2. /\ row[target[p]].version = Len(hist[target[p]])
        /\ row[target[p]].status = hist[target[p]][Len(hist[target[p]])].status
    BY <2>1 DEF StoreInv, HistoryMatches
  <2>3. row[target[p]].version \in Nat /\ row[target[p]].version >= 1
    BY <2>1 DEF TypeInv, TypeOK, Row, StoreInv, HistoryMatches
  <2>4. row[target[p]].version \in 1..Len(hist[target[p]])
    BY <2>2, <2>3
  <2> QED
    BY <2>1, <2>2, <2>4, StoreQuietPatch
<1>3. CASE PatchUpdate(p)
  <2> DEFINE o == target[p]
  <2>1. /\ ppc[p] = "saving" /\ o \in Existing /\ seen[p] \in Row /\ row[o] \in Row
        /\ row[o].version = seen[p].version
    BY <1>3 DEF PatchUpdate, VersionMatches, TypeInv, TypeOK, RequestShape, Past
  <2>2. row[o].status = seen[p].status
    BY <2>1 DEF StoreInv, HistoryMatches, LoadedInHistory, Past
  <2>3. row[o] = seen[p]
    BY <2>1, <2>2 DEF Row
  <2>4. HistoryMatches'
    BY <1>3 DEF StoreInv, HistoryMatches, PatchUpdate, dbVars
  <2>5. HolderKnowsRow'
    <3>1. o \notin locked /\ \A q \in Patches : ppc[q] = "committing" => target[q] # o
      BY <1>3 DEF PatchUpdate, RowLocked, LockedByPatch
    <3>2. /\ UNCHANGED <<row, target, seen, locked, held, written>>
          /\ \A q \in Patches : ppc'[q] = "committing" => q = p \/ ppc[q] = "committing"
      BY <1>3 DEF PatchUpdate, dbVars, bulkVars, TypeInv, TypeOK
    <3> QED
      BY <2>3, <3>1, <3>2 DEF StoreInv, HolderKnowsRow, HeldRowsCurrent
  <2>6. LoadedInHistory'
    BY <1>3 DEF StoreInv, LoadedInHistory, Past, PatchUpdate, dbVars, TypeInv, TypeOK
  <2> QED
    BY <2>4, <2>5, <2>6 DEF StoreInv
<1>4. CASE PatchCommit(p)
  <2> DEFINE o == target[p]
             e == [by |-> p, status |-> NewStatus(p)]
  <2>1. /\ ppc[p] = "committing" /\ o \in Existing /\ seen[p] \in Row
        /\ seen[p] = row[o] /\ o \notin locked
    BY <1>4 DEF PatchCommit, TypeInv, RequestShape, Past, StoreInv, HolderKnowsRow
  <2>2. /\ row \in [Existing -> Row] /\ hist \in [Existing -> Seq(Change)]
        /\ ppc \in [Patches -> {"idle", "loading", "saving", "committing",
                                "rereading", "publishing", "done"}]
    BY DEF TypeInv, TypeOK
  <2>3. /\ row'[o].version = row[o].version + 1 /\ row'[o].status = NewStatus(p)
        /\ hist'[o] = Append(hist[o], e)
        /\ \A x \in Existing \ {o} : row'[x] = row[x] /\ hist'[x] = hist[x]
    BY <1>4, <2>1, <2>2 DEF PatchCommit
  <2>4. e \in Change
    <3>1. NewStatus(p) \in Statuses
      BY <2>1, NewStatusType
    <3> QED
      BY <3>1 DEF Change, Writers
  <2>5. /\ Len(hist[o]) \in Nat /\ Len(hist'[o]) = Len(hist[o]) + 1
        /\ hist'[o][Len(hist[o]) + 1] = e
    BY <2>1, <2>2, <2>3, <2>4, AppendType
  <2>6. HistoryMatches'
    <3>1. row[o].version = Len(hist[o])
      BY <2>1 DEF StoreInv, HistoryMatches
    <3>2. /\ row'[o].version = Len(hist'[o]) /\ row'[o].version >= 1
          /\ row'[o].status = hist'[o][Len(hist'[o])].status
      BY <2>3, <2>5, <3>1
    <3>3. \A x \in Existing \ {o} :
             /\ row'[x].version = Len(hist'[x]) /\ row'[x].version >= 1
             /\ row'[x].status = hist'[x][Len(hist'[x])].status
      BY <2>3 DEF StoreInv, HistoryMatches
    <3> QED
      BY <3>2, <3>3 DEF HistoryMatches
  <2>7. UNCHANGED <<target, seen, reply, locked, held, written>>
        /\ \A q \in Patches : ppc'[q] = IF q = p THEN "rereading" ELSE ppc[q]
    BY <1>4, <2>2 DEF PatchCommit, bulkVars
  <2>8. HolderKnowsRow'
    <3>1. \A q \in Patches : ppc'[q] = "committing" =>
             ppc[q] = "committing" /\ target[q] # o /\ target[q] \in Existing
      BY <2>1, <2>7 DEF StoreInv, HolderKnowsRow, TypeInv, RequestShape, Past
    <3>2. locked \subseteq Existing
      BY DEF TypeInv, TypeOK
    <3> QED
      BY <2>1, <2>3, <2>7, <3>1, <3>2 DEF StoreInv, HolderKnowsRow, HeldRowsCurrent
  <2>9. LoadedInHistory'
    <3>1. \A x \in Existing : HistGrowth(x)
      BY <2>3, <2>4 DEF HistGrowth
    <3>2. ASSUME NEW q \in Patches,
                 \/ ppc[q] \in {"saving", "committing", "rereading", "publishing"}
                 \/ reply[q] = "200"
          PROVE  /\ seen[q].version \in 1..Len(hist'[target[q]])
                 /\ hist'[target[q]][seen[q].version].status = seen[q].status
      <4>1. target[q] \in Existing
        BY <3>2 DEF TypeInv, RequestShape, Past
      <4>2. /\ seen[q].version \in 1..Len(hist[target[q]])
            /\ hist[target[q]][seen[q].version].status = seen[q].status
        BY <3>2 DEF StoreInv, LoadedInHistory, Past
      <4> QED
        BY <3>1, <4>1, <4>2, GrowthKeepsPrefix
    <3> QED
      BY <2>1, <2>7, <3>2 DEF LoadedInHistory, Past
  <2> QED
    BY <2>6, <2>8, <2>9 DEF StoreInv
<1>5. CASE PatchReread(p)
  <2>1. /\ UNCHANGED <<row, hist, bulkVars, target, seen, reply>>
        /\ \A q \in Patches : ppc'[q] = IF q = p THEN "publishing" ELSE ppc[q]
        /\ ppc[p] = "rereading"
    BY <1>5 DEF PatchReread, dbVars, TypeInv, TypeOK
  <2>2. /\ seen[p].version \in 1..Len(hist[target[p]])
        /\ hist[target[p]][seen[p].version].status = seen[p].status
    BY <2>1 DEF StoreInv, LoadedInHistory, Past
  <2> QED
    BY <2>1, <2>2, StoreQuietPatch
<1>6. CASE PatchPublish(p)
  <2>1. /\ UNCHANGED <<row, hist, bulkVars, target, seen>>
        /\ \A q \in Patches : ppc'[q] = IF q = p THEN "done" ELSE ppc[q]
        /\ \A q \in Patches : reply'[q] = IF q = p THEN "200" ELSE reply[q]
        /\ ppc[p] = "publishing"
    BY <1>6 DEF PatchPublish, dbVars, TypeInv, TypeOK
  <2>2. /\ seen[p].version \in 1..Len(hist[target[p]])
        /\ hist[target[p]][seen[p].version].status = seen[p].status
    BY <2>1 DEF StoreInv, LoadedInHistory, Past
  <2> QED
    BY <2>1, <2>2, StoreQuietPatch
<1> QED
  BY <1>1, <1>2, <1>3, <1>4, <1>5, <1>6 DEF PatchStep

(* What the end of a transaction does to the rows and the history.         *)
LEMMA WrittenEffect ==
    ASSUME TypeInv, StoreInv, wpc = "applying", ApplyWritten
    PROVE  /\ \A o \in Existing : HistGrowth(o)
           /\ \A o \in Existing \ written :
                 row'[o] = row[o] /\ hist'[o] = hist[o] /\ flag'[o] = flag[o]
           /\ \A o \in written : o \in Existing /\ row[o].status # Cancelled
           /\ HistoryMatches'
<1>0. /\ chunk \in Chunks /\ written \subseteq locked /\ locked \subseteq Existing
      /\ row \in [Existing -> Row] /\ hist \in [Existing -> Seq(Change)]
      /\ flag \in [Existing -> Chunks \cup {NoOne}]
  BY DEF TypeInv, TypeOK, WorkerShape
<1>1. \A o \in written : o \in Existing /\ row[o].status # Cancelled
  BY <1>0 DEF StoreInv, HolderKnowsRow, HeldRowsCurrent
<1>2. CASE ChunkAction[chunk] = "flag"
  <2>1. row' = row /\ hist' = hist
    BY <1>2 DEF ApplyWritten
  <2>2. \A o \in Existing \ written : flag'[o] = flag[o]
    BY <1>0, <1>2 DEF ApplyWritten
  <2>3. HistoryMatches'
    BY <2>1 DEF StoreInv, HistoryMatches
  <2> QED
    BY <1>1, <2>1, <2>2, <2>3 DEF HistGrowth
<1>3. CASE ChunkAction[chunk] # "flag"
  <2> DEFINE e == [by |-> chunk, status |-> BulkStatus(chunk)]
  <2>1. BulkStatus(chunk) \in Statuses
    <3>1. ChunkAction[chunk] \in {"approve", "reject"}
      BY <1>0, <1>3, ChunksAssumption DEF Actions
    <3> QED
      BY <3>1 DEF BulkStatus, Statuses
  <2>2. e \in Change
    BY <1>0, <2>1 DEF Change, Writers
  <2>3. /\ \A o \in Existing \ written :
              row'[o] = row[o] /\ hist'[o] = hist[o] /\ flag'[o] = flag[o]
        /\ \A o \in written :
              /\ row'[o].version = row[o].version + 1
              /\ row'[o].status = BulkStatus(chunk)
              /\ hist'[o] = Append(hist[o], e)
    BY <1>0, <1>3 DEF ApplyWritten
  <2>4. \A o \in Existing : HistGrowth(o)
    BY <2>2, <2>3 DEF HistGrowth
  <2>5. ASSUME NEW o \in Existing
        PROVE  /\ row'[o].version = Len(hist'[o]) /\ row'[o].version >= 1
               /\ row'[o].status = hist'[o][Len(hist'[o])].status
    <3>1. /\ row[o].version = Len(hist[o]) /\ row[o].version >= 1
          /\ row[o].status = hist[o][Len(hist[o])].status
      BY DEF StoreInv, HistoryMatches
    <3>2. CASE o \in written
      <4>1. /\ Len(hist[o]) \in Nat /\ Len(hist'[o]) = Len(hist[o]) + 1
            /\ hist'[o][Len(hist[o]) + 1] = e
        BY <1>0, <2>2, <2>3, <3>2, AppendType
      <4> QED
        BY <2>3, <3>1, <3>2, <4>1
    <3>3. CASE o \notin written
      BY <2>3, <3>1, <3>3
    <3> QED
      BY <3>2, <3>3
  <2>6. HistoryMatches'
    BY <2>5 DEF HistoryMatches
  <2> QED
    BY <1>1, <2>3, <2>4, <2>6
<1> QED
  BY <1>2, <1>3

(* The end of a chunk, committed or rolled back, keeps the store's         *)
(* invariant.                                                              *)
LEMMA StoreChunkReturn ==
    ASSUME TypeInv, StoreInv, NEW done, NEW notDone, ChunkReturn(done, notDone),
           UNCHANGED dbVars \/ (wpc = "applying" /\ ApplyWritten)
    PROVE  StoreInv'
<1>1. /\ \A o \in Existing : HistGrowth(o)
      /\ \A o \in Existing \ written : row'[o] = row[o]
      /\ HistoryMatches'
  <2>1. CASE UNCHANGED dbVars
    BY <2>1 DEF dbVars, HistGrowth, StoreInv, HistoryMatches
  <2>2. CASE wpc = "applying" /\ ApplyWritten
    BY <2>2, WrittenEffect
  <2> QED
    BY <2>1, <2>2
<1>2. UNCHANGED patchVars /\ locked' = {} /\ written' = {}
  BY DEF ChunkReturn
<1>3. HolderKnowsRow'
  <2>1. \A p \in Patches : ppc[p] = "committing" =>
           target[p] \in Existing /\ target[p] \notin written
    BY DEF StoreInv, HolderKnowsRow, TypeInv, TypeOK, RequestShape, Past
  <2> QED
    BY <1>1, <1>2, <2>1 DEF StoreInv, HolderKnowsRow, HeldRowsCurrent, patchVars
<1>4. LoadedInHistory'
  <2>1. ASSUME NEW q \in Patches,
               \/ ppc[q] \in {"saving", "committing", "rereading", "publishing"}
               \/ reply[q] = "200"
        PROVE  /\ seen[q].version \in 1..Len(hist'[target[q]])
               /\ hist'[target[q]][seen[q].version].status = seen[q].status
    <3>1. target[q] \in Existing
      BY <2>1 DEF TypeInv, RequestShape, Past
    <3>2. /\ seen[q].version \in 1..Len(hist[target[q]])
          /\ hist[target[q]][seen[q].version].status = seen[q].status
      BY <2>1 DEF StoreInv, LoadedInHistory, Past
    <3> QED
      BY <1>1, <3>1, <3>2, GrowthKeepsPrefix
  <2> QED
    BY <1>2, <2>1 DEF LoadedInHistory, Past, patchVars
<1> QED
  BY <1>1, <1>3, <1>4 DEF StoreInv

(* A step of the worker that leaves the tables and its locks alone.        *)
LEMMA StoreQuietChunk ==
    ASSUME StoreInv, UNCHANGED <<row, hist, patchVars, locked, held, written>>
    PROVE  StoreInv'
<1>1. HistoryMatches'
  BY DEF StoreInv, HistoryMatches
<1>2. HolderKnowsRow'
  BY DEF StoreInv, HolderKnowsRow, HeldRowsCurrent, patchVars
<1>3. LoadedInHistory'
  BY DEF StoreInv, LoadedInHistory, Past, patchVars
<1> QED
  BY <1>1, <1>2, <1>3 DEF StoreInv

(* The steps of the bulk worker, the locking SELECT and the commit among   *)
(* them, keep the store's invariant.                                       *)
LEMMA StoreChunkStep ==
    ASSUME TypeInv, StoreInv, ChunkStep
    PROVE  StoreInv'
<1>1. ASSUME NEW c \in Chunks, ChunkTake(c) PROVE StoreInv'
  BY <1>1, StoreQuietChunk DEF ChunkTake, dbVars
<1>2. CASE ChunkReadExisting
  BY <1>2, StoreQuietChunk DEF ChunkReadExisting, dbVars
<1>3. CASE ChunkLock
  <2>1. UNCHANGED <<row, hist, patchVars, written>>
    BY <1>3 DEF ChunkLock, dbVars
  <2>2. /\ \A o \in locked' : ~LockedByPatch(o) /\ held'[o] = row[o]
        /\ written = {}
    BY <1>3 DEF ChunkLock, RowLocked, TypeInv, TypeOK, WorkerShape
  <2>3. HistoryMatches' /\ LoadedInHistory'
    BY <2>1 DEF StoreInv, HistoryMatches, LoadedInHistory, Past, patchVars
  <2>4. HolderKnowsRow'
    BY <2>1, <2>2 DEF StoreInv, HolderKnowsRow, HeldRowsCurrent, LockedByPatch, patchVars
  <2> QED
    BY <2>3, <2>4 DEF StoreInv
<1>4. ASSUME NEW o \in todo, ChunkRow(o) PROVE StoreInv'
  <2>1. UNCHANGED <<row, hist, patchVars, locked, held>>
    BY <1>4 DEF ChunkRow, dbVars
  <2>2. written' = written \/ (written' = written \cup {o} /\ held[o].status # Cancelled)
    BY <1>4, ChunkRowOutcome
  <2>3. HistoryMatches' /\ LoadedInHistory'
    BY <2>1 DEF StoreInv, HistoryMatches, LoadedInHistory, Past, patchVars
  <2>4. HolderKnowsRow'
    BY <2>1, <2>2 DEF StoreInv, HolderKnowsRow, HeldRowsCurrent, patchVars
  <2> QED
    BY <2>3, <2>4 DEF StoreInv
<1>5. CASE ChunkCommit
  BY <1>5, StoreChunkReturn DEF ChunkCommit
<1> QED
  BY <1>1, <1>2, <1>3, <1>4, <1>5 DEF ChunkStep

(* Failing calls keep the store's invariant: what a transaction wrote is   *)
(* undone, or all of it is kept.                                           *)
LEMMA StoreFault ==
    ASSUME TypeInv, StoreInv, Fault
    PROVE  StoreInv'
<1>1. CASE ChunkFail
  BY <1>1, StoreChunkReturn DEF ChunkFail
<1>2. CASE ChunkCommitUnknown
  BY <1>2, StoreChunkReturn DEF ChunkCommitUnknown
<1>3. ASSUME NEW p \in Patches, PatchFail(p) PROVE StoreInv'
  BY <1>3, StoreRefuse DEF PatchFail
<1> QED
  BY <1>1, <1>2, <1>3 DEF Fault

(* Every step keeps the store's invariant.                                 *)
THEOREM StoreNext == TypeInv /\ StoreInv /\ [Next]_vars => StoreInv'
<1> SUFFICES ASSUME TypeInv, StoreInv, [Next]_vars PROVE StoreInv'
  OBVIOUS
<1>1. CASE UNCHANGED vars
  BY <1>1, StoreQuietChunk DEF vars, dbVars, patchVars, bulkVars
<1>2. CASE Next
  BY <1>1, <1>2, StorePatchReceive, StorePatchStep, StoreChunkStep, StoreFault
     DEF Next, Idle
<1> QED
  BY <1>1, <1>2

(* The invariant: rows match histories, locks exclude each other, and      *)
(* every loaded row is a point of its order's history.                     *)
THEOREM StoreInvariant == Spec => [](TypeInv /\ StoreInv)
BY TypeInit, StoreInit, TypeNext, StoreNext, PTL DEF Spec

(* No update is lost: versions count the changes of an order, and its row  *)
(* is what its last change made it.                                        *)
THEOREM NoLostUpdate == Spec => []HistoryMatches
<1>1. TypeInv /\ StoreInv => HistoryMatches
  BY DEF StoreInv
<1> QED
  BY <1>1, StoreInvariant, PTL

(* The rows a chunk locked stay as it read them until it ends.             *)
THEOREM LocksHold == Spec => []HeldRowsCurrent
<1>1. TypeInv /\ StoreInv => HeldRowsCurrent
  BY DEF StoreInv, HolderKnowsRow
<1> QED
  BY <1>1, StoreInvariant, PTL

(* A step never changes the row or the flag of a cancelled order.          *)
LEMMA CancelledStep ==
    ASSUME TypeInv, StoreInv, [Next]_vars, NEW o \in Existing, row[o].status = Cancelled
    PROVE  row'[o] = row[o] /\ flag'[o] = flag[o]
<1>1. CASE UNCHANGED dbVars
  BY <1>1 DEF dbVars
<1>2. ASSUME NEW p \in Patches, PatchCommit(p)
      PROVE  row'[o] = row[o] /\ flag'[o] = flag[o]
  <2>1. seen[p] = row[target[p]] /\ seen[p].status # Cancelled
    BY <1>2 DEF PatchCommit, StoreInv, HolderKnowsRow, TypeInv, RequestShape, Past
  <2>2. o # target[p]
    BY <2>1
  <2> QED
    BY <1>2, <2>2 DEF PatchCommit, TypeInv, TypeOK
<1>3. CASE wpc = "applying" /\ ApplyWritten
  BY <1>3, WrittenEffect
<1>4. \/ UNCHANGED dbVars \/ (wpc = "applying" /\ ApplyWritten)
      \/ \E p \in Patches : PatchCommit(p)
  <2>1. CASE UNCHANGED vars
    BY <2>1 DEF vars
  <2>2. ASSUME NEW p \in Patches, NEW x \in OrderIds, NEW b \in Bodies, PatchReceive(p, x, b)
        PROVE  UNCHANGED dbVars
    BY <2>2 DEF PatchReceive
  <2>3. ASSUME NEW p \in Patches, PatchStep(p) PROVE UNCHANGED dbVars \/ PatchCommit(p)
    BY <2>3 DEF PatchStep, PatchNotFound, PatchCancelled, PatchLoad, PatchUpdate,
                PatchConflict, PatchReread, PatchPublish, Refuse
  <2>4. CASE ChunkStep
    BY <2>4 DEF ChunkStep, ChunkTake, ChunkReadExisting, ChunkLock, ChunkRow, ChunkCommit
  <2>5. CASE Fault
    BY <2>5 DEF Fault, ChunkFail, ChunkCommitUnknown, PatchFail, Refuse
  <2> QED
    BY <2>1, <2>2, <2>3, <2>4, <2>5 DEF Next, Idle
<1> QED
  BY <1>1, <1>2, <1>3, <1>4

(* Cancelled is final, whatever was loaded before the cancellation.        *)
THEOREM CancelledIsFinal == Spec => CancelledUntouched
<1>1. TypeInv /\ StoreInv /\ [Next]_vars =>
         [\A o \in Existing : row[o].status = Cancelled =>
             row'[o] = row[o] /\ flag'[o] = flag[o]]_vars
  BY CancelledStep
<1> QED
  BY <1>1, StoreInvariant, PTL DEF Spec, CancelledUntouched
-----------------------------------------------------------------------------
(* The third layer: the counts of the chunk at work.                       *)

(* Loop, commit and failure account for each id of the chunk once.         *)
LEMMA AccountingReturn ==
    ASSUME TypeInv, ChunkAccounting, wpc # "idle", NEW done \in Nat, NEW notDone \in Nat,
           ChunkReturn(done, notDone), done + notDone = Len(ChunkIds[chunk])
    PROVE  ChunkAccounting'
BY DEF TypeInv, TypeOK, WorkerShape, ChunkAccounting, ChunkReturn

(* Each id of a chunk stays counted once, through every step.              *)
LEMMA AccountingStep ==
    ASSUME TypeInv, ChunkAccounting, [Next]_vars
    PROVE  ChunkAccounting'
<1>0. /\ IsFiniteSet(locked) /\ IsFiniteSet(todo) /\ IsFiniteSet(written) /\ IsFiniteSet(found)
      /\ Cardinality(todo) \in Nat /\ Cardinality(written) \in Nat
  <2>1. todo \subseteq Existing /\ written \subseteq Existing
    BY DEF TypeInv, TypeOK
  <2> QED
    BY <2>1, OrderIdsAssumption, FS_Subset, FS_CardinalityType DEF TypeInv, TypeOK
<1>1. CASE UNCHANGED bulkVars
  BY <1>1 DEF ChunkAccounting, bulkVars
<1>2. ASSUME NEW c \in Chunks, ChunkTake(c) PROVE ChunkAccounting'
  BY <1>2 DEF ChunkAccounting, ChunkTake, TypeInv, TypeOK
<1>3. CASE ChunkReadExisting
  BY <1>3 DEF ChunkAccounting, ChunkReadExisting
<1>4. CASE ChunkLock
  <2>1. chunk \in Chunks /\ found = IdsOf(chunk) \cap Existing /\ locked = {}
    BY <1>4 DEF ChunkLock, TypeInv, WorkerShape
  <2>2. locked' \subseteq found /\ written' = {} /\ todo' = locked'
    BY <1>4, <2>1 DEF ChunkLock, TypeInv, TypeOK
  <2>3. /\ IsFiniteSet(locked') /\ found \cap locked' = locked'
        /\ Cardinality(found \ locked') = Cardinality(found) - Cardinality(found \cap locked')
    BY <1>0, <2>2, FS_Subset, FS_Difference
  <2>4. /\ Len(ChunkIds[chunk]) \in Nat /\ Cardinality(found) \in Nat
        /\ Cardinality(locked') \in Nat /\ Cardinality(found \ locked') \in Nat
    BY <2>1, <2>2, ChunkLength
  <2>5. Cardinality({}) = 0
    BY FS_EmptySet
  <2>6. /\ completed' = Cardinality(found \ locked')
        /\ failed' = Len(ChunkIds[chunk]) - Cardinality(found)
        /\ UNCHANGED <<chunk, found, result>>
    BY <1>4 DEF ChunkLock, NotFoundCount
  <2>7. completed' + failed' + Cardinality(todo') = Len(ChunkIds[chunk])
    <3>1. Cardinality(todo') = Cardinality(locked')
      BY <2>2
    <3>2. completed' = Cardinality(found) - Cardinality(locked')
      BY <2>3, <2>6
    <3> QED
      BY <2>4, <2>6, <3>1, <3>2
  <2>8. completed' = Cardinality(written') + Cardinality(found' \ locked')
    BY <2>2, <2>4, <2>5, <2>6
  <2> QED
    BY <2>6, <2>7, <2>8 DEF ChunkAccounting
<1>5. ASSUME NEW o \in todo, ChunkRow(o) PROVE ChunkAccounting'
  <2>1. /\ todo' = todo \ {o} /\ UNCHANGED <<wpc, chunk, found, locked, result>>
        /\ wpc = "applying" /\ o \notin written
        /\ \/ written' = written \cup {o} /\ completed' = completed + 1 /\ failed' = failed
           \/ written' = written /\ completed' = completed /\ failed' = failed + 1
    BY <1>5, ChunkRowOutcome DEF ChunkRow, TypeInv, WorkerShape
  <2>2. Cardinality(todo \ {o}) = Cardinality(todo) - 1
    BY <1>0, FS_RemoveElement
  <2>3. Cardinality(written \cup {o}) = Cardinality(written) + 1
    BY <1>0, <2>1, FS_AddElement
  <2>4. /\ completed + failed + Cardinality(todo) = Len(ChunkIds[chunk])
        /\ completed = Cardinality(written) + Cardinality(found \ locked)
        /\ completed \in Nat /\ failed \in Nat /\ Cardinality(found \ locked) \in Nat
    <3>1. IsFiniteSet(found \ locked)
      BY <1>0, FS_Difference
    <3> QED
      BY <2>1, <3>1, FS_CardinalityType DEF ChunkAccounting, TypeInv, TypeOK
  <2>5. completed' + failed' + Cardinality(todo') = Len(ChunkIds[chunk])
    <3>1. Cardinality(todo') = Cardinality(todo) - 1
      BY <2>1, <2>2
    <3>2. completed' + failed' = completed + failed + 1
      BY <2>1, <2>4
    <3>3. completed' \in Nat /\ failed' \in Nat
      BY <2>1, <2>4
    <3> QED
      BY <1>0, <2>4, <3>1, <3>2, <3>3
  <2>6. completed' = Cardinality(written') + Cardinality(found \ locked)
    <3>1. CASE written' = written \cup {o} /\ completed' = completed + 1
      <4>1. Cardinality(written') = Cardinality(written) + 1
        BY <2>3, <3>1
      <4> QED
        BY <1>0, <2>4, <3>1, <4>1
    <3>2. CASE written' = written /\ completed' = completed
      <4>1. Cardinality(written') = Cardinality(written)
        BY <3>2
      <4> QED
        BY <2>4, <3>2, <4>1
    <3> QED
      BY <2>1, <3>1, <3>2
  <2> QED
    BY <2>1, <2>5, <2>6 DEF ChunkAccounting
<1>6. CASE ChunkCommit
  <2>1. /\ completed \in Nat /\ failed \in Nat /\ wpc = "applying" /\ todo = {}
        /\ ChunkReturn(completed, failed)
    BY <1>6 DEF ChunkCommit, TypeInv, TypeOK
  <2>2. Cardinality(todo) = 0
    BY <2>1, FS_EmptySet
  <2>3. completed + failed = Len(ChunkIds[chunk])
    BY <2>1, <2>2 DEF ChunkAccounting
  <2> QED
    BY <2>1, <2>3, AccountingReturn
<1>7. CASE ChunkFail \/ ChunkCommitUnknown
  <2>1. wpc # "idle" /\ chunk \in Chunks
    BY <1>7 DEF ChunkFail, ChunkCommitUnknown, TypeInv, WorkerShape
  <2>2. Len(ChunkIds[chunk]) \in Nat
    BY <2>1, ChunkLength
  <2>3. ChunkReturn(0, Len(ChunkIds[chunk])) /\ 0 + Len(ChunkIds[chunk]) = Len(ChunkIds[chunk])
    BY <1>7, <2>2 DEF ChunkFail, ChunkCommitUnknown
  <2> QED
    BY <2>1, <2>2, <2>3, AccountingReturn
<1>8. ASSUME NEW p \in Patches, NEW o \in OrderIds, NEW b \in Bodies, PatchReceive(p, o, b)
      PROVE  UNCHANGED bulkVars
  BY <1>8 DEF PatchReceive
<1>9. ASSUME NEW p \in Patches, PatchStep(p) \/ PatchFail(p) PROVE UNCHANGED bulkVars
  BY <1>9 DEF PatchStep, PatchNotFound, PatchCancelled, PatchLoad, PatchUpdate, PatchConflict,
              PatchCommit, PatchReread, PatchPublish, PatchFail, Refuse
<1>10. CASE UNCHANGED vars
  BY <1>1, <1>10 DEF vars
<1> QED
  BY <1>1, <1>2, <1>3, <1>4, <1>5, <1>6, <1>7, <1>8, <1>9, <1>10
     DEF Next, ChunkStep, Fault, Idle

(* A job's counts are complete: every id of every chunk is counted once as *)
(* completed or failed, whatever is missing, repeated, cancelled, locked   *)
(* by a PATCH or lost with the connection (ApplyChunkAsync).               *)
THEOREM EveryIdIsCounted == Spec => []ChunkAccounting
<1>1. Init => ChunkAccounting
  BY DEF Init, ChunkAccounting
<1>2. TypeInv /\ ChunkAccounting /\ [Next]_vars => ChunkAccounting'
  BY AccountingStep
<1> QED
  BY <1>1, <1>2, TypeInit, TypeNext, PTL DEF Spec
-----------------------------------------------------------------------------
(* The fourth layer: who is in the history, answers and events.            *)
Refusals == {"400", "404", "409 cancelled", "409 version"}

(* What the invariant says of one request.                                 *)
RequestAnswered(q) ==
    /\ Past(q, {"idle", "loading", "saving", "committing"}) \/ reply[q] \in Refusals =>
          \A o \in Existing : ~WroteTo(q, o)
    /\ Past(q, {"rereading", "publishing"}) \/ reply[q] = "200" =>
          /\ Len(hist[target[q]]) > seen[q].version
          /\ hist[target[q]][seen[q].version + 1] = [by |-> q, status |-> NewStatus(q)]
    /\ reply[q] = "409 version" => Len(hist[target[q]]) > seen[q].version
    /\ Past(q, {"publishing"}) =>
          \E j \in 1..Len(hist[target[q]]) :
             j > seen[q].version /\ hist[target[q]][j].status = shown[q]

ChunksUnwritten ==
    \A c \in Chunks : result[c].state # "done" => \A o \in Existing : ~WroteTo(c, o)

AnswersInv == (\A q \in Patches : RequestAnswered(q)) /\ ChunksUnwritten /\ EventsExplained

(* A step's effect on the history of o, when w is the one that writes.     *)
GrownBy(w, o) ==
    \/ hist'[o] = hist[o]
    \/ \E s \in Statuses : hist'[o] = Append(hist[o], [by |-> w, status |-> s])

(* A history only grows: what it said stays at its place.                  *)
LEMMA GrownByFacts ==
    ASSUME TypeInv, NEW w \in Writers, NEW o \in Existing, GrownBy(w, o)
    PROVE  /\ Len(hist[o]) \in Nat /\ Len(hist'[o]) \in Nat /\ Len(hist[o]) <= Len(hist'[o])
           /\ \A k \in 1..Len(hist[o]) : hist'[o][k] = hist[o][k]
           /\ \A v : (\E k \in 1..Len(hist'[o]) : hist'[o][k].by = v) => v = w \/ WroteTo(v, o)
<1>1. hist[o] \in Seq(Change)
  BY DEF TypeInv, TypeOK
<1>2. CASE hist'[o] = hist[o]
  BY <1>1, <1>2 DEF WroteTo
<1>3. ASSUME NEW s \in Statuses, hist'[o] = Append(hist[o], [by |-> w, status |-> s])
      PROVE  /\ Len(hist[o]) \in Nat /\ Len(hist'[o]) \in Nat /\ Len(hist[o]) <= Len(hist'[o])
             /\ \A k \in 1..Len(hist[o]) : hist'[o][k] = hist[o][k]
             /\ \A v : (\E k \in 1..Len(hist'[o]) : hist'[o][k].by = v) => v = w \/ WroteTo(v, o)
  <2> DEFINE e == [by |-> w, status |-> s]
  <2>1. e \in Change /\ e.by = w
    BY DEF Change
  <2> HIDE DEF e
  <2>2. /\ Len(hist[o]) \in Nat /\ Len(hist'[o]) = Len(hist[o]) + 1
        /\ \A k \in 1..Len(hist[o]) : hist'[o][k] = hist[o][k]
        /\ hist'[o][Len(hist[o]) + 1] = e
    <3>1. hist'[o] = Append(hist[o], e)
      BY <1>3 DEF e
    <3> QED
      BY <1>1, <2>1, <3>1, AppendType
  <2>3. ASSUME NEW v, NEW k \in 1..Len(hist'[o]), hist'[o][k].by = v
        PROVE  v = w \/ WroteTo(v, o)
    <3>1. CASE k \in 1..Len(hist[o])
      BY <2>2, <2>3, <3>1 DEF WroteTo
    <3>2. CASE k = Len(hist[o]) + 1
      BY <2>1, <2>2, <2>3, <3>2
    <3> QED
      BY <2>2, <3>1, <3>2
  <2> QED
    BY <2>2, <2>3
<1> QED
  BY <1>2, <1>3 DEF GrownBy

(* A position beyond the loaded version stays beyond it.                   *)
LEMMA StillLater ==
    ASSUME NEW v \in Nat, NEW m \in Nat, NEW n \in Nat, m > v, m <= n
    PROVE  n > v
  OBVIOUS

(* A request that takes no part in a step stays answered as it was.        *)
LEMMA OthersKept ==
    ASSUME TypeInv, NEW w \in Writers, \A o \in Existing : GrownBy(w, o),
           NEW q \in Patches, q # w, RequestAnswered(q),
           ppc'[q] = ppc[q], target'[q] = target[q], body'[q] = body[q],
           seen'[q] = seen[q], shown'[q] = shown[q], reply'[q] = reply[q]
    PROVE  RequestAnswered(q)'
<1>1. \A o \in Existing :
         (\E k \in 1..Len(hist'[o]) : hist'[o][k].by = q) => WroteTo(q, o)
  BY GrownByFacts
<1>2. NewStatus(q)' = NewStatus(q)
  BY DEF NewStatus
<1>3. Past(q, {"idle", "loading", "saving", "committing"}) \/ reply[q] \in Refusals =>
         (\A o \in Existing : ~WroteTo(q, o))'
  BY <1>1 DEF RequestAnswered, WroteTo
<1>4. ASSUME Past(q, {"rereading", "publishing"}) \/ reply[q] = "200" \/ reply[q] = "409 version"
      PROVE  /\ target[q] \in Existing /\ seen[q].version \in Nat
             /\ Len(hist[target[q]]) \in Nat /\ Len(hist'[target[q]]) \in Nat
             /\ Len(hist[target[q]]) <= Len(hist'[target[q]])
             /\ \A k \in 1..Len(hist[target[q]]) : hist'[target[q]][k] = hist[target[q]][k]
  <2>1. target[q] \in Existing /\ seen[q] \in Row
    BY <1>4 DEF TypeInv, RequestShape, Past
  <2> QED
    BY <2>1, GrownByFacts DEF Row
<1>5. Past(q, {"rereading", "publishing"}) \/ reply[q] = "200" =>
          /\ Len(hist'[target[q]]) > seen[q].version
          /\ hist'[target[q]][seen[q].version + 1] = [by |-> q, status |-> NewStatus(q)]
  <2> SUFFICES ASSUME Past(q, {"rereading", "publishing"}) \/ reply[q] = "200"
               PROVE  /\ Len(hist'[target[q]]) > seen[q].version
                      /\ hist'[target[q]][seen[q].version + 1] = [by |-> q, status |-> NewStatus(q)]
    OBVIOUS
  <2>0. /\ target[q] \in Existing /\ seen[q].version \in Nat
        /\ Len(hist[target[q]]) \in Nat /\ Len(hist'[target[q]]) \in Nat
        /\ Len(hist[target[q]]) <= Len(hist'[target[q]])
        /\ \A k \in 1..Len(hist[target[q]]) : hist'[target[q]][k] = hist[target[q]][k]
    BY ONLY <1>4, Past(q, {"rereading", "publishing"}) \/ reply[q] = "200", Zenon
  <2>1. /\ Len(hist[target[q]]) > seen[q].version
        /\ hist[target[q]][seen[q].version + 1] = [by |-> q, status |-> NewStatus(q)]
    BY Zenon DEF RequestAnswered
  <2>2. seen[q].version + 1 \in 1..Len(hist[target[q]])
    BY <2>0, <2>1
  <2>3. hist'[target[q]][seen[q].version + 1] = hist[target[q]][seen[q].version + 1]
    BY <2>0, <2>2
  <2>4. Len(hist'[target[q]]) > seen[q].version
    BY <2>0, <2>1
  <2> QED
    BY <2>1, <2>3, <2>4
<1>6. reply[q] = "409 version" => Len(hist'[target[q]]) > seen[q].version
  <2> SUFFICES ASSUME reply[q] = "409 version" PROVE Len(hist'[target[q]]) > seen[q].version
    OBVIOUS
  <2>0. /\ target[q] \in Existing /\ seen[q].version \in Nat
        /\ Len(hist[target[q]]) \in Nat /\ Len(hist'[target[q]]) \in Nat
        /\ Len(hist[target[q]]) <= Len(hist'[target[q]])
        /\ \A k \in 1..Len(hist[target[q]]) : hist'[target[q]][k] = hist[target[q]][k]
    BY ONLY <1>4, reply[q] = "409 version", Zenon
  <2>1. Len(hist[target[q]]) > seen[q].version
    BY Zenon DEF RequestAnswered
  <2>2. seen[q].version \in Nat /\ Len(hist[target[q]]) \in Nat /\ Len(hist'[target[q]]) \in Nat
    BY <2>0
  <2>3. Len(hist[target[q]]) <= Len(hist'[target[q]])
    BY <2>0
  <2> QED
    BY <2>1, <2>2, <2>3, StillLater
<1>7. Past(q, {"publishing"}) =>
          \E j \in 1..Len(hist'[target[q]]) :
             j > seen[q].version /\ hist'[target[q]][j].status = shown[q]
  <2> SUFFICES ASSUME Past(q, {"publishing"})
               PROVE  \E j \in 1..Len(hist'[target[q]]) :
                         j > seen[q].version /\ hist'[target[q]][j].status = shown[q]
    OBVIOUS
  <2>1. PICK j \in 1..Len(hist[target[q]]) :
           j > seen[q].version /\ hist[target[q]][j].status = shown[q]
    BY DEF RequestAnswered
  <2>2. Past(q, {"rereading", "publishing"})
    BY DEF Past
  <2>3. j \in 1..Len(hist'[target[q]]) /\ hist'[target[q]][j] = hist[target[q]][j]
    BY <1>4, <2>1, <2>2
  <2> QED
    BY <2>1, <2>3
<1>8. \A S : Past(q, S)' <=> Past(q, S)
  BY DEF Past
<1> QED
  BY <1>2, <1>3, <1>5, <1>6, <1>7, <1>8 DEF RequestAnswered, Past

(* So does what the events tell.                                           *)
LEMMA EventsKept ==
    ASSUME TypeInv, EventsExplained, NEW w \in Writers, \A o \in Existing : GrownBy(w, o),
           UNCHANGED events
    PROVE  EventsExplained'
<1> SUFFICES ASSUME NEW n \in 1..Len(events)
             PROVE  /\ events[n].old # events[n].new
                    /\ \E i, j \in 1..Len(hist'[events[n].id]) :
                          i < j /\ hist'[events[n].id][i].status = events[n].old
                                /\ hist'[events[n].id][j].status = events[n].new
  BY DEF EventsExplained
<1> DEFINE e == events[n]
<1>1. e \in Event /\ e.id \in Existing
  <2>1. events \in Seq(Event)
    BY DEF TypeInv, TypeOK
  <2>2. e \in Event
    BY <2>1
  <2> QED
    BY <2>2 DEF Event
<1>2. PICK i, j \in 1..Len(hist[e.id]) :
         i < j /\ hist[e.id][i].status = e.old /\ hist[e.id][j].status = e.new
  BY DEF EventsExplained
<1>3. /\ Len(hist[e.id]) \in Nat /\ Len(hist'[e.id]) \in Nat /\ Len(hist[e.id]) <= Len(hist'[e.id])
      /\ \A k \in 1..Len(hist[e.id]) : hist'[e.id][k] = hist[e.id][k]
  BY <1>1, GrownByFacts
<1>4. /\ i \in 1..Len(hist'[e.id]) /\ j \in 1..Len(hist'[e.id])
      /\ hist'[e.id][i] = hist[e.id][i] /\ hist'[e.id][j] = hist[e.id][j]
  <2> DEFINE m == Len(hist[e.id])
             n2 == Len(hist'[e.id])
  <2>1. i \in 1..m /\ j \in 1..m /\ m \in Nat /\ n2 \in Nat /\ m <= n2
    BY <1>2, <1>3
  <2>2. hist'[e.id][i] = hist[e.id][i] /\ hist'[e.id][j] = hist[e.id][j]
    BY <1>2, <1>3
  <2> HIDE DEF m, n2
  <2>3. i \in 1..n2 /\ j \in 1..n2
    BY <2>1
  <2> QED
    BY <2>2, <2>3 DEF n2
<1> QED
  BY <1>2, <1>4 DEF EventsExplained

(* No request is answered and no event published at the start.             *)
LEMMA AnswersInit == Init => AnswersInv
<1> SUFFICES ASSUME Init PROVE AnswersInv
  OBVIOUS
<1>1. \A o \in Existing : Len(hist[o]) = 1 /\ hist[o][1].by = NoOne
  BY DEF Init
<1>2. \A w \in Patches \cup Chunks : \A o \in Existing : ~WroteTo(w, o)
  BY <1>1, RequestsAssumption DEF WroteTo
<1>3. \A q \in Patches : RequestAnswered(q)
  BY <1>2 DEF Init, RequestAnswered, Past, Refusals
<1>4. ChunksUnwritten
  BY <1>2 DEF ChunksUnwritten
<1>5. EventsExplained
  BY DEF Init, EventsExplained
<1> QED
  BY <1>3, <1>4, <1>5 DEF AnswersInv

(* A request's own step that does not commit.                              *)
LEMMA OwnStepKept ==
    ASSUME TypeInv, AnswersInv, NEW p \in Patches, UNCHANGED <<hist, result>>,
           \A q \in Patches \ {p} :
              /\ ppc'[q] = ppc[q] /\ target'[q] = target[q] /\ body'[q] = body[q]
              /\ seen'[q] = seen[q] /\ shown'[q] = shown[q] /\ reply'[q] = reply[q],
           RequestAnswered(p)', EventsExplained'
    PROVE  AnswersInv'
<1>1. \A o \in Existing : GrownBy(p, o)
  BY DEF GrownBy
<1>2. ASSUME NEW q \in Patches PROVE RequestAnswered(q)'
  <2>1. CASE q = p
    BY <2>1
  <2>2. CASE q # p
    <3>1. p \in Writers
      BY DEF Writers
    <3> QED
      BY <1>1, <2>2, <3>1, OthersKept DEF AnswersInv
  <2> QED
    BY <2>1, <2>2
<1>3. ChunksUnwritten'
  BY DEF AnswersInv, ChunksUnwritten, WroteTo
<1> QED
  BY <1>2, <1>3 DEF AnswersInv

(* Requests that are not past their commit have changed nothing, and a     *)
(* refusal keeps that.                                                     *)
LEMMA AnswersEarly ==
    ASSUME TypeInv, AnswersInv, NEW p \in Patches,
           UNCHANGED <<hist, result, events>>,
           \A q \in Patches \ {p} :
              /\ ppc'[q] = ppc[q] /\ target'[q] = target[q] /\ body'[q] = body[q]
              /\ seen'[q] = seen[q] /\ shown'[q] = shown[q] /\ reply'[q] = reply[q],
           \/ ppc[p] \in {"idle", "loading", "saving", "committing"}
           \/ ppc'[p] = "done" /\ reply'[p] = "failed",
           ppc'[p] \notin {"rereading", "publishing"}, reply'[p] # "200",
           reply'[p] = "409 version" => Len(hist[target'[p]]) > seen'[p].version
    PROVE  AnswersInv'
<1>1. RequestAnswered(p)'
  BY DEF AnswersInv, RequestAnswered, Past, WroteTo, Refusals
<1>2. EventsExplained'
  BY DEF AnswersInv, EventsExplained
<1> QED
  BY <1>1, <1>2, OwnStepKept

(* A refused request has changed nothing.                                  *)
LEMMA AnswersRefuse ==
    ASSUME TypeInv, AnswersInv, NEW p \in Patches, NEW answer, Refuse(p, answer),
           answer \in {"404", "409 cancelled", "409 version", "failed"},
           answer # "failed" => ppc[p] \in {"loading", "saving"},
           answer = "409 version" => Len(hist[target[p]]) > seen[p].version
    PROVE  AnswersInv'
<1>1. /\ UNCHANGED <<hist, result, events>> /\ ppc'[p] = "done" /\ reply'[p] = answer
      /\ target'[p] = target[p] /\ seen'[p] = seen[p]
      /\ \A q \in Patches \ {p} :
            /\ ppc'[q] = ppc[q] /\ target'[q] = target[q] /\ body'[q] = body[q]
            /\ seen'[q] = seen[q] /\ shown'[q] = shown[q] /\ reply'[q] = reply[q]
  BY DEF Refuse, dbVars, bulkVars, TypeInv, TypeOK
<1> QED
  BY <1>1, AnswersEarly

(* Every step of a PATCH after its receipt.                                *)
LEMMA AnswersPatchStep ==
    ASSUME TypeInv, StoreInv, AnswersInv, NEW p \in Patches, PatchStep(p)
    PROVE  AnswersInv'
<1>1. CASE PatchNotFound(p) \/ PatchCancelled(p)
  BY <1>1, AnswersRefuse DEF PatchNotFound, PatchCancelled
<1>2. CASE PatchConflict(p)
  <2>1. /\ target[p] \in Existing /\ seen[p].version \in 1..Len(hist[target[p]])
        /\ row[target[p]].version = Len(hist[target[p]])
        /\ row[target[p]].version # seen[p].version /\ row[target[p]].version \in Nat
    BY <1>2 DEF PatchConflict, VersionMatches, TypeInv, TypeOK, Row, RequestShape, Past,
                StoreInv, LoadedInHistory, HistoryMatches
  <2>2. Len(hist[target[p]]) > seen[p].version
    BY <2>1
  <2> QED
    BY <1>2, <2>2, AnswersRefuse DEF PatchConflict
<1>3. CASE PatchLoad(p) \/ PatchUpdate(p)
  <2>1. /\ UNCHANGED <<hist, result, events, reply>>
        /\ ppc[p] \in {"loading", "saving"} /\ ppc'[p] \in {"saving", "committing"}
        /\ \A q \in Patches \ {p} :
              /\ ppc'[q] = ppc[q] /\ target'[q] = target[q] /\ body'[q] = body[q]
              /\ seen'[q] = seen[q] /\ shown'[q] = shown[q] /\ reply'[q] = reply[q]
    BY <1>3 DEF PatchLoad, PatchUpdate, dbVars, bulkVars, TypeInv, TypeOK
  <2>2. reply[p] = "none"
    BY <2>1 DEF TypeInv, RequestShape, Past
  <2> QED
    BY <2>1, <2>2, AnswersEarly
<1>4. CASE PatchReread(p)
  <2>1. /\ UNCHANGED <<row, hist, result, events, target, body, seen, reply>>
        /\ ppc[p] = "rereading" /\ ppc'[p] = "publishing" /\ shown'[p] = row[target[p]].status
        /\ \A q \in Patches \ {p} : ppc'[q] = ppc[q] /\ shown'[q] = shown[q]
    BY <1>4 DEF PatchReread, dbVars, bulkVars, TypeInv, TypeOK
  <2>2. /\ target[p] \in Existing /\ Len(hist[target[p]]) \in Nat /\ seen[p].version \in Nat
        /\ Len(hist[target[p]]) > seen[p].version
        /\ hist[target[p]][Len(hist[target[p]])].status = row[target[p]].status
        /\ reply[p] = "none"
    <3>1. target[p] \in Existing /\ seen[p] \in Row /\ reply[p] = "none"
      BY <2>1 DEF TypeInv, RequestShape, Past
    <3>2. hist[target[p]] \in Seq(Change)
      BY <3>1 DEF TypeInv, TypeOK
    <3>3. hist[target[p]][Len(hist[target[p]])].status = row[target[p]].status
      BY <3>1 DEF StoreInv, HistoryMatches
    <3>4. Past(p, {"rereading", "publishing"})
      BY <2>1 DEF Past
    <3>5. Len(hist[target[p]]) > seen[p].version
      BY <3>4, Zenon DEF AnswersInv, RequestAnswered
    <3> QED
      BY <3>1, <3>2, <3>3, <3>5 DEF Row
  <2>3. NewStatus(p)' = NewStatus(p)
    BY <2>1 DEF NewStatus
  <2>4. /\ Len(hist[target[p]]) \in 1..Len(hist[target[p]])
        /\ hist[target[p]][seen[p].version + 1] = [by |-> p, status |-> NewStatus(p)]
    <3>1. Past(p, {"rereading", "publishing"})
      BY <2>1 DEF Past
    <3>2. hist[target[p]][seen[p].version + 1] = [by |-> p, status |-> NewStatus(p)]
      BY <3>1, Zenon DEF AnswersInv, RequestAnswered
    <3>3. Len(hist[target[p]]) \in 1..Len(hist[target[p]])
      BY <2>2
    <3> QED
      BY <3>2, <3>3
  <2>5. RequestAnswered(p)'
    BY <2>1, <2>2, <2>3, <2>4 DEF RequestAnswered, Past, Refusals
  <2>6. EventsExplained'
    BY <2>1 DEF AnswersInv, EventsExplained
  <2> QED
    BY <2>1, <2>5, <2>6, OwnStepKept
<1>5. CASE PatchPublish(p)
  <2>1. /\ UNCHANGED <<row, hist, result, target, body, seen, shown>>
        /\ ppc[p] = "publishing" /\ ppc'[p] = "done" /\ reply'[p] = "200"
        /\ \A q \in Patches \ {p} : ppc'[q] = ppc[q] /\ reply'[q] = reply[q]
    BY <1>5 DEF PatchPublish, dbVars, bulkVars, TypeInv, TypeOK
  <2>2. NewStatus(p)' = NewStatus(p)
    BY <2>1 DEF NewStatus
  <2>3. RequestAnswered(p)'
    BY <2>1, <2>2 DEF AnswersInv, RequestAnswered, Past, Refusals
  <2>4. EventsExplained'
    <3> DEFINE e == [by |-> p, id |-> target[p], old |-> seen[p].status, new |-> shown[p]]
    <3>1. events \in Seq(Event) /\ e \in Event
      BY <2>1 DEF TypeInv, TypeOK, Event, Row, RequestShape, Past
    <3>2. CASE shown[p] = seen[p].status
      <4>1. events' = events
        BY <1>5, <3>2 DEF PatchPublish, OldStatus
      <4> QED
        BY <2>1, <4>1 DEF AnswersInv, EventsExplained
    <3>3. CASE shown[p] # seen[p].status
      <4>1. events' = Append(events, e)
        BY <1>5, <3>3 DEF PatchPublish, OldStatus
      <4>2. PICK j \in 1..Len(hist[target[p]]) :
               j > seen[p].version /\ hist[target[p]][j].status = shown[p]
        BY <2>1 DEF AnswersInv, RequestAnswered, Past
      <4>3. /\ seen[p].version \in 1..Len(hist[target[p]])
            /\ hist[target[p]][seen[p].version].status = seen[p].status
        BY <2>1 DEF StoreInv, LoadedInHistory, Past
      <4>4. e.old # e.new /\ \E i, k \in 1..Len(hist[e.id]) :
               i < k /\ hist[e.id][i].status = e.old /\ hist[e.id][k].status = e.new
        BY <3>3, <4>2, <4>3
      <4> HIDE DEF e
      <4>5. /\ Len(events') = Len(events) + 1 /\ Len(events) \in Nat
            /\ \A n \in 1..Len(events) : events'[n] = events[n]
            /\ events'[Len(events) + 1] = e
        BY <3>1, <4>1, AppendType
      <4>6. ASSUME NEW n \in 1..Len(events')
            PROVE  /\ events'[n].old # events'[n].new
                   /\ \E i, k \in 1..Len(hist[events'[n].id]) :
                         i < k /\ hist[events'[n].id][i].status = events'[n].old
                               /\ hist[events'[n].id][k].status = events'[n].new
        <5>1. CASE n = Len(events) + 1
          BY <4>4, <4>5, <5>1
        <5>2. CASE n \in 1..Len(events)
          BY <4>5, <5>2 DEF AnswersInv, EventsExplained
        <5>3. n \in 1..(Len(events) + 1)
          BY <4>5
        <5>4. n = Len(events) + 1 \/ n \in 1..Len(events)
          <6> DEFINE m == Len(events)
          <6>1. m \in Nat /\ n \in 1..(m + 1)
            BY <4>5, <5>3
          <6> HIDE DEF m
          <6>2. n = m + 1 \/ n \in 1..m
            BY <6>1
          <6> QED
            BY <6>2 DEF m
        <5> QED
          BY <5>1, <5>2, <5>4
      <4> QED
        BY <2>1, <4>6 DEF EventsExplained
    <3> QED
      BY <3>2, <3>3
  <2> QED
    BY <2>1, <2>3, <2>4, OwnStepKept
<1>6. CASE PatchCommit(p)
  <2> DEFINE o == target[p]
             e == [by |-> p, status |-> NewStatus(p)]
  <2>1. /\ ppc[p] = "committing" /\ o \in Existing /\ seen[p] = row[o]
        /\ row[o].version = Len(hist[o]) /\ hist[o] \in Seq(Change)
        /\ reply[p] = "none"
    BY <1>6 DEF PatchCommit, TypeInv, TypeOK, RequestShape, Past, StoreInv, HolderKnowsRow,
                HistoryMatches
  <2>2. NewStatus(p) \in Statuses /\ e \in Change
    <3>1. NewStatus(p) \in Statuses
      BY <2>1, NewStatusType
    <3> QED
      BY <3>1 DEF Change, Writers
  <2>3. /\ hist'[o] = Append(hist[o], e) /\ \A x \in Existing \ {o} : hist'[x] = hist[x]
        /\ ppc'[p] = "rereading" /\ \A q \in Patches \ {p} : ppc'[q] = ppc[q]
        /\ UNCHANGED <<result, events, target, body, seen, shown, reply>>
    BY <1>6, <2>1 DEF PatchCommit, bulkVars, TypeInv, TypeOK
  <2>4. p \in Writers /\ \A x \in Existing : GrownBy(p, x)
    BY <2>2, <2>3 DEF GrownBy, Writers
  <2>5. NewStatus(p)' = NewStatus(p)
    BY <2>3 DEF NewStatus
  <2>6. /\ Len(hist'[o]) = Len(hist[o]) + 1 /\ hist'[o][Len(hist[o]) + 1] = e
        /\ Len(hist[o]) \in Nat
    <3> HIDE DEF e, o
    <3> QED
      BY <2>1, <2>2, <2>3, AppendType
  <2>7. RequestAnswered(p)'
    <3>1. /\ Len(hist'[target'[p]]) > seen'[p].version
          /\ hist'[target'[p]][seen'[p].version + 1] = [by |-> p, status |-> NewStatus(p)']
      <4>1. target'[p] = o /\ seen'[p] = seen[p] /\ seen[p].version = Len(hist[o])
        BY <2>1, <2>3
      <4>2. e = [by |-> p, status |-> NewStatus(p)']
        BY <2>5
      <4> HIDE DEF e, o
      <4>3. Len(hist'[o]) > Len(hist[o])
        BY <2>6
      <4> QED
        BY <2>6, <4>1, <4>2, <4>3
    <3>2. ppc'[p] = "rereading" /\ reply'[p] = "none"
      BY <2>1, <2>3
    <3> QED
      BY <3>1, <3>2 DEF RequestAnswered, Past, Refusals
  <2>8. \A q \in Patches \ {p} : RequestAnswered(q)'
    BY <2>3, <2>4, OthersKept DEF AnswersInv
  <2>9. ChunksUnwritten'
    <3> SUFFICES ASSUME NEW c \in Chunks, result[c].state # "done", NEW x \in Existing
                 PROVE  ~WroteTo(c, x)'
      BY <2>3 DEF ChunksUnwritten
    <3>1. c # p /\ ~WroteTo(c, x)
      BY RequestsAssumption DEF AnswersInv, ChunksUnwritten
    <3>2. (\E k \in 1..Len(hist'[x]) : hist'[x][k].by = c) => c = p \/ WroteTo(c, x)
      BY <2>4, GrownByFacts
    <3> QED
      BY <3>1, <3>2 DEF WroteTo
  <2>10. EventsExplained'
    BY <2>3, <2>4, EventsKept DEF AnswersInv
  <2> QED
    BY <2>7, <2>8, <2>9, <2>10 DEF AnswersInv
<1> QED
  BY <1>1, <1>2, <1>3, <1>4, <1>5, <1>6 DEF PatchStep

(* A request is received.                                                  *)
LEMMA AnswersReceive ==
    ASSUME TypeInv, AnswersInv, NEW p \in Patches, NEW o \in OrderIds, NEW b \in Bodies,
           PatchReceive(p, o, b)
    PROVE  AnswersInv'
<1>1. /\ UNCHANGED <<hist, result, events>> /\ ppc[p] = "idle" /\ reply[p] = "none"
      /\ ppc'[p] \in {"loading", "done"} /\ reply'[p] \in {"none", "400"}
      /\ \A q \in Patches \ {p} :
            /\ ppc'[q] = ppc[q] /\ target'[q] = target[q] /\ body'[q] = body[q]
            /\ seen'[q] = seen[q] /\ shown'[q] = shown[q] /\ reply'[q] = reply[q]
  BY DEF PatchReceive, dbVars, bulkVars, TypeInv, TypeOK, RequestShape, Past
<1> QED
  BY <1>1, AnswersEarly

(* The end of a chunk: its changes are in the history, or none is.         *)
LEMMA AnswersReturn ==
    ASSUME TypeInv, StoreInv, AnswersInv, wpc # "idle", NEW done, NEW notDone,
           ChunkReturn(done, notDone),
           UNCHANGED dbVars \/ (wpc = "applying" /\ ApplyWritten)
    PROVE  AnswersInv'
<1>1. chunk \in Chunks /\ chunk \in Writers /\ result' = [result EXCEPT ![chunk] =
                    [state |-> "done", completed |-> done, failed |-> notDone]]
  BY DEF TypeInv, WorkerShape, Writers, ChunkReturn
<1>2. \A o \in Existing : GrownBy(chunk, o)
  <2>1. CASE UNCHANGED dbVars
    BY <2>1 DEF GrownBy, dbVars
  <2>2. CASE ChunkAction[chunk] = "flag" /\ ApplyWritten
    BY <2>2 DEF GrownBy, ApplyWritten
  <2>3. CASE ChunkAction[chunk] # "flag" /\ ApplyWritten
    <3>1. BulkStatus(chunk) \in Statuses
      <4>1. ChunkAction[chunk] \in {"approve", "reject"}
        BY <1>1, <2>3, ChunksAssumption DEF Actions
      <4> QED
        BY <4>1 DEF BulkStatus, Statuses
    <3> QED
      BY <2>3, <3>1 DEF GrownBy, ApplyWritten
  <2> QED
    BY <2>1, <2>2, <2>3
<1>3. \A q \in Patches : q # chunk
  BY <1>1, RequestsAssumption
<1>4. ASSUME NEW q \in Patches PROVE RequestAnswered(q)'
  BY <1>1, <1>2, <1>3, OthersKept DEF AnswersInv, ChunkReturn, patchVars
<1>5. ChunksUnwritten'
  <2> SUFFICES ASSUME NEW c \in Chunks, result'[c].state # "done", NEW x \in Existing
               PROVE  ~WroteTo(c, x)'
    BY DEF ChunksUnwritten
  <2>1. c # chunk /\ result[c].state # "done"
    BY <1>1 DEF TypeInv, TypeOK
  <2>2. ~WroteTo(c, x)
    BY <2>1 DEF AnswersInv, ChunksUnwritten
  <2>3. (\E k \in 1..Len(hist'[x]) : hist'[x][k].by = c) => c = chunk \/ WroteTo(c, x)
    BY <1>1, <1>2, GrownByFacts
  <2> QED
    BY <2>1, <2>2, <2>3 DEF WroteTo
<1>6. EventsExplained'
  BY <1>1, <1>2, EventsKept DEF AnswersInv, ChunkReturn
<1> QED
  BY <1>4, <1>5, <1>6 DEF AnswersInv

(* A step of the worker within a chunk.                                    *)
LEMMA AnswersQuiet ==
    ASSUME TypeInv, AnswersInv, UNCHANGED <<hist, patchVars, events>>,
           \A c \in Chunks : result'[c].state # "done" => result[c].state # "done"
    PROVE  AnswersInv'
<1>1. \A q \in Patches : RequestAnswered(q)'
  BY DEF AnswersInv, RequestAnswered, Past, WroteTo, NewStatus, patchVars
<1>2. ChunksUnwritten' /\ EventsExplained'
  BY DEF AnswersInv, ChunksUnwritten, EventsExplained, WroteTo
<1> QED
  BY <1>1, <1>2 DEF AnswersInv

(* Every step keeps what the answers and events say.                       *)
LEMMA AnswersNext ==
    ASSUME TypeInv, StoreInv, AnswersInv, [Next]_vars
    PROVE  AnswersInv'
<1>1. ASSUME NEW c \in Chunks, ChunkTake(c) PROVE AnswersInv'
  <2>1. \A x \in Chunks : result'[x].state # "done" => result[x].state # "done"
    BY <1>1 DEF ChunkTake, TypeInv, TypeOK
  <2> QED
    BY <1>1, <2>1, AnswersQuiet DEF ChunkTake, dbVars
<1>2. CASE ChunkReadExisting \/ ChunkLock \/ \E o \in todo : ChunkRow(o)
  BY <1>2, AnswersQuiet DEF ChunkReadExisting, ChunkLock, ChunkRow, dbVars
<1>3. CASE ChunkCommit \/ ChunkFail \/ ChunkCommitUnknown
  BY <1>3, AnswersReturn DEF ChunkCommit, ChunkFail, ChunkCommitUnknown
<1>4. ASSUME NEW p \in Patches, PatchFail(p) PROVE AnswersInv'
  BY <1>4, AnswersRefuse DEF PatchFail
<1>5. CASE UNCHANGED vars
  BY <1>5, AnswersQuiet DEF vars, dbVars, bulkVars
<1> QED
  BY <1>1, <1>2, <1>3, <1>4, <1>5, AnswersReceive, AnswersPatchStep
     DEF Next, ChunkStep, Fault, Idle

(* The whole inductive invariant.                                          *)
THEOREM AnswersInvariant == Spec => [](TypeInv /\ StoreInv /\ AnswersInv)
BY TypeInit, StoreInit, AnswersInit, TypeNext, StoreNext, AnswersNext, PTL DEF Spec

(* A 200 means that the request's change directly follows the version it   *)
(* loaded, a refusal that it changed nothing (OrdersController.Patch).     *)
THEOREM AnswersAreTrue == Spec => []AnswerMatchesHistory
<1>1. TypeInv /\ AnswersInv => AnswerMatchesHistory
  BY DEF TypeInv, RequestShape, AnswersInv, RequestAnswered, AnswerMatchesHistory, Refusals
<1> QED
  BY <1>1, AnswersInvariant, PTL

(* A version conflict is only answered to a request that was overtaken.    *)
THEOREM ConflictsAreReal == Spec => []ConflictOnlyWhenOvertaken
<1>1. AnswersInv => ConflictOnlyWhenOvertaken
  BY DEF AnswersInv, RequestAnswered, ConflictOnlyWhenOvertaken
<1> QED
  BY <1>1, AnswersInvariant, PTL

(* An order_updated event tells two statuses its order had, in that order. *)
THEOREM EventsTellTheHistory == Spec => []EventsExplained
<1>1. AnswersInv => EventsExplained
  BY DEF AnswersInv
<1> QED
  BY <1>1, AnswersInvariant, PTL
-----------------------------------------------------------------------------
(* The refinement: a step of the store is a step of the log, or none.      *)
Acked == {q \in Patches : reply[q] = "200"}

(* A writer of the abstract log has written to some order's history.       *)
LEMMA LogWritten ==
    ASSUME NEW w, Log!HasWritten(w) PROVE \E o \in Existing : WroteTo(w, o)
  BY DEF Log!HasWritten, WroteTo

(* A commit writes one status to orders that are not cancelled.            *)
LEMMA LogWrite ==
    ASSUME TypeInv, StoreInv, NEW w \in Writers, \A o \in Existing : ~WroteTo(w, o),
           NEW S \in SUBSET Existing, NEW s \in Statuses,
           \A o \in S : row[o].status # Cancelled,
           hist' = [o \in Existing |-> IF o \in S
                                       THEN Append(hist[o], [by |-> w, status |-> s])
                                       ELSE hist[o]],
           UNCHANGED reply
    PROVE  Log!Next
<1>1. ~Log!HasWritten(w)
  BY LogWritten
<1>2. \A o \in S : Log!LastStatus(o) # Cancelled
  BY DEF Log!LastStatus, StoreInv, HistoryMatches
<1>3. UNCHANGED Acked
  BY DEF Acked
<1>4. Log!Write(w, S, s)
  BY <1>1, <1>2, <1>3 DEF Log!Write, Acked
<1> QED
  BY <1>4 DEF Log!Next

(* The commit of a PATCH, and the 200 that acknowledges it.                *)
LEMMA LogPatchStep ==
    ASSUME TypeInv, StoreInv, AnswersInv, NEW p \in Patches, PatchStep(p) \/ PatchFail(p)
    PROVE  [Log!Next]_(Log!vars)
<1>1. ASSUME NEW answer, Refuse(p, answer), answer # "200", ppc[p] # "done"
      PROVE  UNCHANGED Log!vars
  <2>1. reply[p] # "200"
    BY <1>1 DEF TypeInv, RequestShape, Past
  <2>2. \A q \in Patches : reply'[q] = "200" <=> reply[q] = "200"
    BY <1>1, <2>1 DEF Refuse, TypeInv, TypeOK
  <2> QED
    BY <1>1, <2>2 DEF Refuse, dbVars, Log!vars
<1>2. CASE PatchNotFound(p) \/ PatchCancelled(p) \/ PatchConflict(p) \/ PatchFail(p)
  BY <1>1, <1>2 DEF PatchNotFound, PatchCancelled, PatchConflict, PatchFail
<1>3. CASE PatchLoad(p) \/ PatchUpdate(p) \/ PatchReread(p)
  BY <1>3 DEF PatchLoad, PatchUpdate, PatchReread, dbVars, Log!vars
<1>4. CASE PatchCommit(p)
  <2> DEFINE o == target[p]
             s == NewStatus(p)
  <2>1. ppc[p] = "committing" /\ o \in Existing /\ seen[p].status # Cancelled /\ seen[p] = row[o]
    BY <1>4 DEF PatchCommit, TypeInv, RequestShape, Past, StoreInv, HolderKnowsRow
  <2>2. s \in Statuses /\ p \in Writers
    BY <2>1, NewStatusType DEF Writers
  <2>3. \A x \in Existing : ~WroteTo(p, x)
    <3>1. Past(p, {"idle", "loading", "saving", "committing"})
      BY <2>1 DEF Past
    <3> QED
      BY <3>1, Zenon DEF AnswersInv, RequestAnswered
  <2>4. hist' = [x \in Existing |-> IF x \in {o} THEN Append(hist[x], [by |-> p, status |-> s])
                                                 ELSE hist[x]]
    <3>1. hist' = [hist EXCEPT ![o] = Append(@, [by |-> p, status |-> s])]
      BY <1>4 DEF PatchCommit
    <3>2. hist \in [Existing -> Seq(Change)]
      BY DEF TypeInv, TypeOK
    <3> HIDE DEF o, s
    <3> QED
      BY <2>1, <3>1, <3>2
  <2>5. row[o].status # Cancelled /\ UNCHANGED reply
    BY <1>4, <2>1 DEF PatchCommit
  <2> HIDE DEF o, s
  <2>6. Log!Next
    BY <2>1, <2>2, <2>3, <2>4, <2>5, LogWrite
  <2> QED
    BY <2>6
<1>5. CASE PatchPublish(p)
  <2>1. /\ ppc[p] = "publishing" /\ target[p] \in Existing /\ seen[p] \in Row
        /\ reply' = [reply EXCEPT ![p] = "200"] /\ UNCHANGED hist
    BY <1>5 DEF PatchPublish, TypeInv, RequestShape, Past, dbVars
  <2>2. /\ Len(hist[target[p]]) > seen[p].version
        /\ hist[target[p]][seen[p].version + 1] = [by |-> p, status |-> NewStatus(p)]
    <3>1. Past(p, {"rereading", "publishing"})
      BY <2>1 DEF Past
    <3> QED
      BY <3>1, Zenon DEF AnswersInv, RequestAnswered
  <2>3. seen[p].version \in Nat /\ Len(hist[target[p]]) \in Nat
    <3>1. hist[target[p]] \in Seq(Change)
      BY <2>1 DEF TypeInv, TypeOK
    <3> QED
      BY <2>1, <3>1 DEF Row
  <2>4. seen[p].version + 1 \in 1..Len(hist[target[p]])
    BY <2>2, <2>3
  <2>5. Log!HasWritten(p)
    BY <2>1, <2>2, <2>4 DEF Log!HasWritten
  <2>6. Acked' = Acked \cup {p}
    <3>1. \A q \in Patches : reply'[q] = "200" <=> reply[q] = "200" \/ q = p
      BY <2>1 DEF TypeInv, TypeOK
    <3> QED
      BY <3>1 DEF Acked
  <2>7. Log!Acknowledge(p)
    BY <2>1, <2>5, <2>6 DEF Log!Acknowledge, Acked
  <2> QED
    BY <2>7 DEF Log!Next, Writers
<1> QED
  BY <1>2, <1>3, <1>4, <1>5 DEF PatchStep

(* The commit of a chunk's transaction, seen by the worker or not.         *)
LEMMA LogChunkCommit ==
    ASSUME TypeInv, StoreInv, AnswersInv, wpc = "applying", ApplyWritten, UNCHANGED reply
    PROVE  [Log!Next]_(Log!vars)
<1>1. chunk \in Chunks /\ chunk \in Writers /\ result[chunk].state = "running"
  BY DEF TypeInv, WorkerShape, Writers
<1>2. CASE ChunkAction[chunk] = "flag"
  BY <1>2 DEF ApplyWritten, Log!vars
<1>3. CASE ChunkAction[chunk] # "flag"
  <2>1. BulkStatus(chunk) \in Statuses
    <3>1. ChunkAction[chunk] \in {"approve", "reject"}
      BY <1>1, <1>3, ChunksAssumption DEF Actions
    <3> QED
      BY <3>1 DEF BulkStatus, Statuses
  <2>2. \A o \in Existing : ~WroteTo(chunk, o)
    BY <1>1 DEF AnswersInv, ChunksUnwritten
  <2>3. written \in SUBSET Existing /\ \A o \in written : row[o].status # Cancelled
    BY DEF TypeInv, TypeOK, StoreInv, HolderKnowsRow, HeldRowsCurrent
  <2>4. hist' = [o \in Existing |-> IF o \in written
                    THEN Append(hist[o], [by |-> chunk, status |-> BulkStatus(chunk)])
                    ELSE hist[o]]
    BY <1>3 DEF ApplyWritten
  <2> QED
    BY <1>1, <2>1, <2>2, <2>3, <2>4, LogWrite
<1> QED
  BY <1>2, <1>3

(* Every step of the store is a step of the log or a stutter.              *)
LEMMA LogStep ==
    ASSUME TypeInv, StoreInv, AnswersInv, [Next]_vars
    PROVE  [Log!Next]_(Log!vars)
<1>1. ASSUME NEW p \in Patches, NEW o \in OrderIds, NEW b \in Bodies, PatchReceive(p, o, b)
      PROVE  UNCHANGED Log!vars
  <2>1. reply[p] # "200"
    BY <1>1 DEF PatchReceive, TypeInv, RequestShape, Past
  <2>2. \A q \in Patches : reply'[q] = "200" <=> reply[q] = "200"
    BY <1>1, <2>1 DEF PatchReceive, TypeInv, TypeOK
  <2> QED
    BY <1>1, <2>2 DEF PatchReceive, dbVars, Log!vars
<1>2. CASE ChunkCommit \/ ChunkCommitUnknown
  <2>1. wpc = "applying" /\ ApplyWritten /\ UNCHANGED reply
    BY <1>2 DEF ChunkCommit, ChunkCommitUnknown, ChunkReturn, patchVars
  <2> QED
    BY <2>1, LogChunkCommit
<1>3. CASE ChunkFail
  BY <1>3 DEF ChunkFail, ChunkReturn, dbVars, patchVars, Log!vars
<1>4. CASE \/ \E c \in Chunks : ChunkTake(c)
           \/ ChunkReadExisting \/ ChunkLock \/ \E o \in todo : ChunkRow(o)
  BY <1>4 DEF ChunkTake, ChunkReadExisting, ChunkLock, ChunkRow, dbVars, patchVars, Log!vars
<1>5. CASE UNCHANGED vars
  BY <1>5 DEF vars, dbVars, patchVars, Log!vars
<1> QED
  BY <1>1, <1>2, <1>3, <1>4, <1>5, LogPatchStep DEF Next, ChunkStep, Fault, Idle

(* The write paths implement the atomic log: every change of an order is   *)
(* made whole, once per writer, never after a cancellation, and a 200      *)
(* acknowledges a change that is there.                                    *)
THEOREM StoreImplementsLog == Spec => LogSpec
<1>1. Init => Log!Init
  BY DEF Init, Log!Init
<1>2. TypeInv /\ StoreInv /\ AnswersInv /\ [Next]_vars => [Log!Next]_(Log!vars)
  BY LogStep
<1> QED
  BY <1>1, <1>2, AnswersInvariant, PTL DEF Spec, LogSpec, Log!Spec

-----------------------------------------------------------------------------
(* What PatchAnswered and ChunksEnd rest on: nobody waits for somebody who *)
(* waits, and a chunk cannot go on for ever.                               *)

(* The transactions that hold the lock of a row, and the requests whose    *)
(* UPDATE waits for one.                                                   *)
Holders(o) == {p \in Patches : ppc[p] = "committing" /\ target[p] = o}
                \cup {c \in {chunk} : o \in locked}
Waiting(h) == h \in Patches /\ ppc[h] = "saving" /\ RowLocked(target[h])

WaitsAreShort ==
    \A o \in Existing : RowLocked(o) => \E h \in Holders(o) : Holders(o) = {h} /\ ~Waiting(h)

(* A locked row has one holder, a PATCH about to commit or the worker's    *)
(* transaction, and neither waits for a row: FOR UPDATE skips what others  *)
(* hold, and a PATCH locks one row only.  So however many requests name    *)
(* the same orders, no waits form a circle (UpdateAsync, ApplyChunkAsync). *)
THEOREM NoCircularWait == Spec => []WaitsAreShort
<1>1. TypeInv /\ StoreInv => WaitsAreShort
  <2> SUFFICES ASSUME TypeInv, StoreInv, NEW o \in Existing, RowLocked(o)
               PROVE  \E h \in Holders(o) : Holders(o) = {h} /\ ~Waiting(h)
    BY DEF WaitsAreShort
  <2>1. CASE o \in locked
    <3>1. chunk \in Chunks
      BY <2>1 DEF TypeInv, WorkerShape
    <3>2. Holders(o) = {chunk}
      BY <2>1 DEF Holders, StoreInv, HolderKnowsRow
    <3>3. ~Waiting(chunk)
      BY <3>1, RequestsAssumption DEF Waiting
    <3> QED
      BY <3>2, <3>3
  <2>2. CASE o \notin locked
    <3>1. PICK p \in Patches : ppc[p] = "committing" /\ target[p] = o
      BY <2>2 DEF RowLocked, LockedByPatch
    <3>2. Holders(o) = {p}
      BY <2>2, <3>1 DEF Holders, StoreInv, HolderKnowsRow
    <3>3. ~Waiting(p)
      BY <3>1 DEF Waiting
    <3> QED
      BY <3>2, <3>3
  <2> QED
    BY <2>1, <2>2
<1> QED
  BY <1>1, StoreInvariant, PTL

(* The steps that a chunk still has at most: two SELECTs, a round for each *)
(* row and the end of the transaction.                                     *)
ChunkLeft == IF wpc = "idle" THEN 0
             ELSE IF wpc = "applying" THEN Cardinality(todo) + 1
             ELSE IF wpc = "locking" THEN Cardinality(Existing) + 2
             ELSE Cardinality(Existing) + 3

(* What is left is a number, and none is left for an idle worker only.     *)
LEMMA ChunkLeftIsCount ==
    ASSUME TypeInv
    PROVE  /\ Cardinality(Existing) \in Nat
           /\ IsFiniteSet(todo) /\ Cardinality(todo) \in Nat
           /\ Cardinality(todo) <= Cardinality(Existing)
           /\ ChunkLeft \in Nat /\ (ChunkLeft = 0 <=> wpc = "idle")
<1>1. /\ IsFiniteSet(Existing) /\ Cardinality(Existing) \in Nat
      /\ todo \subseteq Existing
  <2>1. todo \subseteq locked /\ locked \subseteq Existing
    BY DEF TypeInv, TypeOK
  <2>2. IsFiniteSet(Existing)
    BY OrderIdsAssumption
  <2> QED
    BY <2>1, <2>2, FS_CardinalityType
<1>2. /\ IsFiniteSet(todo) /\ Cardinality(todo) <= Cardinality(Existing)
      /\ Cardinality(todo) \in Nat
  BY <1>1, FS_Subset, FS_CardinalityType
<1>3. ChunkLeft \in Nat /\ (ChunkLeft = 0 <=> wpc = "idle")
  BY <1>1, <1>2 DEF ChunkLeft
<1> QED
  BY <1>1, <1>2, <1>3

(* A step of the chunk leaves less of it, and no other step more.          *)
LEMMA ChunkFalls ==
    ASSUME TypeInv, TypeInv', Next, wpc # "idle"
    PROVE  ChunkLeft' < ChunkLeft \/ UNCHANGED bulkVars
<1>0. /\ ChunkLeft \in Nat /\ ChunkLeft > 0 /\ Cardinality(Existing) \in Nat
      /\ IsFiniteSet(todo) /\ Cardinality(todo) \in Nat
  BY ChunkLeftIsCount
<1>1. ASSUME wpc' = "idle" PROVE ChunkLeft' < ChunkLeft
  BY <1>0, <1>1 DEF ChunkLeft
<1>2. CASE ChunkReadExisting
  BY <1>0, <1>2 DEF ChunkReadExisting, ChunkLeft
<1>3. CASE ChunkLock
  <2>1. todo' \subseteq locked' /\ locked' \subseteq Existing
    BY DEF TypeInv, TypeOK
  <2>2. Cardinality(todo') \in Nat /\ Cardinality(todo') <= Cardinality(Existing)
    BY <2>1, OrderIdsAssumption, FS_Subset, FS_CardinalityType
  <2>3. ChunkLeft = Cardinality(Existing) + 2 /\ ChunkLeft' = Cardinality(todo') + 1
    BY <1>3 DEF ChunkLock, ChunkLeft
  <2> QED
    BY <1>0, <2>2, <2>3
<1>4. ASSUME NEW o \in todo, ChunkRow(o)
      PROVE  ChunkLeft' < ChunkLeft
  <2>1. wpc = "applying" /\ wpc' = wpc /\ todo' = todo \ {o}
    BY <1>4 DEF ChunkRow
  <2>2. Cardinality(todo') = Cardinality(todo) - 1
    BY <1>0, <2>1, FS_RemoveElement
  <2>3. ChunkLeft = Cardinality(todo) + 1 /\ ChunkLeft' = Cardinality(todo') + 1
    BY <2>1 DEF ChunkLeft
  <2> QED
    BY <1>0, <2>2, <2>3
<1>5. CASE ChunkCommit \/ ChunkFail \/ ChunkCommitUnknown
  BY <1>1, <1>5 DEF ChunkCommit, ChunkFail, ChunkCommitUnknown, ChunkReturn
<1>6. ASSUME NEW c \in Chunks PROVE ~ChunkTake(c)
  BY DEF ChunkTake
<1>7. ASSUME NEW p \in Patches, \E o \in OrderIds, b \in Bodies : PatchReceive(p, o, b)
      PROVE  UNCHANGED bulkVars
  BY <1>7 DEF PatchReceive
<1>8. ASSUME NEW p \in Patches, PatchStep(p) \/ PatchFail(p)
      PROVE  UNCHANGED bulkVars
  <2>1. CASE PatchNotFound(p) \/ PatchCancelled(p) \/ PatchConflict(p) \/ PatchFail(p)
    BY <2>1 DEF PatchNotFound, PatchCancelled, PatchConflict, PatchFail, Refuse
  <2>2. CASE \/ PatchLoad(p) \/ PatchUpdate(p) \/ PatchCommit(p) \/ PatchReread(p)
             \/ PatchPublish(p)
    BY <2>2 DEF PatchLoad, PatchUpdate, PatchCommit, PatchReread, PatchPublish
  <2> QED
    BY <1>8, <2>1, <2>2 DEF PatchStep
<1>9. CASE Idle
  BY <1>9 DEF Idle, vars
<1> QED
  BY <1>2, <1>3, <1>4, <1>5, <1>6, <1>7, <1>8, <1>9 DEF Next, ChunkStep, Fault

(* A chunk is over after finitely many of its own steps, whatever PATCHes  *)
(* do to its rows meanwhile and whatever throws: none of its steps is      *)
(* repeated, and no step of another adds to what it has to do.             *)
THEOREM ChunksAdvance ==
    Spec => /\ [](ChunkLeft \in Nat /\ (ChunkLeft = 0 <=> wpc = "idle"))
            /\ [][wpc # "idle" => ChunkLeft' < ChunkLeft \/ UNCHANGED bulkVars]_vars
<1>1. TypeInv /\ [Next]_vars =>
         [wpc # "idle" => ChunkLeft' < ChunkLeft \/ UNCHANGED bulkVars]_vars
  BY TypeNext, ChunkFalls
<1>2. TypeInv => ChunkLeft \in Nat /\ (ChunkLeft = 0 <=> wpc = "idle")
  BY ChunkLeftIsCount
<1> QED
  BY <1>1, <1>2, StoreInvariant, PTL DEF Spec
=============================================================================
