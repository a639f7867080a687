----------------------------- MODULE OrderStore -----------------------------
(***************************************************************************)
(* The write paths on the orders table: the optimistic PATCH               *)
(* (OrdersService.UpdateStatusAsync over OrderRepository.UpdateAsync) and  *)
(* the pessimistic bulk chunk (BulkRepository.ApplyChunkAsync, called by   *)
(* the one BulkWorker), interleaved at every call to Postgres.             *)
(*                                                                         *)
(* Postgres is modelled by what the code relies on: READ COMMITTED reads,  *)
(* a row lock from an UPDATE or a SELECT FOR UPDATE to the end of its      *)
(* transaction, an UPDATE that waits for a locked row and then evaluates   *)
(* its WHERE on the committed row, and SKIP LOCKED.  An order's priority   *)
(* and notes are left out: the rules for them are those of its status.     *)
(* Orders are never created or deleted by the API.                         *)
(***************************************************************************)
EXTENDS Naturals, Sequences, FiniteSets, Functions

CONSTANTS OrderIds,     \* the ids a client may name
          Existing,     \* those that are orders of the table
          InitStatus,   \* the status each order was imported with
          Patches,      \* PATCH requests; each is sent at most once
          Bodies,       \* the bodies they may carry
          Chunks,       \* chunks of the bulk jobs handed to the worker
          ChunkIds,     \* the ids of a chunk, as the client sent them
          ChunkAction,  \* the action of its job
          MayFail,      \* whether calls may fail or clients go away
          NoOne         \* neither a request nor a chunk

Cancelled == "cancelled"
Statuses == {"pending", "approved", "rejected", "shipped", "delivered", Cancelled}
Actions == {"approve", "reject", "flag"}

(* A PATCH body: the wanted status, if any ("bogus" is one that            *)
(* OrderStatuses.IsValid refuses), and whether priority or notes are set.  *)
NoStatus == "none"
BodyType == [status : Statuses \cup {NoStatus, "bogus"}, other : BOOLEAN]

Row == [status : Statuses, version : Nat]
NoRow == [status |-> NoStatus, version |-> 0]

ASSUME OrderIdsAssumption == /\ Existing \subseteq OrderIds
                             /\ IsFiniteSet(Existing)
                             /\ InitStatus \in [Existing -> Statuses]
ASSUME RequestsAssumption == /\ Bodies \subseteq BodyType
                             /\ MayFail \in BOOLEAN
                             /\ Patches \cap Chunks = {}
                             /\ NoOne \notin Patches \cup Chunks
(* ProcessJob never hands out an empty chunk: the job has ids              *)
(* (EnqueueAsync) and the loop slices at i < OrderIds.Length.              *)
ASSUME ChunksAssumption == /\ ChunkIds \in [Chunks -> Seq(OrderIds) \ {<<>>}]
                           /\ ChunkAction \in [Chunks -> Actions]

VARIABLES
    \* the database
    row,        \* row[o]: committed status and version of order o
    flag,       \* flag[o]: the chunk whose order_flags row o has, or NoOne
    \* one state machine per PATCH request
    ppc,        \* where the request is
    target,     \* the order id of its URL
    body,       \* its body
    seen,       \* the row UpdateAsync loaded
    shown,      \* the status it re-read after the commit
    reply,      \* the HTTP answer
    \* the bulk worker: the chunk ApplyChunkAsync is on
    wpc,        \* where the worker is
    chunk,      \* the chunk, or NoOne
    found,      \* ids of the chunk that exist
    locked,     \* rows locked FOR UPDATE
    held,       \* those rows, as the locking SELECT returned them
    todo,       \* locked rows the loop has not reached
    written,    \* rows changed by the open transaction
    completed, failed,
    result,     \* result[c]: what ApplyChunkAsync returned for chunk c
    \* history
    hist,       \* hist[o]: every committed change of order o, as [by, status]
    events      \* the order_updated events published, in order

dbVars    == <<row, flag, hist>>
patchVars == <<ppc, target, body, seen, shown, reply>>
bulkVars  == <<wpc, chunk, found, locked, held, todo, written, completed, failed, result>>
vars      == <<dbVars, patchVars, bulkVars, events>>

-----------------------------------------------------------------------------
(* A row is locked by the PATCH whose UPDATE has run but not committed, or *)
(* by the worker's transaction.                                            *)
LockedByPatch(o) == \E p \in Patches : ppc[p] = "committing" /\ target[p] = o
RowLocked_BulkTakesNone(o) == LockedByPatch(o)
RowLocked_PatchTakesNone(o) == o \in locked
RowLocked(o) == o \in locked \/ LockedByPatch(o)

IdsOf(c) == Range(ChunkIds[c])

(* BulkActions.MapToStatus                                                 *)
BulkStatus(c) == CASE ChunkAction[c] = "approve" -> "approved"
                   [] ChunkAction[c] = "reject"  -> "rejected"
                   [] OTHER -> NoStatus

(* UpdateAsync assigns the status only if the body has one.                *)
NewStatus_AlwaysAssigned(p) == body[p].status
NewStatus(p) == IF body[p].status = NoStatus THEN seen[p].status ELSE body[p].status

Init ==
    /\ row = [o \in Existing |-> [status |-> InitStatus[o], version |-> 1]]
    /\ flag = [o \in Existing |-> NoOne]
    /\ hist = [o \in Existing |-> <<[by |-> NoOne, status |-> InitStatus[o]]>>]
    /\ ppc = [p \in Patches |-> "idle"]
    /\ target = [p \in Patches |-> NoOne]
    /\ body = [p \in Patches |-> [status |-> NoStatus, other |-> FALSE]]
    /\ seen = [p \in Patches |-> NoRow]
    /\ shown = [p \in Patches |-> NoStatus]
    /\ reply = [p \in Patches |-> "none"]
    /\ wpc = "idle" /\ chunk = NoOne
    /\ found = {} /\ locked = {} /\ held = [o \in {} |-> NoRow]
    /\ todo = {} /\ written = {}
    /\ completed = 0 /\ failed = 0
    /\ result = [c \in Chunks |-> [state |-> "queued", completed |-> 0, failed |-> 0]]
    /\ events = <<>>

-----------------------------------------------------------------------------
(* PATCH /api/orders/:id                                                   *)

(* The body passes the checks at the head of UpdateStatusAsync.            *)
ValidBody(b) == /\ b.status # NoStatus \/ b.other
                /\ b.status # "bogus"

PatchReceive(p, o, b) ==
    /\ ppc[p] = "idle"
    /\ target' = [target EXCEPT ![p] = o]
    /\ body' = [body EXCEPT ![p] = b]
    /\ IF ValidBody(b)
       THEN /\ ppc' = [ppc EXCEPT ![p] = "loading"]
            /\ UNCHANGED reply
       ELSE /\ ppc' = [ppc EXCEPT ![p] = "done"]
            /\ reply' = [reply EXCEPT ![p] = "400"]
    /\ UNCHANGED <<dbVars, bulkVars, events, seen, shown>>

(* The answer of a request that ends without an update.                    *)
Refuse(p, answer) ==
    /\ ppc' = [ppc EXCEPT ![p] = "done"]
    /\ reply' = [reply EXCEPT ![p] = answer]
    /\ UNCHANGED <<dbVars, bulkVars, events, target, body, seen, shown>>

PatchNotFound(p) ==
    /\ ppc[p] = "loading" /\ target[p] \notin Existing
    /\ Refuse(p, "404")

LoadsCancelled_NotChecked(p) == FALSE
LoadsCancelled(p) == row[target[p]].status = Cancelled

PatchCancelled(p) ==
    /\ ppc[p] = "loading" /\ target[p] \in Existing
    /\ LoadsCancelled(p)
    /\ Refuse(p, "409 cancelled")

PatchLoad(p) ==
    /\ ppc[p] = "loading" /\ target[p] \in Existing
    /\ ~LoadsCancelled(p)
    /\ seen' = [seen EXCEPT ![p] = row[target[p]]]
    /\ ppc' = [ppc EXCEPT ![p] = "saving"]
    /\ UNCHANGED <<dbVars, bulkVars, events, target, body, shown, reply>>

(* UPDATE orders ... WHERE id = @id AND version = @loaded: waits for the   *)
(* row lock, then either takes it or finds that no row matches.            *)
VersionMatches_Dropped(p) == TRUE
VersionMatches_Incremented(p) == row[target[p]].version = seen[p].version + 1
VersionMatches(p) == row[target[p]].version = seen[p].version

PatchUpdate(p) ==
    /\ ppc[p] = "saving" /\ ~RowLocked(target[p])
    /\ VersionMatches(p)
    /\ ppc' = [ppc EXCEPT ![p] = "committing"]
    /\ UNCHANGED <<dbVars, bulkVars, events, target, body, seen, shown, reply>>

PatchConflict(p) ==
    /\ ppc[p] = "saving" /\ ~RowLocked(target[p])
    /\ ~VersionMatches(p)
    /\ Refuse(p, "409 version")

(* SaveChanges returns: the UPDATE, with Version = loaded + 1, is visible. *)
PatchCommit(p) ==
    /\ ppc[p] = "committing"
    /\ row' = [row EXCEPT ![target[p]] =
                 [status |-> NewStatus(p), version |-> seen[p].version + 1]]
    /\ hist' = [hist EXCEPT ![target[p]] =
                  Append(@, [by |-> p, status |-> NewStatus(p)])]
    /\ ppc' = [ppc EXCEPT ![p] = "rereading"]
    /\ UNCHANGED <<flag, bulkVars, events, target, body, seen, shown, reply>>

(* GetDetailAsync, on a row that others may have changed since the commit. *)
PatchReread(p) ==
    /\ ppc[p] = "rereading"
    /\ shown' = [shown EXCEPT ![p] = row[target[p]].status]
    /\ ppc' = [ppc EXCEPT ![p] = "publishing"]
    /\ UNCHANGED <<dbVars, bulkVars, events, target, body, seen, reply>>

(* The status UpdateAsync remembered before assigning the new one.         *)
OldStatus_ReadLate(p) == row[target[p]].status
OldStatus(p) == seen[p].status

(* The tail of UpdateStatusAsync: the event, if the re-read status differs *)
(* from the loaded one, and the 200.                                       *)
PatchPublish(p) ==
    /\ ppc[p] = "publishing"
    /\ events' = IF shown[p] # OldStatus(p)
                 THEN Append(events, [by |-> p, id |-> target[p],
                                      old |-> OldStatus(p), new |-> shown[p]])
                 ELSE events
    /\ ppc' = [ppc EXCEPT ![p] = "done"]
    /\ reply' = [reply EXCEPT ![p] = "200"]
    /\ UNCHANGED <<dbVars, bulkVars, target, body, seen, shown>>

(* A Postgres call throws, or the client goes away and its cancellation    *)
(* token fires: before the commit the UPDATE is rolled back, after it the  *)
(* change stays though the request fails.                                  *)
PatchFail(p) ==
    /\ MayFail
    /\ ppc[p] \in {"loading", "saving", "committing", "rereading"}
    /\ Refuse(p, "failed")

-----------------------------------------------------------------------------
(* The worker: one chunk at a time, in any order of the queue.             *)

ChunkTake(c) ==
    /\ wpc = "idle" /\ result[c].state = "queued"
    /\ wpc' = "reading" /\ chunk' = c
    /\ result' = [result EXCEPT ![c].state = "running"]
    /\ UNCHANGED <<dbVars, patchVars, events, found, locked, held, todo, written,
                   completed, failed>>

(* SELECT id ... WHERE id = ANY(ids), before the transaction begins.       *)
ChunkReadExisting ==
    /\ wpc = "reading"
    /\ found' = IdsOf(chunk) \cap Existing
    /\ wpc' = "locking"
    /\ UNCHANGED <<dbVars, patchVars, events, chunk, locked, held, todo, written,
                   completed, failed, result>>

NotFoundCount_Distinct == Cardinality(IdsOf(chunk) \ found)
NotFoundCount == Len(ChunkIds[chunk]) - Cardinality(found)

(* SELECT ... FOR UPDATE SKIP LOCKED.  A row someone else holds counts as  *)
(* completed; every id beyond the existing ones, a repeated one too, as    *)
(* failed.                                                                 *)
ChunkLock ==
    /\ wpc = "locking"
    /\ locked' = {o \in IdsOf(chunk) \cap Existing : ~RowLocked(o)}
    /\ held' = [o \in locked' |-> row[o]]
    /\ todo' = locked'
    /\ completed' = Cardinality(found \ locked')
    /\ failed' = NotFoundCount
    /\ wpc' = "applying"
    /\ UNCHANGED <<dbVars, patchVars, events, chunk, found, written, result>>

Refused_NotChecked(o) == FALSE
Refused(o) == held[o].status = Cancelled

(* One round of the loop over the locked rows.  A flag is inserted ON      *)
(* CONFLICT DO NOTHING and always counts as completed; a status change is  *)
(* an UPDATE conditioned on the version that was locked.                   *)
ChunkRow(o) ==
    /\ wpc = "applying" /\ o \in todo
    /\ todo' = todo \ {o}
    /\ \/ /\ Refused(o)
          /\ failed' = failed + 1
          /\ UNCHANGED <<written, completed>>
       \/ /\ ~Refused(o)
          /\ ChunkAction[chunk] = "flag" \/ row[o].version = held[o].version
          /\ written' = written \cup {o}
          /\ completed' = completed + 1
          /\ UNCHANGED failed
       \/ /\ ~Refused(o)
          /\ ChunkAction[chunk] # "flag" /\ row[o].version # held[o].version
          /\ failed' = failed + 1
          /\ UNCHANGED <<written, completed>>
    /\ UNCHANGED <<dbVars, patchVars, events, wpc, chunk, found, locked, held, result>>

(* The effect of the transaction on the tables.                            *)
ApplyWritten ==
    IF ChunkAction[chunk] = "flag"
    THEN /\ flag' = [o \in Existing |->
                       IF o \in written /\ flag[o] = NoOne THEN chunk ELSE flag[o]]
         /\ UNCHANGED <<row, hist>>
    ELSE /\ row' = [o \in Existing |->
                      IF o \in written
                      THEN [status |-> BulkStatus(chunk), version |-> row[o].version + 1]
                      ELSE row[o]]
         /\ hist' = [o \in Existing |->
                       IF o \in written
                       THEN Append(hist[o], [by |-> chunk, status |-> BulkStatus(chunk)])
                       ELSE hist[o]]
         /\ UNCHANGED flag

(* The chunk ends: its transaction is over and its counts are known.       *)
ChunkReturn_KeepsLocks(done, notDone) ==
    /\ result' = [result EXCEPT ![chunk] =
                    [state |-> "done", completed |-> done, failed |-> notDone]]
    /\ wpc' = "idle" /\ chunk' = NoOne
    /\ found' = {} /\ todo' = {} /\ written' = {}
    /\ completed' = 0 /\ failed' = 0
    /\ UNCHANGED <<patchVars, events, locked, held>>

ChunkReturn(done, notDone) ==
    /\ result' = [result EXCEPT ![chunk] =
                    [state |-> "done", completed |-> done, failed |-> notDone]]
    /\ wpc' = "idle" /\ chunk' = NoOne
    /\ found' = {} /\ locked' = {} /\ held' = [o \in {} |-> NoRow]
    /\ todo' = {} /\ written' = {}
    /\ completed' = 0 /\ failed' = 0
    /\ UNCHANGED <<patchVars, events>>

ChunkCommit_IfWritten ==
    /\ wpc = "applying" /\ todo = {} /\ written # {}
    /\ ApplyWritten
    /\ ChunkReturn(completed, failed)

ChunkCommit ==
    /\ wpc = "applying" /\ todo = {}
    /\ ApplyWritten
    /\ ChunkReturn(completed, failed)

(* A call throws: the transaction rolls back, and ProcessJob counts the    *)
(* whole chunk as failed.                                                  *)
ChunkFail ==
    /\ MayFail /\ wpc \in {"reading", "locking", "applying"}
    /\ UNCHANGED dbVars
    /\ ChunkReturn(0, Len(ChunkIds[chunk]))

(* The connection breaks while the commit is answered: the database has    *)
(* the changes, the worker sees an exception.                              *)
ChunkCommitUnknown ==
    /\ MayFail /\ wpc = "applying" /\ todo = {}
    /\ ApplyWritten
    /\ ChunkReturn(0, Len(ChunkIds[chunk]))

-----------------------------------------------------------------------------
PatchStep(p) == \/ PatchNotFound(p) \/ PatchCancelled(p) \/ PatchLoad(p)
                \/ PatchUpdate(p) \/ PatchConflict(p) \/ PatchCommit(p)
                \/ PatchReread(p) \/ PatchPublish(p)

ChunkStep == \/ \E c \in Chunks : ChunkTake(c)
             \/ ChunkReadExisting \/ ChunkLock
             \/ \E o \in todo : ChunkRow(o)
             \/ ChunkCommit

Fault == ChunkFail \/ ChunkCommitUnknown \/ \E p \in Patches : PatchFail(p)

(* Everything was answered: the system idles.                              *)
Quiet == /\ \A p \in Patches : ppc[p] = "done"
         /\ \A c \in Chunks : result[c].state = "done"
Idle == Quiet /\ UNCHANGED vars

Next == \/ \E p \in Patches, o \in OrderIds, b \in Bodies : PatchReceive(p, o, b)
        \/ \E p \in Patches : PatchStep(p)
        \/ ChunkStep
        \/ Fault
        \/ Idle

(* A request that was received is run by the thread pool, the worker by    *)
(* its own task; nothing forces a client to send a request.                *)
Fairness == WF_vars(ChunkStep) /\ \A p \in Patches : WF_vars(PatchStep(p))

Spec == Init /\ [][Next]_vars /\ Fairness

-----------------------------------------------------------------------------
(* Properties                                                              *)

Writers == Patches \cup Chunks
Change == [by : Writers \cup {NoOne}, status : Statuses]
Event == [by : Patches, id : Existing, old : Statuses, new : Statuses]

(* Every variable has its type.                                            *)
TypeOK ==
    /\ row \in [Existing -> Row]
    /\ flag \in [Existing -> Chunks \cup {NoOne}]
    /\ hist \in [Existing -> Seq(Change)]
    /\ ppc \in [Patches -> {"idle", "loading", "saving", "committing",
                             "rereading", "publishing", "done"}]
    /\ target \in [Patches -> OrderIds \cup {NoOne}]
    /\ body \in [Patches -> BodyType]
    /\ seen \in [Patches -> Row \cup {NoRow}]
    /\ shown \in [Patches -> Statuses \cup {NoStatus}]
    /\ reply \in [Patches -> {"none", "200", "400", "404", "409 cancelled",
                               "409 version", "failed"}]
    /\ wpc \in {"idle", "reading", "locking", "applying"}
    /\ chunk \in Chunks \cup {NoOne}
    /\ found \subseteq Existing /\ locked \subseteq Existing
    /\ held \in [locked -> Row]
    /\ todo \subseteq locked /\ written \subseteq locked
    /\ completed \in Nat /\ failed \in Nat
    /\ result \in [Chunks -> [state : {"queued", "running", "done"},
                               completed : Nat, failed : Nat]]
    /\ events \in Seq(Event)

(* No lost update: the version of an order counts its changes, and its     *)
(* status is that of the last one.  A PATCH or a chunk that overwrote a    *)
(* change it had not seen would leave a version behind the history.        *)
HistoryMatches ==
    \A o \in Existing : /\ row[o].version = Len(hist[o]) /\ row[o].version >= 1
                        /\ row[o].status = hist[o][Len(hist[o])].status

WroteTo(w, o) == \E k \in 1..Len(hist[o]) : hist[o][k].by = w

(* The answer of a PATCH is the truth about the database: a 200 means that *)
(* its change directly follows the version it loaded (so of the requests   *)
(* that loaded one version at most one gets a 200), a refusal that it      *)
(* changed nothing.  A failed request may have done either.                *)
AnswerMatchesHistory ==
    \A p \in Patches :
       /\ reply[p] = "200" =>
             /\ target[p] \in Existing
             /\ Len(hist[target[p]]) > seen[p].version
             /\ hist[target[p]][seen[p].version + 1] =
                   [by |-> p, status |-> NewStatus(p)]
       /\ reply[p] \in {"400", "404", "409 cancelled", "409 version"} =>
             \A o \in Existing : ~WroteTo(p, o)

(* A version conflict is answered only if another change was committed     *)
(* since the load: PATCHes never refuse each other with no one succeeding. *)
ConflictOnlyWhenOvertaken ==
    \A p \in Patches : reply[p] = "409 version" =>
                          Len(hist[target[p]]) > seen[p].version

(* The rows a chunk works on are those it locked until it ends, so the     *)
(* status it tested is still true when it writes and its UPDATE never      *)
(* misses on the version ("rows == 1" always).                             *)
HeldRowsCurrent == \A o \in locked : held[o] = row[o]

(* completed + failed accounts for every id of the chunk exactly once,     *)
(* missing, repeated, cancelled and skipped ids included, and what counts  *)
(* as completed is what the transaction changed or skipped.                *)
ChunkAccounting ==
    /\ wpc = "applying" =>
          /\ completed + failed + Cardinality(todo) = Len(ChunkIds[chunk])
          /\ completed = Cardinality(written) + Cardinality(found \ locked)
    /\ \A c \in Chunks : result[c].state = "done" =>
          result[c].completed + result[c].failed = Len(ChunkIds[c])

(* What an order_updated event says happened: its order went from "old" to *)
(* "new" at two points of its history, in that order.                      *)
EventsExplained ==
    \A n \in 1..Len(events) : LET e == events[n] IN
       /\ e.old # e.new
       /\ \E i, j \in 1..Len(hist[e.id]) :
             i < j /\ hist[e.id][i].status = e.old /\ hist[e.id][j].status = e.new

(* Cancelled is final: from the commit that cancels an order on, nothing   *)
(* changes its row or its flag, whatever was loaded before that commit.    *)
CancelledUntouched ==
    [][\A o \in Existing : row[o].status = Cancelled =>
          row'[o] = row[o] /\ flag'[o] = flag[o]]_vars

(* The store implements the atomic, append-only log of changes.            *)
Log == INSTANCE OrderLog WITH
          Orders <- Existing, log <- hist,
          acked <- {p \in Patches : reply[p] = "200"}
LogSpec == Log!Spec

(***************************************************************************)
(* Parts of the inductive invariant of OrderStoreProofs.                   *)
(***************************************************************************)
Past(p, stages) == ppc[p] \in stages

(* What is known of a request at each stage of its handler.                *)
RequestShape ==
    \A p \in Patches :
       /\ Past(p, {"loading", "saving", "committing", "rereading", "publishing"}) =>
             body[p].status # "bogus"
       /\ Past(p, {"saving", "committing", "rereading", "publishing"}) =>
             /\ target[p] \in Existing
             /\ seen[p] \in Row /\ seen[p].status # Cancelled
       /\ Past(p, {"publishing"}) => shown[p] \in Statuses
       /\ (reply[p] = "none") <=> ~Past(p, {"done"})
       /\ reply[p] = "200" => /\ target[p] \in Existing
                              /\ seen[p] \in Row
       /\ reply[p] = "409 version" => target[p] \in Existing /\ seen[p] \in Row

(* What is known of the worker at each stage of a chunk.                   *)
WorkerShape ==
    /\ wpc # "idle" => chunk \in Chunks /\ result[chunk].state = "running"
    /\ \A c \in Chunks : result[c].state = "running" => wpc # "idle" /\ chunk = c
    /\ wpc \in {"locking", "applying"} => found = IdsOf(chunk) \cap Existing
    /\ wpc # "applying" => locked = {}
    /\ locked \subseteq found
    /\ todo \cap written = {}

(* A row is held by one transaction only, and is then the row its holder   *)
(* loaded; the worker changes no cancelled row.                            *)
HolderKnowsRow ==
    /\ \A p \in Patches : ppc[p] = "committing" =>
          /\ target[p] \notin locked
          /\ \A q \in Patches : ppc[q] = "committing" /\ target[q] = target[p] => q = p
          /\ seen[p] = row[target[p]]
    /\ HeldRowsCurrent
    /\ \A o \in written : held[o].status # Cancelled

(* A loaded row is a point of its order's history.                         *)
LoadedInHistory ==
    \A p \in Patches :
       Past(p, {"saving", "committing", "rereading", "publishing"}) \/ reply[p] = "200" =>
          /\ seen[p].version \in 1..Len(hist[target[p]])
          /\ hist[target[p]][seen[p].version].status = seen[p].status

(* A request that was received is answered, though its UPDATE waits for    *)
(* locks and others keep changing its order.                               *)
PatchAnswered == \A p \in Patches : ppc[p] # "idle" ~> ppc[p] = "done"

(* The worker gets through its queue: no chunk waits for ever, on a lock   *)
(* or on a PATCH that waits for the chunk.                                 *)
ChunksEnd == \A c \in Chunks : <>(result[c].state = "done")
=============================================================================
