# OrderOps in TLA+

TLA+ specifications of the order operations service in this repository: an ASP.NET API over Postgres and Redis
(`src/OrderOps.Api`), a CSV importer (`src/OrderOps.Importer`) and a React client (`src/OrderOps.Web`). The modules
follow the code, not its documents; where the two differ is listed below. Paths are relative to the repository.

    tlc -config MCOrderStore_bulk.cfg MCOrderStore      # any cfg, with the module its name begins with
    tlapm OrderStoreProofs.tla

## The system

| Component | State it keeps | Operations | Talks to |
|---|---|---|---|
| Order write path (`Features/Orders`, `Features/Bulk/BulkRepository.cs`) | `orders` (status, version), `order_flags` | `PATCH /api/orders/:id` (optimistic), a bulk chunk (`FOR UPDATE SKIP LOCKED`) | Postgres; publishes `order_updated` |
| Bulk jobs (`Features/Bulk`) | the `jobs` row (mirror), the hash `job:{id}` in Redis, an in-memory queue, one background worker | enqueue, work, finalize, `GET /api/jobs/:id` | Postgres, Redis, the write path; publishes `bulk_completed` |
| Event stream (`Features/Events`) | subscribers, each with a channel of 256 events that drops its oldest | subscribe, publish, stream (SSE), unsubscribe | every publisher, every connected client |
| Order queries (`OrderRepository.ListAsync`, `GetStatsAsync`, `GetAnomalousAsync`) | none | list, statistics, anomalies | Postgres, one statement after the other |
| Products, suppliers (`Features/Products`, `Features/Suppliers`) | none | lists, category descent, performance | Postgres |
| Importer | none (drops, creates and fills the tables) | import, verify | Postgres |
| Web: query cache (`lib/queryClient.ts`, `api/client.ts`, the `api.ts` files) | one entry for each query: data, error, fetch in flight, staleness | fetch, retry once, give up, set, invalidate | the API by HTTP |
| Web: orders list (`OrdersPage.tsx`, `OrdersFilters.tsx`, `useDebouncedValue.ts`) | filters, ordering, offset, the text in the search box and its debounced copy | filter, sort, search, Clear all, Previous, Next | the query cache |
| Web: bulk action (`useBulkSelection.ts`, `BulkActionBar.tsx`, `BulkConfirmDialog.tsx`) | selection, pending action, the POST of the dialog | tick, clear, open, cancel, confirm | `POST /api/orders/bulk-action`; starts toasts |
| Web: job toasts (`BulkJobToast.tsx`, `useBulkJobEvents.ts`) | active jobs, their polls; one EventSource counted by its users | poll, hear, refetch, dismiss | `GET /api/jobs/:id`, `/api/events`; invalidates the lists |
| Web: order sheet (`OrderDetailSheet.tsx`) | the order that is open, a patch in flight | open, close, patch | `PATCH`; sets the detail, invalidates the lists |
| Web: suppliers, statistics, shell (`SuppliersPage.tsx`, `SupplierDetailPage.tsx`, `StatsPage.tsx`, `App.tsx`) | offset; the route | page, navigate, "not found" | the query cache |

What is hard in it:

- *Concurrency.* PATCH handlers run in parallel with each other and with the worker; each is a series of database
  calls. Only a version column and row locks keep them apart. Publishers enumerate the subscribers without a lock
  while connections come and go.
- *Failure.* Each call to Postgres or Redis may throw. The worker catches at three places and does something
  different at each (chunk: count it as failed; job: finalize as failed; finalization in the catch: the host
  stops).
- *Two stores.* Progress lives in Redis, the durable result in Postgres, written one after the other and never
  reconciled. The hash expires and the row takes over.
- *Restart.* The queue is in memory and nothing reads the `jobs` table at start.
- *Slow clients.* A client that does not read must cost neither publishers nor a shutdown anything.
- *The client's own concurrency.* Answers, timers (300 ms of the search box, 1 s between polls, 8 s of an ended
  toast), events and the user come in any order; a page is left with requests under way; what is shown may be the
  previous page's data, or cached data that a write of this same client has made old.

What makes each part correct is listed with its runs below; `PROJECT.json` lists the hazards line by line and the
properties that cover them.

## Modules

| Module | What it is |
|---|---|
| `OrderLog` | abstract: each order has an append-only log of changes, each made in one step and once per writer |
| `OrderStore` | the write paths in detail; implements `OrderLog` |
| `OrderStoreProofs` | TLAPS proofs about `OrderStore` |
| `OrderStoreClaims` | statements of the documents that the write paths do not meet |
| `JobLifecycle` | abstract: a recorded job is finished in one step and then announced |
| `BulkPipeline` | enqueue, queue, worker, Redis, mirror row, polls, faults; implements `JobLifecycle` when no call fails |
| `BulkPipelineProofs` | TLAPS proofs about `BulkPipeline` |
| `EventHub`, `EventHubProofs` | hub, channels, SSE connections; proofs |
| `Query`, `QueryProofs` | operators: one query of the client's cache; lemmas about them |
| `PagedList`, `PagedListProofs` | a table that shows one page of a list; extended by the two pages below; proofs, those of the suppliers page included |
| `OrdersPage`, `OrdersPageProofs` | filters, search and ordering over a `PagedList`; proofs |
| `SuppliersPage` | a `PagedList` without filters |
| `ClientCache`, `ClientCacheProofs` | all queries of the client, its pages, patches and a job; proofs |
| `JobToasts` | toasts, polls, the shared EventSource |
| `BulkFlow`, `BulkFlowProofs` | selection, bar and dialog, composed with `JobToasts`; proofs of both |
| `MC*` | instances for TLC |

### OrderStore

Each PATCH request is a state machine (`ppc`): *loading* (`FirstOrDefaultAsync`), *saving* (`SaveChangesAsync` has
its UPDATE to run, and may wait for the row lock), *committing* (the UPDATE ran, its lock is held), *rereading*
(`GetDetailAsync`), *publishing*, *done*. The worker (`wpc`) goes *reading* (which ids exist), *locking* (`FOR
UPDATE SKIP LOCKED`), *applying* (the loop, one row a step) and commits. Between any two of these steps anyone else
may run, which is what `await` allows. `row` and `flag` are the tables, `hist` is the history of committed changes
(a history variable, never read by an action) and `events` the published `order_updated` events.

Of Postgres the model assumes READ COMMITTED (the default, and the code sets no other level): a statement sees what
was committed before it; an UPDATE waits for a locked row, then evaluates its WHERE on the new version; locks last
to the end of the transaction. With an UPDATE conditioned on the version EF Core finds 0 rows and throws
`DbUpdateConcurrencyException`: `PatchConflict`.

Failures: a PATCH may fail, or its client go away, at each call (`PatchFail`; after the commit the change stays and
the client gets no 200). A chunk may fail at each call (`ChunkFail`, rolled back) or at the answer to its commit
(`ChunkCommitUnknown`, committed but counted as failed).

Not in it: priority and notes (one bit says that the body has them: they decide validity, and a PATCH that changes
only them still takes the lock and increments the version), `updated_at`, deletion and creation of orders (the API
has neither), several chunks at a time (one worker, one chunk).

### BulkPipeline

`enq` is `EnqueueAsync` (insert row, HSET, write to the channel), `wpc` is the worker at the granularity of single
store calls: the chunk, the two HINCRBYs, the HSET of the status, EXPIRE, the row, the event. A chunk is its two
counts chosen freely within the chunk's length; `OrderStore`'s `ChunkAccounting` is what entitles it to that. A
poll is two steps, Redis and then, on a miss, the row. `Rescue` is the catch of `ExecuteAsync`, and its failure the
default `StopHost` behaviour of a hosted service.

Faults: each store call may throw, with or without having had its effect (`RedisThrows`, `MirrorThrows`); the host
may be stopped (`Stop`: the token cancels Postgres calls, which take it, and not Redis calls, which do not) or
killed (`Kill`), and is started again; a finished hash may expire; Redis may lose everything once (`Flush`).

### EventHub

A connection is *open* once the response was flushed, *streaming* once subscribed, *leaving* once its loop was left
and *closed* after the `finally`. `ReadEvent` and `SendFrame` are the two halves of the inner loop. `PublishAsync`
is `PublishBegin`, a `PublishTo` for each subscriber that its enumeration passes, and `PublishEnd`; several
publications may be under way. The enumeration of a `ConcurrentDictionary` is modelled by its contract: a
subscriber that stays is passed once, one that comes or goes may be passed or not.

### Query and PagedList

TanStack Query is not in the repository. `Query` models what the client relies on, under the options of
`queryClient.ts` (`staleTime` 30 s, `retry` 1): one fetch at a time per query, which a second caller joins; a
refetch that restarts it when there is data, and joins it when there is none (`Restarts`); the abort of a fetch
that nobody observes (`api/client.ts` passes the signal on); one retry, and none after a 404 on the supplier page
(its own `retry` function); data that becomes stale by invalidation, failure or age. Age is a choice (`expired`)
wherever data is shown again.

`PagedList` has one such query for each view and offset that was visited (`cache`, keyed as `ordersKeys.list` is),
the last key with data for `keepPreviousData`, and the two statements of `ListAsync` (`Count`, `Page`) with writes
of others in between (`Write`). `total`, `start`, `end`, `canPrev`, `canNext` and `Body` are the expressions of the
JSX; `Enabled` is `!query.isFetching`. Rows are counted: an order that leaves a selection while another enters it
is no change.

### OrdersPage and SuppliersPage

`view` is the `OrdersFilters` object, `searchInput` and `debounced` the box of `OrdersFilters.tsx` with its
`useDebouncedValue`. `Debounce` is the timer *and* the effect that depends on the debounced text, which sets the
search over the filters as they are by then. `ClearAll` resets the filters and not the box. Every change of the
filters returns to offset 0 (`SetFilters`). `chosen` and `overridden` are history variables. `SuppliersPage` is the
same table with one view and no writes (no operation of the API changes suppliers).

### ClientCache

`version` is the state of the server, which a patch (`PatchApplied`), a job (`JobEnds`) and somebody else
(`OtherWrite`) advance; an answer is the version that was read. `OnPage` says which queries each page observes, as
the `useQuery` calls do, and `Move` is a navigation or a sheet that opens or closes: what is no longer observed
gives up its fetch, what is newly observed is fetched unless it is fresh. `PatchAnswered` is the `onSuccess` of the
patch (`setQueryData`, then `invalidateQueries(["orders"])`), which runs whether or not the sheet is still there;
`JobReported` the invalidation when a toast learns the end of its job; `AnswerMissing` the 404 that replaces the
supplier's page, its sections and its sheet. `owed` (history) is the version that each query has to show. `late`
(history) follows the one request that may set the sheet back: `setQueryData` cancels nothing, so a GET that was in
flight when the patch was answered may bring the old row after it.

### JobToasts and BulkFlow

`refCount`, `listeners` and `source` are the module variables of `useBulkJobEvents.ts`; `Mount` and `Unmount` the
effects of a toast that appears and goes (`Unmount` of all of them when the page is left). `Tick` is the interval
of a second, `Deliver` an event with the refetch of its toast, `AnswerPoll` the answer and the effect that makes it
terminal. `event` are the events on their way: what was published while the source was connecting is nobody's, as
`EventHub` has it.

Of the worker the toasts see what a poll reads (`job`) and the event. `Verdict` is the HSET of `TryFinalize`
(`BulkWorker.cs:81`): from then on a poll may read it, although the row's UPDATE is still to come. If that throws,
`Rescue`, the catch of `ExecuteAsync`, finalizes again with "failed", also over "completed" (`SecondVerdict` of
`BulkPipelineProofs`). `Announce` is the worker done with the job (`settled`) and its event. A toast that has read a
verdict in between stops polling, and shows "completed" for a job that failed. What puts it right is the event,
whose refetch happens although the toast is terminal. `overturned` (history) are the toasts that were there when
their verdict was overwritten, `missed` those whose event was lost with the connection or came during the first
poll, which a refetch only joins. The stops of the host, which end a job in the middle, are `BulkPipeline`'s.

`BulkFlow` extends `JobToasts`: ticks (`ToggleRow`, `ToggleHeader`), the bar, the dialog (`OpenDialog`,
`CloseDialog`, `Confirm`), the POST on the server (`Accept`) and its `onSuccess`/`onError` (`PostAnswered`,
`PostFails`), and the page left and shown again. `FlowNext` runs the toasts of `JobToasts` beside it. Nothing keeps
the keyboard inside the dialog (there is no focus trap in `alert-dialog.tsx`), so every act on the page is possible
behind it; the properties are stated for what happens until then (`behind`).

## Runs

All runs finish in a minute and a half or less with two workers. Every action fires in some passing run.

| Run: cfg | Instance, distinct states | Shows |
|---|---|---|
| `orders_bulk`: `MCOrderStore_bulk` | 2 orders and an unknown id, 2 PATCHes with 4 bodies, 2 overlapping chunks (approve `o1 o2`; flag `o1 o3 o1`), failures; 313 380 | `TypeOK`, `HistoryMatches` (no lost update), `HeldRowsCurrent`, `AnswerMatchesHistory`, `ConflictOnlyWhenOvertaken`, `ChunkAccounting`, `EventsExplained`, `CancelledUntouched`, and that the store implements `OrderLog` (`LogSpec`) |
| `orders_live`: `MCOrderStore_live` | as bulk, with flag and reject and a refused body; 238 906 | `PatchAnswered`, `ChunksEnd`: row locks starve nobody |
| `jobs_clean`: `MCBulkPipeline_clean` | 2 jobs, chunks of 2, batches of 0 to 4 ids (3 allowed), expiry, no fault; 254 286 | `AnswersNeverRegress` (no call fails here, so it is unconditional), and the job lifecycle with its liveness (`LifecycleSpec`) |
| `jobs_faults`: `MCBulkPipeline_faults` | 1 job, 2 failing calls, 2 stops or kills, expiry, flush; 365 564 | `MirrorAccounting`, `AnnouncedWhenSettled`, `AcceptedIsKnown`, `OneFaultSurvived`, `AcceptedFinishes` |
| `events_line`: `MCEventHub_line` | 1 client that may stop reading, 3 events, channel of 1; 163 824 | `NoSilentLoss`, `PublishEnds`, `StopDrains` |
| `events_pair`: `MCEventHub_pair` | 2 clients that keep reading (one filtered), 2 events, channel of 2; 182 474 | `SeenOnceAndWanted`, `SequentialOrder`, `Delivered` |
| `web_page`: `MCOrdersPage_page` | 3 texts (one blank), 1 other filter, 2 columns, up to 5 orders on pages of 2, 3 acts of the user, 1 write; 148 507 | `EmptyMeansNone`, `RangeTellsRows`, `ShownAsAsked`, `ChoicesKept`, `PageSettles`, `TypedIsSearched` |
| `web_suppliers`: `MCSuppliersPage_paging` | 4 suppliers on pages of 2, 6 clicks; 136 | `NeverPastTheEnd` |
| `web_cache`: `MCClientCache_cache` | 1 patch, 1 job, 2 writes in all, 3 navigations or openings, 1 failure; 1 230 382 | `FreshAfterOwnWrite`, `DetailShowsOwnPatch`, `NothingLoadsUnseen` |
| `web_toasts`: `MCJobToasts_toasts` | 2 jobs whose verdict may be overwritten, 1 lost connection, 2 failing polls; 427 423 | `SourceShared`, `ToastTruth`, `EventNotOutrun`, `ToastLearns` |
| `web_bulk`: `MCBulkFlow_bulk` | 3 orders on 2 pages, limit of 2, 2 POSTs and their jobs, 4 acts, the page left once, 1 failure, no lost connection; 2 441 115 | `SubmittedAsSeen`, `SelectionNotLost` |
| `orders_skipped`: `MCOrderStore_skipped` | a PATCH and a chunk on one row | `SkippedAlreadyApplied`, which TLC violates (below) |

What the properties say, in short:

- *Orders.* No lost update, also through stale versions and locks taken late; every answer and event is about
  changes that were made; a cancelled order is final; a chunk counts each of its ids once; nobody waits for ever.
- *Jobs.* The row is untouched or final with counts that add up; the announcement comes after both stores are
  settled; polls never go back, also when the hash expires (while `Undisturbed`, see below); one failing
  call loses neither a job nor the host.
- *Events.* A client that stays misses only what newer events pushed out, sees nothing twice and publications made
  in turn in their order; a client that does not read blocks neither publishers nor the stop of the host.
- *Orders list.* The table is what the controls say; "none match" and the range line are true; a late search
  neither undoes another choice nor gets lost; paging stops at the end; no page loads for ever.
- *Own writes.* Once a patch or a job of this client is acknowledged, no list at rest is older, wherever it was
  loaded. The sheet is behind its patch only while it shows the answer of a request that was in flight when the patch
  was answered (`late`), and its next answer puts it right: the code has that race and nothing stops it. Nothing is
  loaded that nobody sees.
- *Toasts.* The EventSource is open exactly while a toast is there. A toast stops only at an end of its job, and
  learns one without the event as well. What it shows is what the job ended with, unless the worker's catch overwrote
  the verdict it has read: then it is wrong until the event's refetch has succeeded, and stays wrong if the event
  was lost, joined the first poll, or its refetch failed. An event that finds data is not outrun by an older answer.
- *Bulk action.* What is submitted is what the dialog was opened for, once at a time; its answer takes nothing else
  from the selection.

**Bounds.** A lost update, a conflict or a stale re-read needs two writers of one row, and a third to hide it: two
PATCHes and two chunks. A skipped row needs a PATCH and a chunk; the accounting a missing and a repeated id. Two
faults are what it takes to go through the catch and fail in it again; a chunk size of 2 with batches of up to 3
gives a full chunk, a rest and both refused sizes (0 and 4). With a channel of one, three events fill and overflow
it; with a channel of two, two events show an order. On the orders page 5 rows on pages of 2 give a first, a middle
and a short last page, and 3 acts a page turned, a text typed and a filter changed before it is applied; the
suppliers exactly fill their last page, where an off-by-one in `canNext` shows. Two failures exhaust the one retry
of a poll. A patch and a job, or either and somebody else's write, are the two writes of `web_cache`; three moves
leave a page, open a sheet and come back (closing it costs none). Two toasts share the EventSource, in every order of
coming and going; one lost connection is enough to lose an event. Connections are lost in `web_toasts` only: the
properties of `web_bulk` are about the selection and its POSTs.

`MaxFaults`, `MaxStops`, `MayExpire`, `MayFlush`, `MayFail`, `MaxBatch`, `Capacity`, `MaxRows`, `MaxClicks`,
`MaxWrites`, `MaxVersion`, `MaxMoves`, `MaxFailures`, `MaxDrops`, `MaxActs`, `MaxLeaves` and `BULK_MAX_BATCH` are
the named bounds; the code's are 10 000 ids, chunks of 200, channels of 256 and pages of 25. The number of
requests, chunks, jobs, connections and events bounds everything else.

**Fairness.** A request that was received is run by the thread pool and the worker by its own task, so each has
weak fairness; a client need not send a request and a call need not fail, so `PatchReceive` and the faults have
none. A row lock is granted when it is free; weak fairness is enough, for a holder's next step is its commit. In
`EventHub` nothing is assumed of `SendFrame`, which waits for the client, except in `ReadingSpec`, the hypothesis
of `Delivered`. A stopped host goes down and is started again. In the client, a request is answered or fails (fetch
rejects when the connection does), a timer runs out, and an accepted job gets its verdict and is announced, which
is `AcceptedFinishes` of `BulkPipeline` (nothing is assumed of `Rescue`: no call need throw); the user need do
nothing, and the event stream need never connect.

**Deadlock** is checked in the runs of the server, where the states in which everything was answered have an
explicit idling step. In the web runs it is not: there the user may stop, and nothing is left to happen.

### Where documents and code differ

`orders_skipped` checks a sentence of docs/ARCHITECTURE.md:128, "the other job has already applied an equivalent
action", and TLC refutes it: the row's lock was a PATCH's; the row never gets the action, yet counts as completed
(`BulkRepository.cs:87`).

These were met while modelling and have no run of their own. Server:

- README.md 1.7, `order_updated` "when any order's status changes": bulk changes publish none. It is also missed
  with PATCHes only: if a change back is committed before the re-read (`OrderRepository.cs:136`), the re-read
  status equals the loaded one and the first change is announced by nothing.
- README.md:331, "Each order is processed exactly once": overlapping jobs run in turn and both write.
- docs/ARCHITECTURE.md:136, "`failed` only if every row failed": a Redis increment that throws is enough.
- docs/ARCHITECTURE.md:154, "still answerable from the Postgres mirror": the read of Redis throws and the poll is a
  500.
- docs/ARCHITECTURE.md:152, the row "UPDATEd to its terminal state on completion": a stop between the two writes
  leaves it `processing`.
- Two PATCHes in flight together may both be answered 200, when one commits before the other loads (README 1.6 and
  `tests/concurrency.test.ts` expect a 409): the version compared is the one loaded inside the handler.
- After a loss of Redis data HINCRBY recreates the hash without a status, and polls answer `""`
  (`RedisJobStateStore.cs:45`; README 1.5 knows three statuses).
- A client is connected (its response flushed) before it is subscribed (`EventsController.cs:41-48`) and misses
  what is published in between.

Client:

- docs/manual-test-plan.md:55, Clear all: "All filters reset". A text typed less than 300 ms before comes back as
  the search, and the box keeps its text in any case (`OrdersFilters.tsx`; `overridden` in `TypedIsSearched`).
- docs/manual-test-plan.md:71, two tabs: the second "shows … version_conflict". The PATCH carries no version, so a
  stale tab's patch is simply applied.
- docs/manual-test-plan.md:85, the header's checkbox "shows the dash state" on page 2: it is indeterminate only
  when some rows *of the page* are selected.
- docs/manual-test-plan.md:114, a flagged order shows its timestamp: a finished job invalidates `["orders"]`, which
  the detail's key `["order", id]` is not part of; an order opened before keeps its old detail for up to 30 s.
- docs/ARCHITECTURE.md:234, the dialogs have a "focus trap": neither has one, hence `behind`.
- README 1.5, `processing` → `completed` (or `failed`): a poll between the two writes of `TryFinalize` reads
  "completed", and the catch may still make it "failed" (`BulkWorker.cs:81`, `:37`). A toast that stopped on the
  first keeps it if its event is lost (`ToastTruth` says exactly when).
- The patch's answer is put into the sheet without cancelling the GET in flight, whose older answer then replaces it
  (`OrderDetailSheet.tsx:262`; `late` in `ClientCache`).
- The answer to a POST can be lost after the job was accepted; the dialog then offers it again, as a second job.
- Invalidating a list that is loading for the first time joins that load, whose answer may be older than the write,
  and is fresh for 30 s (`FirstLoad` in `ClientCache`).
- When orders leave the selection behind the page that is shown, the range line reads like "26–25 of 25" over "No
  orders match these filters." (excepted in `NeverPastTheEnd` and `EmptyMeansNone` by `shrunk`).

## Proofs

Eight modules of proofs, each named after what it is about. The theorems are of the form `Spec => []Inv`, `Spec
=> [][A]_vars` or, for a refinement, that the code's specification implies the safety part of the abstract one; they
hold for every value of the constants that the named ASSUMEs allow, and TLC evaluates the same ASSUMEs in the runs.
`PROJECT.json` lists the theorems with the properties they state.

**`OrderStoreProofs`** — any orders, requests, bodies, chunks. Assumed: the orders are a finite set among the ids,
statuses and actions are the code's, a request is not a chunk, no chunk is empty. `TypeInv` is `TypeOK` with what
is known of a request and of the worker at each stage (`RequestShape`, `WorkerShape`): without it the commit of a
PATCH could write a non-status. The loop of a chunk counts with cardinalities, hence the finiteness; its counts add
up at each row (`EveryIdIsCounted`). `StoreInv` is `HistoryMatches`, which is not inductive alone: a commit sets
the version to the *loaded* one plus 1, so one must know that the holder of a row lock loaded the row as it is now.
That is `HolderKnowsRow`: the holder's loaded row is the current one, a row has one holder, and the worker's rows
are those it locked. It holds because the UPDATE tests the version while the row is unlocked, and because whoever
changes a row holds it. `LoadedInHistory` adds that a loaded row is a point of its order's history, needed where
rows are loaded and where the history grows. `NoLostUpdate`, `LocksHold` and `CancelledIsFinal` follow;
`AnswersInv`, on top of it, says where in the history the change of an answered PATCH is and what a refusal and an
event were made from (`AnswersAreTrue`, `ConflictsAreReal`, `EventsTellTheHistory`). `StoreImplementsLog` is the
refinement: every step of the store is a step of `OrderLog` or leaves it unchanged. `NoCircularWait` and
`ChunksAdvance` are the safety halves of `PatchAnswered` and `ChunksEnd`: a locked row has exactly one holder, who
waits for nobody, and `ChunkLeft` falls with each step of a chunk and is raised by nobody else's.

**`BulkPipelineProofs`** — any jobs, sizes and numbers of faults, stops and restarts. `PipelineInv` has four parts
over the types: `LoopInv` (the counts of the loop are those of the chunks done), `FinishInv` (what `TryFinalize` is
about to store adds up to the total, also when the catch repeats it with another verdict), `JobsInv` (a job is in
the queue, with the worker or announced, never two of them) and `FaultsInv` (an exception was counted before the
catch, two before the host ends). From it `RowsAccount`, `AnnouncementsSettle`, `AcceptedAreKnown`,
`OneFaultIsSurvived`. On top of it:

- *The lifecycle.* `VerdictInv` says when a row may have a verdict already: not before the worker's last step,
  unless that step had its effect and threw. `LifecycleFollowed`: with any faults, stops and losses, rows and
  announcements make only steps of `JobLifecycle`, but for `SecondVerdict`, where the catch writes "failed, 0 of all"
  over a verdict whose update was reported as failed. `LifecycleImplemented`: if no call fails there is no such
  step; stops, kills, expiry and lost data need no exception.
- *The answers.* `CalmInv` compares what a client was told with where the next answer comes from (`Source`: the hash
  if there is one, else the row). `WorkedInv`: the hash is as far as the worker's totals, less the increments it
  still has to make; `SourcesInv`: a hash is there until the row is final, and then says what the row says;
  `ToldInv`: no answer is ahead of its source, and one with a verdict equals it. From it `AnswersOnlyAdvance`. The
  condition `Undisturbed` is needed, as counterexamples of TLC show: a Redis call that throws sends the job to the
  catch, whose row says 0 where the hash had counted; flushed data hands over to a row that still says 0; so does
  the expiry of a hash that a stop left final before its row.
- *Its end.* `WorkerAdvances`, the safety half of `AcceptedFinishes`: `WorkLeft`, three for each id that no chunk
  took and what is left of `TryFinalize`, once or twice, never exceeds a bound given by the job's size and falls
  with each of the worker's steps, whatever throws.

**`EventHubProofs`** — any connections, events, filters and capacity. `ChannelsInv`: a channel is the end of what
it accepted, and the rest was read or pushed out; `LinesInv`: order in line is order of acceptance;
`SubscribedInv`, `AcceptedInv`, `BeforeInv`: which publication may still pass whom. From it
`NothingIsLostSilently`, `EventsSeenOnce`, `EventsInSequence`.

**`PagedListProofs`**, **`OrdersPageProofs`** — any texts, filters, columns, sizes and writes. `ListInv` is the
invariant of the list alone; its `PagesInv` is about every *cached* page, not only the one on screen: it began
within the rows of its view unless some have left since, and its answer is of its own key. That is what makes a
Previous or a filter that returns to a cached page safe. `CountInv` is the same of the answer half made. Four
lemmas take the promises of the list from it. The orders page adds that every change of its filters shows a first
page, or one that is cached (`PageInv`): `PagingStaysWithin`, `EmptyIsTrue`, `RangeIsTrue`, `RowsAreAsAsked`;
`ChoicesAreKept` is inductive with the types. The suppliers page adds nothing but that no row ever leaves:
`SuppliersPagingStaysWithin` has all four without their exception (`shrunk = {}`). `SuppliersPage` is instantiated
there, because its own steps are those of the list.

**`ClientCacheProofs`** — any patches, versions, moves. `CacheInv`: what is older than owed is marked stale
(`OldIsStale`), what is stale and on the page is being fetched or its fetch failed (`StaleIsFetched`), and no fetch
in flight has read a version older than owed, but the sheet's late one (`NewEnough`). From it `OwnWritesAreShown`,
`DetailKeepsUp`, `NothingUnseenLoads`.

**`BulkFlowProofs`** — any jobs, orders, limits. First `JobToasts` alone: `JobsInv` relates count, listeners and
source to the toasts on the page, and what a poll has read to its job: its state still, or that it had not ended,
or a verdict overwritten before the event (`ReadsRight`, `Misled`); without the last part `ToastTruth` would not
survive the answer of such a poll. From it `SourceIsShared`, `ToastsTellTheTruth`, `EventsAreNotOutrun`. Then
`BulkFlow`: `FlowInv` adds that the POST the dialog waits for is the one in flight (`PostsFollowed`,
`OneSubmission`), and that a page that was left has nothing pending (`LeftEmpty`); `SubmissionsAreAsSeen`,
`SelectionIsNotLost`, and `ToastsOfThePage`, that `SourceShared` and `ToastTruth` hold in the composition, where a
job may have ended, and lost its verdict, before its toast is mounted.

**`QueryProofs`** has the lemmas on the operators of `Query` (what a fetch, an answer, a failure, an invalidation
do to data, error and staleness).

*Model-checked only.* Liveness (`PatchAnswered`, `ChunksEnd`, `AcceptedFinishes`, `PublishEnds`, `StopDrains`,
`Delivered`, `PageSettles`, `TypedIsSearched`, `ToastLearns`, and the fairness of `JobLifecycle` in
`LifecycleSpec`), which is out of the prover's reach, as are ENABLED and induction over recursive definitions (none
is used). Of three of them the safety half is proved, as said above: that nobody waits in a circle, and that work
which is begun cannot go on for ever. Every invariant and every action property of the runs is a theorem.

## Not modelled

- *Evaluation of SQL*: filters and orderings of the list, the five statements of the statistics, anomaly rules,
  supplier performance, the descent of the category tree with its cycle guard. Each is one expression that Postgres
  evaluates, without state of the program. That several statements see several moments is modelled where a page
  relies on it (`Count` and `Page`).
- *The importer*: runs alone, once, on a database it empties first; a failure is repaired by running it again.
- *Time*: 30 s of freshness, 8 s of a toast, expiry of the hash are choices. Collection of unused queries after
  five minutes is a choice too few: a query that was visited stays known, and what a collected one would do is what
  an expired one with data does, except that it shows a skeleton first. Refetching after the browser was offline
  and the double mounts of StrictMode (development only) are left out.
- *The sheet* turns from one order to another only by closing here; which status is chosen is left out, as are
  priority and notes on the server.
- *Formats, layout, theme, charts, CORS, headers, tests*: no state that the properties are about.
