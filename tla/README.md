# PWBS in TLA+

This directory holds a TLA+ verification project for PWBS (Persönliches
Wissens-Betriebssystem), a Python application that imports a user's calendar,
notes and transcripts, processes them, and answers questions and writes
briefings from them. Paths below are relative to `src/backend/pwbs/` unless they
start with `src/`.

The modules fall into five groups. The first three follow a document from the
external source to the status "done", the path on which the system's promise of
an idempotent pipeline "ohne Datenverlust" (`src/ARCHITECTURE.md:42`) is kept or
broken. The fourth is the work that beat and background jobs do afterwards, the
fifth the services and libraries that requests and tasks share.

| group | modules | code |
|-------|---------|------|
| circuit breaker | `CircuitBreaker`, `BreakerContract`, `MCCircuitBreaker`, `CircuitBreakerProofs` | `connectors/resilience.py` |
| incremental sync | `ConnectorSync`, `MCConnectorSync`, `ConnectorSyncProofs` | `ingestion/pipeline.py`, `connectors/{base,notion,zoom,obsidian,google_calendar}.py` |
| document pipeline | `DocumentPipeline`, `MCDocumentPipeline`, `DocumentPipelineProofs` | `api/v1/routes/connectors.py`, `ingestion/pipeline.py`, `queue/tasks/{ingestion,pipeline,embedding}.py` |
| background work | `BriefingQueue`, `ReminderEngine`, `SnapshotWindow`, `AccountErasure`, composed in `MCBackground`; `BriefingQueueProofs`, `BackgroundProofs` | `queue/tasks/{briefing,snapshots}.py`, `briefing/persistence.py`, `reminders/`, `snapshots/`, `dsgvo/`, routes `user`, `documents`, `reminders`, `snapshots` |
| services | `RateLimit`, `LlmExtraction`, `VaultWatcher`, `BillingMirror`, `Marketplace`, `Chunking`, `CoherenceChunks`, `EntityDedup`, composed with the breaker in `MCServices`; `ProcessingProofs`, `CommerceProofs`, `ServiceProofs` | `api/middleware/rate_limit.py`, `core/{llm_gateway,structured_output,rate_limiter}.py`, `connectors/obsidian.py`, `billing/`, `marketplace/`, `processing/{chunking,semantic_chunker,entity_dedup,llm_ner}.py` |

## 1. Inventory

### Processes and shared state

PWBS is a FastAPI process (asyncio, one session per request) and a set of Celery
workers (`src/docker-compose.yml`: four processes for ingestion, two for
processing, two for briefings), a beat process, Redis as broker and cache,
PostgreSQL, and optionally Weaviate and Neo4j. Requests and tasks meet only in
PostgreSQL, at READ COMMITTED and without explicit locks, and through Celery
messages. All concurrency problems of the data path are therefore orders of
transactions and messages.

| component | state | operations | interacts with | hard behaviour | what makes it correct |
|-----------|-------|-----------|----------------|----------------|-----------------------|
| Circuit breaker | state, failure count, time it opened | call, retries, probe, reset | connectors (not wired up yet) | coroutines resume after a sleep or an await and find another state | the count fits the state; every call ends; for one caller the documented state machine |
| Ingestion pipeline | watermark, documents | load, fetch, upsert, commit | connectors, PostgreSQL | overlapping runs, edits during a run, failing items, pages | the watermark passes an item only when it is stored or there is a known reason |
| Connectors | cursor per run | fetch_since, normalize | external APIs, the file system | four different meanings of a cursor | same |
| Connector routes | connections, documents, consents | connect, upload, transcript, disconnect, grant, revoke | PostgreSQL, Celery | an erasure overlapping a sync or an upload | erased data stays erased; every new row reaches the queue |
| Celery tasks | messages, retries | run_connector, process_documents, generate_embeddings | PostgreSQL, broker | early and late acknowledgement, crashes, retries, batches that fail as a whole | no row is forgotten; every pending row comes to an end |
| Embedding pipeline handler | attempts per batch | embed with back-off, partial success | embedding API | retries longer than the task's time limit | status agrees with what was embedded |
| Chunking | position in the text | chunk, overlap, window, group, split, merge | embedding | overlap as long as a chunk, segments longer than a chunk, token counts that do not add up | no token is dropped, the loops end, the limit is exceeded by little |
| Entity deduplication | entities, mentions | resolve, upsert, commit | PostgreSQL | names resolved before any is inserted, repeated extraction, chunks deleted by cascade | similar names share a row, counts agree with mentions |
| LLM extraction and gateway | daily usage, cached answers | check limits, cascade, retry, repair, record | providers | check and record are a whole call apart, failed calls are not recorded | what is booked overshoots by less than the overlap; only calls never booked let more begin; every call ends |
| Obsidian watcher | event list, deleted paths | append, drain, process, scan, report | observer thread, file system | two threads and a lock, events that are late, events of folders | every deletion is reported, or was not watched, or was a folder's |
| Briefings | briefings, sent marks, messages | beat, initial request, generate, mail, mark | LLM gateway, mail, broker | check-then-act, redelivery, a message lost with its child process, crash between mail and mark | bounded duplicates, the latest briefing is mailed |
| Reminders | reminders | trigger engine, status changes | PostgreSQL, beat | daily run and route overlap | bounded duplicates, overdue items escalate |
| Snapshots | snapshots | capture, window, delete | PostgreSQL, beat | three statements per capture | the window is kept up to the number of overlapping captures, upwards and (squared) downwards |
| Account erasure, export, document deletion | four stores | schedule, cancel, clean up, export, delete | PostgreSQL, Weaviate, Neo4j, files | no transaction over the stores; three commits before the export's job begins | complete erasure; an export ends but for named failures |
| Rate limiting | window counters | count, reject, fall back | Redis, process memory | two counters during a Redis failure, keys that expire | a bounded number per window, each window on its own |
| Billing | subscription row | view, checkout, five webhook events | Stripe | late, repeated, reordered and parallel events; statuses the code does not know; two checkouts | the row mirrors Stripe; Pro was paid |
| Marketplace | installations, counters | review, install, uninstall, cascade from an account | PostgreSQL | count-then-insert, repeated deletion, deletion by cascade | limit and counter are off by a known amount |
| Knowledge graph, search | Neo4j; none | merge, query; fuse | Neo4j, Weaviate | - | see "Not modelled" |
| Workflows, webhooks, organisations | their own tables | evaluate, deliver, edit | PostgreSQL, HTTP | - | see "Not modelled" |

`PROJECT.json` lists these and the remaining components with the reason each one
is or is not modelled.

## 2. The modules and the code

### CircuitBreaker

A step is what an asyncio coroutine does between two awaits: enter `call` and
find the circuit open (`Reject`) or not (`Enter`), the answer or exception of the
wrapped function (`CallSucceeds`, `CallFails`, `ProbeSucceeds`, `ProbeFails`,
`PassThrough` for an exception the breaker does not track or a cancellation), the
end of a back-off sleep (`WakeUp`). `pc` says where each coroutine is,
`attempt` is the loop variable of `_closed_call`. The three fields of the object
are `state`, `failureCount` and, for the monotonic clock, the single bit
`recovered`: whether `recovery_timeout` has passed since the circuit opened.
The counter saturates at the threshold, because the code only compares it with
the threshold and zeroes it.

`BreakerContract` is what the module's docstring promises: a three-state machine
with a streak of failures and a timer. `MCCircuitBreaker` maps it onto the
breaker's fields. With one coroutine `CircuitBreaker` implements the contract
(`ImplementsContract`); with several it does not, and what remains true is
`CountFitsState`.

### ConnectorSync

One connection. `edited` is the external source (the time of each item's last
edit; the time names the content), `stored` the documents table, `watermark` the
column of `connections`, and each element of `Workers` a run of
`IngestionPipeline.run`. The run is cut at the awaits another run can overtake:
`Load` (the row and its watermark), `Fetch` (connector.run), `Upsert` (the SELECTs
and the writes in the open transaction), `Commit`, and `Abort` for any failure
before the commit. `Matching`, `Pages` and `NewCursor` are `fetch_since` of the four
connectors, one arm each; `kind` is the connection's source type and never
changes. Zoom's date-valued cursor is why `DayOf` exists: several ticks make a
day. Zoom's first sync asks for `LookBack` days only (30 in the code;
`TooOld` is what it leaves out), and a recording that is listed without a
transcript (`Untranscribed`) yields neither a document nor an error.

Three history variables give the properties their meaning. `skipped[w]` is what run
w leaves out, and `missed` what a committed run has left behind the watermark:
items beyond the page, recordings older than the look-back or without a
transcript, items that failed to normalise, items edited between the
fetch and the time stamp, rows that an overlapping run put back to older content.
`LossesExplained` says there is no other way to lose an item. `raced[w]` says that
another run has committed since w fetched: only then may w put a row back
(`GoesBackOnlyByOverlap`), and then it does.

### DocumentPipeline

The documents of one user and one source type, their connection and consent, and
the tasks that process them. It composes the ingestion side with the routes and
the Celery tasks; which items a fetch returns is left to `ConnectorSync`, here a
sync returns what changed since the last committed sync.

- A *writer* is a transaction that stores documents: `run_connector`
  (`SyncLoad`, `SyncFetch`, `SyncUpsert`), `upload_obsidian` (`Upload`) or
  `upload_zoom_transcript` (`Transcript`), followed by `Commit` or `Rollback` and
  by `Dispatch`, which queues the processing task. The record of a writer holds
  the rows it will update, the keys it will insert, the rows it deletes, and what it
  does with the connection row (`touch`): a sync writes it only if its connector
  returned a cursor, which the constant `Cursorless` leaves open.
- The *eraser* is `disconnect` or `revoke_consent`: select, DELETE documents,
  DELETE the connection and commit.
- A *job* is a message and the task that handles it: queued, waiting for a
  worker, running. `EmbedRead` reads one row; the commit is for the whole batch.
  `EmbedCrash` has two outcomes: a worker that dies as a whole leaves its message to
  be delivered again, but if only the child process dies (out of memory, hard time
  limit) the parent acknowledges the message, since `queue/celery_app.py` sets
  `task_acks_late` without `task_reject_on_worker_lost`.
- `Conflict` is what PostgreSQL and the ORM refuse at commit: a row that is gone
  (StaleDataError), a second row for the same source_id, a connection that is no
  longer the one that was loaded, a second connection (IntegrityError).
- `Locked` says which rows wait for an open transaction that has deleted them.
- `embedded` and `stranded` are history: the contents that a committed task has
  read, and the rows whose processing was given up at a point the model names (a
  crash between commit and dispatch, a lost message, a message acknowledged for a
  dead child, exhausted retries, a transcript that is never dispatched).

`WorkAccounted` is the module's main statement: a row that is pending, or done
for a content nobody embedded, is on somebody's list or in `stranded`. It covers
the stale commit of `generate_embeddings`, which may set "done" after a sync has
stored newer content.

### BriefingQueue

The worker for the queue `briefing.generate` runs two processes (`worker`), each at
a point of one of three tasks: the bulk generation (morning and weekly differ only
in their type), the initial briefing, the mails. `queue` is a bag of messages with
their retry number. All tasks are acks_late, so `Crash` either puts the message back
or, if only the child process dies, loses it (`lost`, as in `EmbedCrash`).
`briefings`, `row` and `sentAt` are the table, ids in the order of
`generated_at`. Each user is a session of its own: `Generate` flushes, `CommitBriefing`
commits, an exception only skips the user; an exception outside the loop, such as
a broker that refuses the mail task (`DispatchFails`), retries the whole
task. A mail is three steps (`ReadUnsent`, `SendMail`, `MarkSent`), because reading the
unsent briefing, the call of the mail service and the mark are three
transactions.

### ReminderEngine, SnapshotWindow

One user's reminders and snapshots. An engine run and a capture are
transactions of several statements; a step is one statement, and it sees what
is committed when it runs. Two runs or captures may overlap: beat starts one,
the POST route the other. A snapshot capture's DELETE and commit are one step,
because a second capture that deletes the same rows waits for the first.

How far captures with stale counts can take the window down is a number of its own,
`LowestWindow`: with k captures each of the k - 1 others may commit a row while one
counts, and each of them takes as many rows too many as the others have added. Two
captures leave at least one row less than the window; three can leave a window of three
empty. `MaxReminders` has to leave an id for every engine and topic
(`ReminderAssumption`), because an engine run creates all its reminders or none.

### AccountErasure

One account over PostgreSQL (`rows`, `embedded`), Weaviate (`vectors`), Neo4j
(`nodes`) and the export files (`zips`). `cleanup` walks through the stores in the
order of `_cascade_delete_user`; each step can fail and is skipped, as the code logs and
goes on. Beside it run the embedding tasks, `delete_document`, the data export in
the API process, and the routes that schedule and cancel. `disturbed` is history:
a store failed, or a task of the user ran, during the clean-up that deletes the
rows. `claimed` is what delete_document has answered with 204.

An export is cut where it can break off: the row is committed (`InsertExport`), read
back and logged with a second commit, and only then is the job added
(`StartExport`); an exception in between leaves a row without a job (`AbandonExport`). A
job that fails marks its row in another session (`FailExport`, `MarkFailed`), unless
that fails too (`LeaveUnmarked`).

### RateLimit

One category and one identifier. Redis holds a count and an expiry per fixed window
(`counter`), each process a deque (`recent`) used while Redis is left alone
(`cooldownEnd`). A request keeps the time of its arrival; between its arrival and the
answer of Redis (`Answered`, `RedisFails`) others overtake it and the clock goes on.

### LlmExtraction

The three layers of one LLM request: limits and usage (`Start`, `Record`), the
structured output with its repair prompt (`UseContent`), the gateway's cascade of
providers with retries (`ProviderAnswers`, `Transient`, `NextProvider`,
`CascadeFails`). `answers` is the gateway's cache, keyed by the prompt (a repair is
another prompt), whose content may be malformed as well. `extract` records one call
for a valid answer, whatever the rounds; an answer that stays malformed, an error of
all providers and an error of the store end it unrecorded (`EndUnbooked`). `begun`
and `unbooked` count, per day, the extractions that passed the check and those that
were never booked.

### VaultWatcher

The two threads of the Obsidian connector's local mode. `observed` are events the
operating system has not delivered, `events` the handler's list, `drained` the copy that
`process_watcher_events` works on, `deletedPaths` the set that `fetch_since` reports
after its scan. Copy and clear are two steps under the lock (`draining`). A folder
that leaves the vault is told of as a folder, and the handler returns on the event of
a directory (`MoveFolderOut`).

### BillingMirror

The subscription row of one user. `Pay`, `StatusChanges` and `SubscriptionEnds` are
Stripe, which emits events. A delivery (`Handlers`) is two steps: `ReadForEvent` takes
any pending event and the row it finds (by subscription, then by customer),
`WriteForEvent` computes the new row from the one it has read and writes the columns
that differ, as the ORM does; two deliveries may overlap, and an UPDATE then overwrites
another's columns (`raced`). The event may come again. `AbortHandler` is the rollback
and the 500, the only way out for a second row of one user. The `After...` operators
are the five handlers; `Mapped` is the table of statuses with its default
`ACTIVE`: "unpaid" stands for every status the table does not name. `disordered`,
`overlapped`, `replaced` and `raced` are history.

### Marketplace

Requests of users on `installed_plugins` and `install_count`, cut at the statements:
plugin read, installations counted, row and counter written; row read, row
deleted and counter decremented. `uninstall_plugin` deletes the row it has loaded, by
its primary key: `outdated` are the requests whose row is gone, even if the user
has installed the plugin again. `DeleteAccount` is the foreign key that removes a
user's installations without touching a counter.

### Chunking, CoherenceChunks

`Chunking` is `ChunkingService.chunk` as a loop: segments with any lengths, tokens
added by joiners free, `Begin`, `Extend`, `EmitSegments`, `WalkBack`, `Advance` for the
greedy loop and its overlap, `Window` for a segment that is too long by itself. It
is a state machine rather than a recursive operator so that the loop invariant can
be proved. `CoherenceChunks` is the grouping of the semantic chunker, splitting
and merging intervals of sentences, against the definition of a partition. A
sentence behind a blank may have other tokens than by itself (`blankTokens`), so that
the count of a merged group is not the sum that the merge has checked. The overlap
that is put in front of each group afterwards is not modelled.

### EntityDedup

Transactions that extract a chunk: the names are resolved one SELECT after the other
(`Resolve`), then upserted (`UpsertEntity`, which waits for another transaction that
has touched the row), then committed or aborted as a whole. `DeleteChunk` is what
happens to the mentions when a document and its chunks are deleted. `Similar` is
a set of ordered pairs, because the ratio of difflib is not symmetric. `again`,
`parallel` and `unlinked` are history: names met again in a chunk that mentions them,
names that were new at the same time, mentions that went with their chunk.

## 3. What is checked

The passing runs of the first three groups check deadlock as well. Names in *italics*
are temporal.

| run | instance | shows |
|-----|----------|-------|
| BreakerShared | three coroutines, threshold 3, two retries, reset | TypeOK, CountFitsState, *CallsEnd*: each call ends, whatever the others do |
| SyncKinds | all four connectors, two items, two runs, pages of one, a flaky item, a recording without a transcript, one abort, edits at any time | TypeOK, LossesExplained, *GoesBackOnlyByOverlap* |
| SyncCatchesUp | Obsidian, three items, one run at a time, two aborts, no edit between fetch and upsert | NoLoss, *CatchesUp* |
| DocSync | two syncs, a disconnect or revocation, two jobs, two workers, one fault, one retry | TypeOK, WorkAccounted |
| DocLive | two items, all three routes, syncs with and without a cursor, reconnection, partial uploads, one retry | WorkAccounted, *PendingEnds*, *ErasedStaysErased* |
| Background | `MCBackground`: briefings, reminders, snapshots, erasure | the table below |
| Services | `MCServices`: request limits, LLM calls, vault watcher, chunks of a text, the breaker with one caller | the table below |
| Records | `MCServices`: subscription row, installations, entities, groups of sentences | the table below |

`MCBackground` and `MCServices` (eight services and the breaker) compose
components that share no table. Checking their product would only multiply state
spaces; a variable `focus`, chosen initially and never changed, says which
component a behaviour is about, and the others rest in their initial state. The
constant `InFocus` of `MCServices` is the set of components a run looks at: Records
has no temporal property, so it may use the symmetry of the webhook handlers
(SyncKinds and DocSync use that of workers, writers and jobs). Each property of a run
is thereby checked on the whole state space of its component. These three runs do not
check deadlock, since a component may run out of its bounds or, like a chunker,
finish.

| property | component | what it says |
|----------|-----------|--------------|
| MailsBounded | BriefingQueue | a briefing is mailed at most once per worker process and failure |
| InitialBounded | BriefingQueue | never more initial briefings than worker processes |
| *ScheduledIsMailed* | BriefingQueue | the latest scheduled briefing is mailed unless something refused or a message was lost with its child process; a worker that dies as a whole is no excuse |
| PendingBounded | ReminderEngine | at most one untouched reminder of a topic per overlapping run |
| *OverdueEscalates* | ReminderEngine | an overdue follow-up is escalated or dealt with, even if runs fail |
| WindowBounded, *ShrinkBounded* | SnapshotWindow | the window is exceeded by less than the number of captures; no capture takes it below its size less the square of the number of the others |
| ErasureComplete | AccountErasure | an undisturbed clean-up leaves nothing but the files of broken exports |
| *ExportEnds* | AccountErasure | an export ends unless its process dies, its request fails before the job starts, or the marking of its failure fails |
| AdmittedBounded, CountsOwnWindow | RateLimit | how many requests a window can let through at most; a window is charged only for its own |
| OvershootBounded, *ExtractionEnds* | LlmExtraction | what is booked on a day exceeds the limit by less than the coroutines, what is begun by less than that and what was never booked; each extraction ends |
| DeletionAccounted | VaultWatcher | a reported file that is gone is on its way to be reported as deleted, or its folder was moved, or nobody watched, or the event was discarded |
| ChunksCover, *ChunkingEnds* | Chunking | no token dropped, the loops end |
| *ImplementsContract* | CircuitBreaker | with one caller the breaker is its docstring's machine; it opens at exactly the threshold |
| MirrorsStripe | BillingMirror | Pro if and only if a subscription is active, in trial or in a status the code does not know; four named reasons for anything else: disorder, parallel handlers, two subscriptions at once, a replaced customer |
| ProWasPaid | BillingMirror | no Pro without payment, and the row names a subscription that was paid |
| InstallsBounded | Marketplace | the limit per user is exceeded by less than the overlapping requests |
| InstallCountExplained | Marketplace | the counter exceeds the installations by no more than the accounts deleted with them, and falls short by no more than the uninstallations that were counted twice |
| GroupsPartition | CoherenceChunks | every sentence in exactly one group; a merged group exceeds the limit by at most one blank |
| MentionsCounted | EntityDedup | the count of an entity is its mentions and those that went with a deleted chunk, but for names met again in the same chunk |
| DuplicatesExplained | EntityDedup | names that are similar in both directions share a row, unless both were new at the same time |

Four runs expect a violation: they check a sentence of the
repository that the code does not keep.

| run | sentence | what happens |
|-----|----------|--------------|
| SyncLostPage | "cursor watermarks persisted after each batch" (`src/README.md:60`) | `has_more` is reported and ignored; the watermark moves to now, past the pages never fetched |
| SyncCalendarStalls | "triggering full re-sync" (`connectors/google_calendar.py:304`) | the ISO watermark is sent as a sync token, the answer is 410, the result is empty, the watermark stays: every later sync is the same |
| DocTranscript | "Uploaded transcripts pass through the identical UDF pipeline" (`src/docs/adr/020-zoom-upload-statt-oauth-mvp.md:72`) | the route commits a pending row and dispatches nothing |
| DocumentDeleted | "Delete a document with cascaded cleanup across all storage layers." (`api/v1/routes/documents.py:318`) | vectors and nodes are removed, the DELETE of the row is executed, the route answers 204, nobody commits |

### Bounds and why they are enough

- Two coroutines, runs or writers make every overlap of two; the third coroutine
  of BreakerShared lets one sleep while two others trip and close the circuit.
- The single caller in Services has the code's default threshold
  (`connectors/resilience.py:73`), 3, and more retries than that (6), so that a single
  call can trip the circuit; BreakerShared uses fewer retries than the threshold, so
  that a call can be exhausted.
- Pages of one with two items make a page that is too small; `LastTick` 4 with two
  ticks per day gives edits on the day of the cursor, before and after it, and items
  older than a look-back of one day.
- One fault in DocSync puts a crash at every point of every process. `MaxVersion`
  2 gives one edit after the first import, which is what a stale commit needs.
- `MaxConns` 2 in DocLive lets a connection be erased and created again while an older
  transaction is still open.
- `Jobs` bounds the tasks in flight: `Dispatch` waits for a free one.

Faults are explored by DocSync, not by DocLive, and overlapping writers by DocSync, not
by DocLive, which has the routes, the reconnections and fairness.

Background:

- Briefings: one user with mail, the schedule "morning" (weekly differs in its
  name only), the two processes of the deployment, four briefings, three
  requests, one fault, one retry. Two overlapping generations and a redelivered
  or overlapping mail task fit into that; users are independent of each other,
  since each has a session of its own.
- Reminders: one topic, one follow-up, two overlapping runs, three reminders, one
  failed run. `RoomForMore` stops the user from closing reminders when ids run out, so
  that an engine run never lacks an id.
- Snapshots: a window of two instead of the code's 52, two captures, six snapshots:
  three full windows.
- Erasure: one document, one export, one fault: one store, one step of the
  export or one clean-up fails at any point. Exports have a row and a file each, and
  at most one is in progress unless two requests pass the check together, which no
  property turns on; the proof of `ErasureComplete` is for any number.

Services:

- RateLimit: one process, two requests, limits of one, windows of two ticks, a
  cool-down of one tick; four ticks reach the next window, after which a late
  answer finds its key expired.
- LlmExtraction: two coroutines, one text, two providers with one retry, one
  repair, a limit of one, at most four extractions a day, two days.
- VaultWatcher: one path, that of a file in a folder, and six changes: written,
  reported, deleted or moved with its folder, written again and deleted with the
  watcher stopped or running. Paths are independent of each other, because every event
  names one.
- Chunking: four segments of one to five tokens, four tokens per chunk, an
  overlap as long as a chunk (the boundary case) and joiners of zero or one token.

Records:

- BillingMirror: two checkouts, two parallel handlers, four events, one redelivery.
- Marketplace: one member, three plugins, two requests, a limit of one: the excess
  can be reached and could build up.
- CoherenceChunks: four sentences of one to four tokens, groups of two to three, a blank
  that may add one token: groups are split more than once and merged, and the merge can
  exceed the limit.
- EntityDedup: three names, two of them similar in both directions and the third to
  the first in one, two chunks, two transactions, three batches: a chunk is extracted
  again or deleted, and two extractions overlap.

### Fairness

- CircuitBreaker: the wrapped function answers or raises, and the event loop
  fires its timers. Nobody is obliged to call.
- ConnectorSync: beat dispatches `run_connector` for every active connection
  (`queue/celery_app.py`), and a started task goes on. Users and failures are
  free; failures are bounded by `MaxAborts`.
- DocumentPipeline: a request or task that began goes on, and Celery runs what is
  queued. Steps that may wait for a row lock (a commit whose rows another
  transaction has deleted, the DELETE of an erasure) get strong fairness,
  because PostgreSQL queues lock requests. Weak fairness is not enough there: an
  endless series of uploads that take the lock and are rolled back could
  overtake the embedding task each time.
- BriefingQueue: Celery runs what is queued and a started task goes on; beat, the
  pipeline's requests, refusals and crashes are free. ReminderEngine: beat starts the
  engine every day, and a run that is not killed goes on. AccountErasure: a
  background job that is not killed goes on; the clean-up has no fairness,
  because nothing in `src/` calls it.
- LlmExtraction: requests to providers have timeouts, so a coroutine that waits goes
  on. Chunking: a loop that can go on does.
- The other services have no liveness property and no fairness.

## 4. What is proved

Every safety property that a passing run checks, the invariants and the action
properties, is a theorem for every value of the constants that the assumptions
allow. `ImplementsContract` is a refinement and is proved as well. Each `...Proofs`
module proves that an inductive invariant holds and that the properties follow.

- `CircuitBreakerProofs`: `TypeCorrect` and `BooksBalance` (`CountFitsState`),
  for any set of callers, threshold and number of retries. The type invariant is
  strengthened only by what the count needs; then `CountFitsState` is inductive
  relative to it. `OneCallerKeepsContract` (`ImplementsContract`) and
  `OpensExactlyAtThreshold` (`OpenOnlyAtThreshold`, which no run checks, because the
  contract implies it) assume `OneCaller`: at most one
  coroutine and no `reset()`. They rest on `FindsWhatItEntered`: the answer of a
  call finds the circuit in the state that admitted the call. With two coroutines
  this fails, and with it the contract.
- `ConnectorSyncProofs`: `TypeCorrect` and `WatermarkIsHonest`
  (`LossesExplained`), for any finite set of items, any number of overlapping
  runs, every connector and page size, with edits and failures at any time.
  `LossesExplained` speaks of the watermark only; the invariant must say what a
  run in flight knows. `Causal`: nothing is stored, fetched or stamped before it was
  edited. `CursorsCovered`: the watermark a run started from is covered as well.
  `FetchedComplete`: a fetched page, and what it left out, make up for everything
  the table lacks. `UpsertedComplete`: the same of the pending writes up to
  the run's time stamp. A commit turns the last into coverage of the new
  watermark, and `CommitKeepsSettled` shows that a stale write of another run
  cannot silently unsettle an item. `RowsGoBackOnlyByOverlap`
  (`GoesBackOnlyByOverlap`) has no hypothesis about the runs: it adds that nothing a run
  has in hand is older than what is stored, unless another run has committed since it
  fetched (`NotStale`). `NothingIsLost` (`NoLoss`) assumes that runs do not overlap
  (`OneRun`), that a page holds everything there is (`OnePage`; a vault scan is never
  paged), that Zoom leaves nothing out (`ZoomLeavesNothing`: no recording beyond the
  look-back or without a transcript), no unreliable item and no edit between fetch and
  commit: then nothing is ever counted as missed, and `LossesExplained` has no excuse
  left. Aborts are allowed. Dropping any of the hypotheses makes the property false;
  `SyncLostPage` is the run that drops the page.
- `DocumentPipelineProofs`: `TypeCorrect` and `WorkIsAccountedFor`
  (`WorkAccounted`), for any number of writers, jobs, workers, versions and
  faults. The invariant adds `Tidy`: what the records of writers, erasers
  and jobs may hold in each phase (an idle writer has nothing to dispatch, a job
  has read only rows of its batch, and so on). The argument goes by action: one
  lemma shows that an unfinished row stays in somebody's hands as long as no
  list shrinks (`StillInHand`), and the steps that shrink lists are the commit,
  the dispatch, and the ends of a job. `ErasedForGood` (`ErasedStaysErased`) is for every set of
  routes. It rests on `WritersTouchTheConnection` (a transaction that is neither a
  sync without a cursor nor a transcript creates the connection or updates the one it
  read) and `SyncsStartConnected`: such a transaction cannot commit documents and
  leave the source disconnected.
- `BriefingQueueProofs`: `MailsAreBounded` (`MailsBounded`) and `InitialsAreBounded`
  (`InitialBounded`), for any number of users, workers, messages, retries and faults.
  `MailsBounded` alone is not inductive: a mail needs a process that read the briefing
  before the mark. `Postage` says that before the mark each mail is paid for by a fault or
  by the process that is about to mark it, and that after the mark the mails and the
  processes still about to send one are together bounded by faults and workers; a
  process that lets go of a briefing without marking it uses up a fault. For
  `InitialBounded`, `OnePlaceEach` adds to the initial briefings of a user the processes
  that are past the check for that user, who got there while there was no briefing.
- `BackgroundProofs`:
  - Reminders: `PendingIsBounded` (`PendingBounded`). An engine that has planned a topic may
    still insert; `Promised` counts it with the untouched reminders of the topic, and
    the sum never exceeds the engines. Rows get their ids from the number of members
    of the plan that come before (`RanksDiffer`), which needs that numbers of a finite
    set have different ranks.
  - Snapshots: `SnapshotTypeCorrect`, `WindowIsBounded` (`WindowBounded`) and `ShrinkIsBounded`
    (`ShrinkBounded`). `WindowBounded` is not inductive, for a capture acts on a
    count that others have made untrue. The invariant says that there is a map F from
    each capture to those that have committed since it counted (`Tracks`): what
    the capture would leave is off by at most one row upwards, and by one row less
    than there are captures downwards, for each member of F. A capture that commits
    twice counts after its own row, so F never holds it twice.
  - Erasure: `ErasureIsComplete` (`ErasureComplete`): what the clean-up has passed stays
    empty while nothing disturbs it.
  - `BackgroundIsEach`: a behaviour of `MCBackground` is one of each component, so that
    the theorems hold of what the run checks; `BackgroundTyped` is its type invariant.
- `CommerceProofs`:
  - Billing: `ProIsPaid` (`ProWasPaid`: the pending events and those in a handler's hands
    name only subscriptions that were paid, and so do the rows handlers have read) and
    `RowMirrorsStripe` (`MirrorsStripe`). The row lags behind Stripe, so the
    invariant is about the future: `CatchesUp` says that there is a sequence of
    rows, from the present one, through the events in hand and then the pending ones in
    their order, whose last agrees with Stripe. Stripe's next event lengthens it at the
    end, the end of a delivery shortens it at the front. As long as no two deliveries have
    overlapped, what a handler has read is the row (`SeenIsRow`, `SeenIsCurrent`).
    `SameCustomer` makes an event find the row, `PaidOnce` and `OneRunning` keep one
    subscription from speaking for another. The four ways in which this fails in the
    code, events out of order, parallel deliveries, two running subscriptions, a
    replaced customer, are the exceptions that the property names.
  - Marketplace: `PlacesHold` is the inductive invariant, rows of a user and
    requests past the check together, from which `InstallsAreBounded` (`InstallsBounded`)
    follows. `InstallCountsAreExplained` (`InstallCountExplained`) needs that a request
    that is about to delete holds a row that exists or is `outdated` (`RowsHeld`), and
    keeps both differences through the cascade.
- `ProcessingProofs`:
  - Chunking: `BehindIsCovered` is the loop invariant (everything before the chunk
    or the window under construction is covered, and the walk back stays inside the
    chunk just emitted), from which `NothingIsDropped` (`ChunksCover`) follows for every
    text, limit, overlap and set of joiners.
  - Semantic groups: `GroupsArePartition` (`GroupsPartition`), for every text, every set of
    breakpoints and all limits. The breakpoints in order (`InOrderOrders`) start a
    partition; a split and a merge replace neighbours in the row of groups (`SplitKeepsRow`,
    `MergeKeepsRow`); and the tokens of a merged group are those of its parts and at most
    one blank (`SumInTwo`, `SizesAdd`), so that the check before the merge bounds the
    result up to that blank, and a merge into a merged group checks the whole again.
  - LLM: `OvershootIsBounded` (`OvershootBounded`) adds the coroutines under way to the
    count of today, since each of them may still book, and counts what was begun as
    booked, under way, or ended unbooked (`Budget`). `ExtractionTyped` is the type invariant.
  - Entities: `DuplicatesAreExplained` (`DuplicatesExplained`: what a transaction has in hand
    as new is known to `parallel`), `MentionsAreCounted` (`MentionsCounted`, which a commit
    keeps because it adds to the count at least what it adds to the rows, and the
    deletion of a chunk because what it takes from the rows becomes `unlinked`).
- `ServiceProofs`:
  - Rate limiter: `WindowsKeepTheirCount` (`CountsOwnWindow`) and `AdmissionIsBounded`
    (`AdmittedBounded`). While a window lasts (`InWindow`) Redis has let through what it has
    counted and the deques still hold what memory let through, so each is within its
    limit; a key outlives its window (`KeysLast`). Once it is over (`AfterWindow`) only
    requests that were waiting at its end are let through, each once.
  - Watcher: `DeletionsAreAccounted` (`DeletionAccounted`). The events on their way are one queue
    (`Queue`), wherever the observer and the event loop have got to: drained events
    come before new ones, except between copy and clear, when the copy is still in the
    list. A step of either thread keeps the queue or takes its head, and what the
    queue makes of the deleted paths is given in closed form (`FoldIsTold`): the last
    event of a path decides. A folder's move takes its files out of the account.
  - `ServicesAreEach` and `ServicesTyped`: as for the background work.

Induction over data. The library's induction theorems take an operator as a
parameter, which the provers here cannot instantiate. Where a proof needs
induction (the fold over a list of events, the sum over the sentences of a
group) it takes the least counterexample: a non-empty set of numbers, or of subsets
of a finite set, has a least member (`LeastNumber`, `LeastSubset`, from the theorem on
well-founded orders), and the definition of the fold at that member contradicts it.

Assumptions are those of the modules' ASSUMEs (ranges of the numeric constants,
finiteness, that a later time is not on an earlier day, and that there are ids for
as many reminders as overlapping engine runs can create) and, where a theorem
states one, its own hypothesis: `OneCaller`, or `OneRun` and what `NothingIsLost` adds
to it.

Only model-checked is liveness: `CallsEnd`, `CatchesUp` of `ConnectorSync`, `PendingEnds`,
`ScheduledIsMailed`, `OverdueEscalates`, `ExportEnds`, `ExtractionEnds` and `ChunkingEnds`. It needs
fairness and ENABLED, which the prover does not handle. The four violations are
counterexamples that TLC finds, and need no proof.

## 5. What is not modelled, and simplifications

- The connector registry is empty in the shipped code (`register_connector` is
  called only by tests), and the circuit breaker is not yet used by a connector.
  The models take the code as it runs once they are wired up.
- `extract_entities` cannot succeed: it calls `ner.extract` with a parameter that does
  not exist, and the chain that would start it prepends the first task's result
  to its arguments. Its absence changes nothing in the modelled tables.
- `LLMGateway()` is constructed without its configuration in the briefing tasks, so as
  shipped every generation raises; `BriefingQueue` takes the outcome as open.
- `LLMEntityExtractor`, `LLMRateLimiter` and `EntityDeduplicationService` are not
  instantiated in `src/` outside the tests, `start_watcher`, `process_watcher_events` and
  `cleanup_expired_accounts` are not called there. Their callers are external:
  they may overlap in any way the classes allow.
- The upsert of an entity is written with `:metadata::jsonb`
  (`processing/entity_dedup.py:340`, `:346`). SQLAlchemy's `text()` does not take a name
  that is followed by a colon as a bind parameter, so that as shipped the statement
  would probably raise. `UpsertEntity` takes it as it is meant.
- An update to `incomplete` or `canceled` is left out of `BillingMirror` (a subscription
  ends with its `deleted` event), and so are prices and seats.
- `FinishDelete` leaves open whether the graph node goes: `_cascade_delete_neo4j`
  matches a property `owner_id`, while the graph builder writes `userId`.
- The Redis clean-up of an account's sessions is left out; nothing modelled reads them.
- `RateLimit` has time in ticks; the two Redis commands are one pipeline and one step.
- A reminder's texts, a snapshot's content, a briefing's content and the cost of an
  LLM answer are left out. `check_limits` refuses for calls, costs or tokens; the model
  has the calls.
- Embeddings computed by `generate_embeddings` are not stored; the task chunks
  the content hash and stores a count and a status. `embedded` is therefore a
  history variable.
- `cleanup_expired_documents` deletes rows with the status "expired", which no
  code sets.
- An upload takes its row locks in one step. Two uploads that lock rows in
  opposite orders would make PostgreSQL abort one of them; the outcome is that of
  `Rollback`.
- The eraser waits for rows another transaction has deleted, not for rows it has
  updated; an updated row that the eraser deletes first shows as StaleDataError
  in the writer, and the other order as an ordinary commit followed by the DELETE.
- `embedding_pipeline` can set the status "error" only after sleeping 60, 300 and
  1500 seconds, which is more than the task's soft_time_limit of 600: the attempt
  ends with the task's own retry instead (`EmbedFails`).
- The status of a connection, SyncRun rows and the audit log are left out.

### Differences not given a run

Met while modelling; each is visible in the modules.

- Two coroutines can probe a half-open circuit at once, where the docstring
  allows one (`connectors/resilience.py:9`, `:132`). A coroutine that wakes from
  its back-off calls the service although the circuit has opened meanwhile
  (`:7`), and a call can run out of retries with the circuit closed, against the
  comment at `:234`.
- The watermark is taken after the page was fetched, so an edit made in between is
  skipped until the item is edited again (`ingestion/pipeline.py:91`).
- "Every step is safe to re-run" (`src/README.md:60`): of two overlapping runs the one
  that fetched first can commit last and put a row back to older content
  (`ingestion/pipeline.py:158`); `GoesBackOnlyByOverlap` names this as the only way.
- A sync writes the connection row only if the connector returned a cursor
  (`ingestion/pipeline.py:90`), so one without a cursor stores documents of a source that
  was disconnected meanwhile, although "Alle Daten dieser Quelle werden gelöscht"
  (`src/docs/LEGAL_COMPLIANCE.md:244`); `ErasedStaysErased` names this exception.
- "Maximum LLM calls per user per day." (`core/rate_limiter.py:101`): an answer that stays
  malformed (`processing/llm_ner.py:300`), an error of all providers and a failed booking
  (`:322`) end an extraction without its being booked, so that any number can be
  begun; `OvershootBounded` counts them as `unbooked`.
- "sync status and period" (`billing/service.py:365`): a status that is not in the table,
  such as `unpaid`, `paused` or `incomplete_expired`, becomes ACTIVE (`:395`) and grants Pro;
  `MirrorsStripe` counts such a subscription as one that gives Pro.
- The count of a merged group is the sum of its parts (`processing/semantic_chunker.py:532`),
  but the text joined by blanks may have more tokens; `GroupsPartition` allows the
  blank. The overlap comes on top of `max_tokens`, the "Hard upper bound on tokens per
  chunk." (`:84`).
- A folder that is moved out of the vault or deleted is reported as a directory,
  which the handler ignores (`connectors/obsidian.py:280`): the deletions of its files
  are lost unless they have events of their own.
- The children of a Celery worker that are killed take their message with them
  (`queue/celery_app.py` sets `task_acks_late`, not `task_reject_on_worker_lost`): a batch
  stays pending, a briefing is not mailed.
- The foreign keys that delete installations with their user (`models/plugin.py:112`) and
  mentions with their chunk (`models/entity.py:55`) leave `install_count` and
  `mention_count` as they are.
- An export stays "processing", and bars its user from another, if the route fails
  between the commit of the row and the start of the job
  (`api/v1/routes/user.py:417`) or the marking of a failure fails
  (`dsgvo/export_service.py:178`).
- The documents and the watermark are committed before `process_documents.delay`
  (`queue/tasks/ingestion.py:80`): if the process dies in between, the rows stay
  pending although the pipeline restarts "ohne Datenverlust" (`src/ARCHITECTURE.md:42`).
  `stranded` counts them.
- DELETE FROM documents (`api/v1/routes/connectors.py:1280`) misses a sync that commits
  before the connection row is deleted, against "cascade-deletes all imported documents"
  (`:1235`).
- `delete_briefing`, the feedback route and the outbound webhook routes never commit, like
  `delete_document`; `get_db_session` does not either.
- `send_briefing_emails` "Loads the most recent briefing" (`queue/tasks/briefing.py:352`), but picks
  the most recent unsent one: after a mail failure an old briefing can follow a newer
  one. The broker's refusal of the mail task retries the whole generation and writes
  the briefings again. "Only the first invocation" (`:66`) generates an initial
  briefing unless two overlap. SoftTimeLimitExceeded is swallowed by the handler of one
  user's errors. POST /briefings/generate imports a name that `db/postgres.py` lacks.
- A capture with an out-of-date count leaves fewer snapshots than the window
  (`snapshots/service.py:135`).
- A snoozed reminder never returns to pending, and the engine creates another one for
  a topic whose reminder is snoozed or dismissed, every day.
- A deletion cancelled between the selection and the DELETE of `cleanup_expired_accounts`
  is carried out nevertheless (`dsgvo/deletion_service.py:76`).
- A repeated or late `checkout.session.completed` after the deletion of the subscription
  makes the user Pro again, against "idempotently" (`billing/service.py:283`); of two
  overlapping checkouts the first one's event fails for ever; the late update of an old
  subscription changes the status of the new one, found by its customer.
- `GraphBuilder`: "All writes use MERGE for idempotency", but ON MATCH increments
  mentionCount. `EntityDeduplicationService` increments `mention_count` with every extraction
  while a mention is inserted once; similar names of one chunk get two rows; after a
  failed statement the transaction is aborted, though the result lists what came
  before.
- A file that is created again between the processing of its deletion and the scan is
  reported as present and then as deleted (`connectors/obsidian.py:606`).
- A chunk that consists of overlap only can be contained in its predecessor
  (`processing/chunking.py:225`).
- trigger_sync refuses for five minutes after the watermark, which a sync moves only at its
  end: several can be dispatched meanwhile.

### Not modelled

- Knowledge graph and search: single Cypher or SQL statements over stores that keep
  their own consistency, and arithmetic on real-valued weights, of which TLA+ with TLC
  would show nothing.
- Workflows, outbound webhooks, SSO, ratings, insights and analytics: each request is
  one transaction over rows of its own, without a second actor that writes the same
  row; webhook delivery is a loop of three attempts that shares nothing.
- Organisations and referrals do check a row and write in a later statement: the owner
  check of `teams/service.py` reads the acting member and then changes another, and
  `get_or_create_referral_code` (`api/v1/routes/referrals.py:63`) inserts a code after
  finding no pending one, with no unique constraint behind it. They are small and on
  their own; section 6 names them.
- Briefing context assembly, prompts, normalisers, parsers, multimodal
  processing: sequential text processing.
- Authentication and sessions: outside the scope of this project.
- Frontend, browser and Obsidian plugins, migrations, deployment files.

## 6. What is left

1. The partial success and the sleeps of `processing/embedding_pipeline.py`, which need a
   clock in `DocumentPipeline`.
2. The disconnect that waits for updated rows, and uploads that lock row by row, so that
   PostgreSQL's deadlock detection is an action of its own.
3. Referral codes and organisation roles: the check and the write of each are two
   statements that a second request can come between.

## 7. Running the checks

    tlc -config DocSync.cfg MCDocumentPipeline      # and the other runs
    tlc -config Services.cfg MCServices
    tlapm DocumentPipelineProofs.tla                # and the other proofs

`PROJECT.json` names the module of each run, the mutated definitions that show
that each property can fail, the lines of code each definition stands for, and
the hazards the properties are meant for.
