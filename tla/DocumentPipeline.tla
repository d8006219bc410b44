--------------------------- MODULE DocumentPipeline ---------------------------
(***************************************************************************)
(* The documents of one user and one source type: the transactions that    *)
(* write them (run_connector, the Obsidian and Zoom uploads), the ones that*)
(* erase them (disconnect, revoke_consent), and the Celery tasks that turn *)
(* "pending" into "done" (process_documents, generate_embeddings).         *)
(*                                                                         *)
(* PostgreSQL runs at READ COMMITTED: a transaction reads what is committed*)
(* at each statement; its own writes take effect at its commit; an UPDATE  *)
(* of a row that is gone by then makes SQLAlchemy raise StaleDataError.  A *)
(* document's content is a version number; which items a fetch returns is  *)
(* the subject of ConnectorSync, here it is what changed since the last    *)
(* sync committed.                                                         *)
(***************************************************************************)
EXTENDS Naturals, FiniteSets

CONSTANTS
    Sources,       \* source_ids of the external items
    Writers,       \* requests and run_connector tasks that may overlap
    Jobs,          \* bound: processing tasks in flight
    Routes,        \* how documents arrive: subset of {"sync", "upload", "transcript"}
    Cursorless,    \* whether a sync may fetch documents and no new cursor
    EmbedWorkers,  \* concurrency of the processing queue
    MaxVersion,    \* bound: versions of an item's content
    MaxRows,       \* bound: times a document row is re-created for one source_id
    MaxConns,      \* bound: connections ever created
    MaxFaults,     \* bound: crashes, broker failures, failed embedding attempts
    MaxRetries     \* max_retries of generate_embeddings

ASSUME PipelineAssumption ==
    /\ IsFiniteSet(Sources) /\ IsFiniteSet(Jobs)
    /\ Routes \subseteq {"sync", "upload", "transcript"}
    /\ Cursorless \in BOOLEAN
    /\ EmbedWorkers \in Nat /\ MaxVersion \in Nat \ {0} /\ MaxRows \in Nat
    /\ MaxConns \in Nat \ {0} /\ MaxFaults \in Nat /\ MaxRetries \in Nat

DocIds == Sources \X (1..MaxRows)
KeyOf(d) == d[1]

VARIABLES
    item,      \* external item: its version
    fresh,     \* items changed since the last committed sync
    conn,      \* id of the Connection row, 0 if there is none
    conns,     \* ids handed out so far
    consent,   \* an unrevoked ConnectorConsent row exists
    live,      \* ids of the Document rows
    gone,      \* ids of deleted rows
    content,   \* Document.content_hash
    status,    \* Document.processing_status
    embedded,  \* history: the contents a committed generate_embeddings has read
    writer,    \* one record per writing transaction
    eraser,    \* the erasing transaction
    job,       \* one record per processing task
    faults,    \* faults so far
    stranded   \* history: unfinished rows that no task will pick up again

outside == <<item, fresh>>
tables == <<conn, conns, consent, live, gone, content, status, embedded>>
vars == <<outside, tables, writer, eraser, job, faults, stranded>>

Idle == [at |-> "idle", route |-> "none", touch |-> "none", conn |-> 0,
         target |-> [s \in Sources |-> 0], rows |-> {}, drop |-> {}, todo |-> {}]
NoErase == [at |-> "idle", by |-> "none", conn |-> 0, doomed |-> {}]
Free == [at |-> "free", docs |-> {}, tries |-> 0,
         seen |-> [d \in DocIds |-> 0], dirty |-> {}, read |-> {}]

Transactions ==
    [at : {"idle", "loaded", "fetched", "planned", "committed"},
     route : Routes \cup {"none"}, touch : {"none", "create", "update"}, conn : 0..MaxConns,
     target : [Sources -> 0..MaxVersion],
     rows : SUBSET DocIds, drop : SUBSET DocIds, todo : SUBSET DocIds]
Erasures ==
    [at : {"idle", "selected", "deleted"}, by : {"none", "disconnect", "revoke"},
     conn : 0..MaxConns, doomed : SUBSET DocIds]
Tasks ==
    [at : {"free", "queued", "embed", "running"}, docs : SUBSET DocIds, tries : 0..MaxRetries,
     seen : [DocIds -> 0..MaxVersion], dirty : SUBSET DocIds, read : SUBSET DocIds]

TypeOK ==
    /\ item \in [Sources -> 1..MaxVersion] /\ fresh \subseteq Sources
    /\ conns \in 0..MaxConns /\ conn \in 0..conns /\ consent \in BOOLEAN
    /\ live \subseteq DocIds /\ gone \subseteq DocIds \ live
    /\ content \in [DocIds -> 0..MaxVersion]
    /\ status \in [DocIds -> {"pending", "done"}]
    /\ embedded \in [DocIds -> SUBSET (0..MaxVersion)]
    /\ writer \in [Writers -> Transactions] /\ eraser \in Erasures
    /\ job \in [Jobs -> Tasks]
    /\ faults \in 0..MaxFaults /\ stranded \subseteq DocIds

Init ==
    /\ item = [s \in Sources |-> 1] /\ fresh = Sources
    /\ conn = 1 /\ conns = 1 /\ consent = TRUE
    /\ live = {} /\ gone = {}
    /\ content = [d \in DocIds |-> 0]
    /\ status = [d \in DocIds |-> "pending"]
    /\ embedded = [d \in DocIds |-> {}]
    /\ writer = [w \in Writers |-> Idle]
    /\ eraser = NoErase
    /\ job = [j \in Jobs |-> Free]
    /\ faults = 0 /\ stranded = {}

-----------------------------------------------------------------------------
(* The user's side.                                                        *)

Edit(s) ==
    /\ item[s] < MaxVersion
    /\ item' = [item EXCEPT ![s] = @ + 1]
    /\ fresh' = fresh \cup {s}
    /\ UNCHANGED <<tables, writer, eraser, job, faults, stranded>>

\* oauth_callback (or configure_connector): find or create the Connection row.
Connect ==
    /\ conn = 0 /\ conns < MaxConns
    /\ conn' = conns + 1 /\ conns' = conns + 1
    /\ fresh' = Sources
    /\ UNCHANGED <<item, consent, live, gone, content, status, embedded,
                   writer, eraser, job, faults, stranded>>

GrantConsent ==
    /\ ~consent
    /\ consent' = TRUE
    /\ UNCHANGED <<outside, conn, conns, live, gone, content, status, embedded,
                   writer, eraser, job, faults, stranded>>

-----------------------------------------------------------------------------
(* Writing transactions.                                                   *)

\* Rows that processing still owes something: a status, or this content.
Unfinished(d) == d \in live /\ (status[d] = "pending" \/ content[d] \notin embedded[d])

RowOf(s) == {d \in live : KeyOf(d) = s}
Rows(S) == {d \in live : KeyOf(d) \in S}

\* Rows that an open transaction has deleted; other writers wait for it.
Locked(w) == eraser.doomed \cup UNION {writer[v].drop : v \in Writers \ {w}}

SyncLoad(w) ==
    /\ "sync" \in Routes
    /\ writer[w].at = "idle" /\ conn # 0
    /\ writer' = [writer EXCEPT ![w] =
                    [Idle EXCEPT !.at = "loaded", !.route = "sync", !.conn = conn]]
    /\ UNCHANGED <<outside, tables, eraser, job, faults, stranded>>

\* The watermark, and so the connection row, is written only if the connector
\* returned a cursor; a calendar answer without a nextSyncToken has none.
SyncFetch(w) ==
    /\ writer[w].at = "loaded"
    /\ \E touch \in {"update"} \cup (IF Cursorless THEN {"none"} ELSE {}) :
         writer' = [writer EXCEPT ![w].at = "fetched", ![w].touch = touch,
                      ![w].target = [s \in Sources |-> IF s \in fresh THEN item[s] ELSE 0]]
    /\ UNCHANGED <<outside, tables, eraser, job, faults, stranded>>

\* _upsert_documents: every fetched row becomes pending, changed or not.
SyncUpsert(w) ==
    /\ writer[w].at = "fetched"
    /\ writer' = [writer EXCEPT ![w].at = "planned",
                    ![w].rows = Rows({s \in Sources : writer[w].target[s] # 0})]
    /\ UNCHANGED <<outside, tables, eraser, job, faults, stranded>>

\* upload_obsidian: the zip holds the vault as it is now, or part of it; rows
\* of files that are not in it are deleted, unchanged ones are left alone.
Upload(w) ==
    /\ "upload" \in Routes
    /\ writer[w].at = "idle" /\ (conn # 0 \/ conns < MaxConns)
    /\ \E files \in (SUBSET Sources) \ {{}} :
         LET changed == {s \in files : \A d \in RowOf(s) : content[d] # item[s]}
         IN writer' = [writer EXCEPT ![w] =
              [Idle EXCEPT !.at = "planned", !.route = "upload",
                           !.touch = IF conn = 0 THEN "create" ELSE "update",
                           !.conn = conn,
                           !.target = [s \in Sources |-> IF s \in changed THEN item[s] ELSE 0],
                           !.rows = Rows(changed),
                           !.drop = Rows(Sources \ files)]]
    /\ Rows(Sources) \cap Locked(w) = {}
    /\ UNCHANGED <<outside, tables, eraser, job, faults, stranded>>

\* upload_zoom_transcript: one new document, whose source_id is its
\* content; refused if it is there already.
Transcript(w) ==
    /\ "transcript" \in Routes
    /\ writer[w].at = "idle" /\ (conn # 0 \/ conns < MaxConns)
    /\ \E s \in Sources :
         /\ RowOf(s) = {}
         /\ writer' = [writer EXCEPT ![w] =
              [Idle EXCEPT !.at = "planned", !.route = "transcript",
                           !.touch = IF conn = 0 THEN "create" ELSE "none",
                           !.conn = conn,
                           !.target = [t \in Sources |-> IF t = s THEN 1 ELSE 0]]]
    /\ UNCHANGED <<outside, tables, eraser, job, faults, stranded>>

\* New ids for the keys a writer inserts.
NextId(s) == {d \in DocIds : /\ KeyOf(d) = s /\ d \notin live \cup gone
                             /\ \A e \in DocIds : KeyOf(e) = s /\ e[2] < d[2]
                                                    => e \in live \cup gone}
InsertKeys(p) == {s \in Sources : p.target[s] # 0 /\ \A d \in p.rows : KeyOf(d) # s}
Inserted(p) == UNION {NextId(s) : s \in InsertKeys(p)}

\* Mutant: the connection row is not written, so its deletion goes unnoticed.
Conflict_IgnoresConnection(p) ==
    \/ ~(p.rows \subseteq live)
    \/ Rows(InsertKeys(p)) # {}
    \/ p.touch = "create" /\ conn # 0

\* The unique constraints and the row counts that the ORM verifies.
Conflict(p) ==
    \/ ~(p.rows \subseteq live)
    \/ Rows(InsertKeys(p)) # {}
    \/ p.touch = "update" /\ conn # p.conn
    \/ p.touch = "create" /\ conn # 0

\* Not in the code: the bounds MaxRows and MaxConns end a transaction too.
BoundReached(p) ==
    \/ \E s \in InsertKeys(p) : NextId(s) = {}
    \/ p.touch = "create" /\ conns = MaxConns

\* Mutant: only inserted rows are handed to the processing pipeline.
ToProcess_InsertsOnly(p) == Inserted(p)

\* The document_ids that the transaction reports.
ToProcess(p) == p.rows \cup Inserted(p)

Commit(w) ==
    LET p == writer[w]
        written == p.rows \cup Inserted(p)
    IN /\ p.at = "planned"
       /\ p.rows \cap Locked(w) = {} /\ ~Conflict(p) /\ ~BoundReached(p)
       /\ conn' = IF p.touch = "create" THEN conns + 1 ELSE conn
       /\ conns' = IF p.touch = "create" THEN conns + 1 ELSE conns
       /\ live' = (live \cup Inserted(p)) \ p.drop
       /\ gone' = gone \cup (p.drop \cap live)
       /\ content' = [d \in DocIds |-> IF d \in written THEN p.target[KeyOf(d)] ELSE content[d]]
       /\ status' = [d \in DocIds |-> IF d \in written THEN "pending" ELSE status[d]]
       /\ fresh' = IF p.route = "sync" /\ p.touch = "update" THEN {} ELSE fresh
       /\ writer' = [writer EXCEPT ![w] =
                       IF p.route = "transcript"
                       THEN Idle
                       ELSE [Idle EXCEPT !.at = "committed", !.route = p.route, !.todo = ToProcess(p)]]
       /\ stranded' = IF p.route = "transcript" THEN stranded \cup written
                      ELSE stranded \ (p.drop \cup written)
       /\ UNCHANGED <<item, consent, embedded, eraser, job, faults>>

\* StaleDataError or IntegrityError: rolled back; the task is retried from the
\* start, the request answers 500.
Rollback(w) ==
    /\ writer[w].at = "planned"
    /\ writer[w].rows \cap Locked(w) = {}
    /\ Conflict(writer[w]) \/ BoundReached(writer[w])
    /\ writer' = [writer EXCEPT ![w] = Idle]
    /\ UNCHANGED <<outside, tables, eraser, job, faults, stranded>>

\* Mutant: a failing delay() is swallowed as if the queue were optional.
Dispatch_Forgets(w) ==
    /\ writer[w].at = "committed"
    /\ writer' = [writer EXCEPT ![w] = Idle]
    /\ UNCHANGED <<outside, tables, eraser, job, faults, stranded>>

\* After the commit: process_documents.delay(ids, owner).
Dispatch(w) ==
    /\ writer[w].at = "committed"
    /\ IF writer[w].todo = {}
       THEN UNCHANGED job
       ELSE \E j \in Jobs :
              /\ job[j].at = "free"
              /\ job' = [job EXCEPT ![j] = [Free EXCEPT !.at = "queued", !.docs = writer[w].todo]]
    /\ writer' = [writer EXCEPT ![w] = Idle]
    /\ UNCHANGED <<outside, tables, eraser, faults, stranded>>

\* The process dies, or the broker refuses the message.  Before the commit
\* nothing has happened; after it, the watermark is already past the batch.
WriterDies(w) ==
    /\ writer[w].at # "idle" /\ faults < MaxFaults
    /\ faults' = faults + 1
    /\ stranded' = stranded \cup {d \in writer[w].todo : Unfinished(d)}
    /\ writer' = [writer EXCEPT ![w] = Idle]
    /\ UNCHANGED <<outside, tables, eraser, job>>

-----------------------------------------------------------------------------
(* Erasing transactions: disconnect and revoke_consent.                    *)

Disconnect ==
    /\ eraser.at = "idle" /\ conn # 0
    /\ eraser' = [NoErase EXCEPT !.at = "selected", !.by = "disconnect", !.conn = conn]
    /\ UNCHANGED <<outside, tables, writer, job, faults, stranded>>

RevokeConsent ==
    /\ eraser.at = "idle" /\ consent
    /\ eraser' = [NoErase EXCEPT !.at = "selected", !.by = "revoke"]
    /\ UNCHANGED <<outside, tables, writer, job, faults, stranded>>

\* DELETE FROM documents: the rows committed when the statement runs.
EraseDocuments ==
    /\ eraser.at = "selected"
    /\ \A w \in Writers : writer[w].drop = {}
    /\ eraser' = [eraser EXCEPT !.at = "deleted", !.doomed = live]
    /\ UNCHANGED <<outside, tables, writer, job, faults, stranded>>

\* DELETE FROM connections and COMMIT.  disconnect deletes the row it selected
\* at the start, revoke_consent the one it finds now.
EraseCommit ==
    /\ eraser.at = "deleted"
    /\ live' = live \ eraser.doomed
    /\ gone' = gone \cup eraser.doomed
    /\ conn' = IF eraser.by = "revoke" \/ conn = eraser.conn THEN 0 ELSE conn
    /\ consent' = (consent /\ eraser.by # "revoke")
    /\ stranded' = stranded \ eraser.doomed
    /\ eraser' = NoErase
    /\ UNCHANGED <<outside, conns, content, status, embedded, writer, job, faults>>

-----------------------------------------------------------------------------
(* Celery tasks.  process_documents is acknowledged when it is received,   *)
(* generate_embeddings when it is finished.                                *)

ProcessDocuments(j) ==
    /\ job[j].at = "queued"
    /\ job' = [job EXCEPT ![j].at = "embed"]
    /\ UNCHANGED <<outside, tables, writer, eraser, faults, stranded>>

LoseMessage(j) ==
    /\ job[j].at = "queued" /\ faults < MaxFaults
    /\ faults' = faults + 1
    /\ stranded' = stranded \cup {d \in job[j].docs : Unfinished(d)}
    /\ job' = [job EXCEPT ![j] = Free]
    /\ UNCHANGED <<outside, tables, writer, eraser>>

EmbedStart(j) ==
    /\ job[j].at = "embed"
    /\ Cardinality({k \in Jobs : job[k].at = "running"}) < EmbedWorkers
    /\ job' = [job EXCEPT ![j].at = "running"]
    /\ UNCHANGED <<outside, tables, writer, eraser, faults, stranded>>

\* Read one row and embed it; a row that is gone is skipped.  The new status
\* and chunk_count are dirty only if the row was not already "done".
EmbedRead(j, d) ==
    /\ job[j].at = "running" /\ d \in job[j].docs \ job[j].read
    /\ job' = [job EXCEPT ![j].read = @ \cup {d},
                          ![j].seen[d] = IF d \in live THEN content[d] ELSE 0,
                          ![j].dirty = IF d \in live /\ status[d] # "done"
                                       THEN @ \cup {d} ELSE @]
    /\ UNCHANGED <<outside, tables, writer, eraser, faults, stranded>>

EmbedDone(j) ==
    /\ job[j].at = "running" /\ job[j].read = job[j].docs
    /\ job[j].dirty \cap (eraser.doomed \cup UNION {writer[w].drop : w \in Writers}) = {}

\* Mutant: chunk_count is stored, processing_status is not.
EmbedCommit_KeepsStatus(j) ==
    /\ EmbedDone(j) /\ job[j].dirty \subseteq live
    /\ embedded' = [d \in DocIds |-> IF d \in job[j].read THEN embedded[d] \cup {job[j].seen[d]}
                                                          ELSE embedded[d]]
    /\ job' = [job EXCEPT ![j] = Free]
    /\ UNCHANGED <<outside, conn, conns, consent, live, gone, content, status, writer, eraser,
                   faults, stranded>>

\* One commit for the whole batch.  (A row that was gone counts as read with
\* content 0, which no row has.)
EmbedCommit(j) ==
    /\ EmbedDone(j) /\ job[j].dirty \subseteq live
    /\ status' = [d \in DocIds |-> IF d \in job[j].dirty THEN "done" ELSE status[d]]
    /\ embedded' = [d \in DocIds |-> IF d \in job[j].read THEN embedded[d] \cup {job[j].seen[d]}
                                                          ELSE embedded[d]]
    /\ job' = [job EXCEPT ![j] = Free]
    /\ UNCHANGED <<outside, conn, conns, consent, live, gone, content, writer, eraser,
                   faults, stranded>>

\* Mutant: one retry more than max_retries.
RetryOrGiveUp_OneTooMany(j) ==
    IF job[j].tries <= MaxRetries
    THEN /\ job' = [job EXCEPT ![j] = [Free EXCEPT !.at = "embed", !.docs = job[j].docs,
                                                   !.tries = job[j].tries + 1]]
         /\ UNCHANGED stranded
    ELSE /\ job' = [job EXCEPT ![j] = Free]
         /\ stranded' = stranded \cup {d \in job[j].docs : Unfinished(d)}

\* self.retry, until max_retries.
RetryOrGiveUp(j) ==
    IF job[j].tries < MaxRetries
    THEN /\ job' = [job EXCEPT ![j] = [Free EXCEPT !.at = "embed", !.docs = job[j].docs,
                                                   !.tries = job[j].tries + 1]]
         /\ UNCHANGED stranded
    ELSE /\ job' = [job EXCEPT ![j] = Free]
         /\ stranded' = stranded \cup {d \in job[j].docs : Unfinished(d)}

\* A row of the batch was deleted meanwhile: StaleDataError for the whole batch.
EmbedStale(j) ==
    /\ EmbedDone(j) /\ ~(job[j].dirty \subseteq live)
    /\ RetryOrGiveUp(j)
    /\ UNCHANGED <<outside, tables, writer, eraser, faults>>

\* The provider stays down until soft_time_limit: the attempt fails.
EmbedFails(j) ==
    /\ job[j].at = "running" /\ faults < MaxFaults
    /\ faults' = faults + 1
    /\ RetryOrGiveUp(j)
    /\ UNCHANGED <<outside, tables, writer, eraser>>

\* The worker goes down with its connection to the broker: acks_late, so the
\* message is delivered again.  Or only the child dies that ran the task (out of
\* memory, hard time limit): task_reject_on_worker_lost is not set, so the parent
\* acknowledges the message, and the batch is lost.
EmbedCrash(j) ==
    /\ job[j].at = "running" /\ faults < MaxFaults
    /\ faults' = faults + 1
    /\ \/ /\ job' = [job EXCEPT ![j] = [Free EXCEPT !.at = "embed", !.docs = job[j].docs,
                                                    !.tries = job[j].tries]]
          /\ UNCHANGED stranded
       \/ /\ job' = [job EXCEPT ![j] = Free]
          /\ stranded' = stranded \cup {d \in job[j].docs : Unfinished(d)}
    /\ UNCHANGED <<outside, tables, writer, eraser>>

WriterStep(w) == \/ SyncLoad(w) \/ SyncFetch(w) \/ SyncUpsert(w)
                 \/ Upload(w) \/ Transcript(w)
                 \/ Commit(w) \/ Rollback(w) \/ Dispatch(w) \/ WriterDies(w)
EraserStep == Disconnect \/ RevokeConsent \/ EraseDocuments \/ EraseCommit
EmbedStep(j) == \/ ProcessDocuments(j) \/ EmbedStart(j)
                \/ (\E d \in DocIds : EmbedRead(j, d)) \/ EmbedCommit(j) \/ EmbedStale(j)
JobStep(j) == EmbedStep(j) \/ LoseMessage(j) \/ EmbedFails(j) \/ EmbedCrash(j)

Next ==
    \/ \E s \in Sources : Edit(s)
    \/ Connect \/ GrantConsent
    \/ \E w \in Writers : WriterStep(w)
    \/ EraserStep
    \/ \E j \in Jobs : JobStep(j)

Spec == Init /\ [][Next]_vars

\* A request or a task that has begun goes on, and Celery runs what is queued;
\* nobody has to upload, sync or disconnect.  PostgreSQL grants a row lock in
\* the order of the requests, so a statement that waits for one is not
\* overtaken for ever: strong fairness for the steps that may wait.
FairSpec ==
    /\ Spec
    /\ \A w \in Writers : /\ WF_vars(SyncFetch(w) \/ SyncUpsert(w) \/ Dispatch(w))
                          /\ SF_vars(Commit(w) \/ Rollback(w))
    /\ SF_vars(EraseDocuments) /\ WF_vars(EraseCommit)
    /\ \A j \in Jobs : /\ WF_vars(EmbedStep(j))
                       /\ SF_vars(EmbedCommit(j) \/ EmbedStale(j))

-----------------------------------------------------------------------------
(* Properties.                                                             *)

\* Somebody still has the row on a list: a writer between its commit and its
\* dispatch, or a task that has yet to read it, or has read what it now holds
\* and will commit that.
InHand(d) ==
    \/ \E w \in Writers : d \in writer[w].todo
    \/ \E j \in Jobs :
         /\ d \in job[j].docs
         /\ d \in job[j].read => /\ job[j].seen[d] = content[d]
                                 /\ status[d] = "done" \/ d \in job[j].dirty

\* Every row that is still "pending", or "done" for a content nobody embedded,
\* is in somebody's hands or was given up at a point the model names: whatever
\* overlaps (writers, erasures, tasks that read before a write and commit
\* after it), no other path loses work (upload_obsidian, run_connector,
\* process_documents, generate_embeddings).
WorkAccounted == \A d \in DocIds : Unfinished(d) => InHand(d) \/ d \in stranded

\* While the source stays disconnected, whatever began before the disconnect,
\* only a transaction that does not write the connection row adds a document: a
\* sync whose connector returned no cursor, or an uploaded transcript.  The
\* others depend at their commit on the connection they started from.
ErasedStaysErased ==
    [][conn = 0 /\ conn' = 0 =>
         \/ live' \subseteq live
         \/ \E w \in Writers : /\ Commit(w) /\ writer[w].touch = "none"
                               /\ writer[w].route \in {"sync", "transcript"}]_vars

\* A pending document is embedded, deleted, or given up: the batch retries of
\* generate_embeddings and the locks of erasing transactions cannot keep it
\* waiting for ever.
PendingEnds == \A d \in DocIds :
    (d \in live /\ status[d] = "pending") ~>
        (d \notin live \/ status[d] = "done" \/ d \in stranded)

\* docs/adr/020:72 "Uploaded transcripts pass through the identical UDF
\* pipeline": a document that upload_zoom_transcript stores as "pending" is
\* processed, like one that run_connector stores.
TranscriptIsQueued == \A d \in DocIds :
    (d \in live /\ status[d] = "pending") ~> (d \notin live \/ status[d] = "done")
===============================================================================
