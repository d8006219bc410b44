----------------------------- MODULE AccountErasure -----------------------------
(***************************************************************************)
(* One account over four stores: PostgreSQL, the vectors, the graph and    *)
(* the export files.  The routes that schedule and cancel the deletion,    *)
(* cleanup_expired_accounts (its caller, who commits, is external), the    *)
(* data export in the background, delete_document, and the embedding tasks *)
(* that go on meanwhile.                                                   *)
(***************************************************************************)
EXTENDS Naturals, FiniteSets

CONSTANTS
    Documents,
    Exports,           \* bound: export jobs ever started
    MaxErasureFaults   \* bound: stores that fail, processes that die

ASSUME ErasureAssumption == IsFiniteSet(Documents) /\ MaxErasureFaults \in Nat

VARIABLES
    account,      \* the users row: "active", "scheduled", "due" or "deleted"
    rows,         \* documents with their chunks
    vectors,      \* documents with vectors
    nodes,        \* documents with a graph node
    embedded,     \* documents with processing_status "done"
    embedding,    \* documents whose embedding task has read the row
    deletion,     \* documents whose delete_document has read its chunks
    export,       \* data_exports.status, and whether the job still runs
    zips,         \* export files on disk
    cleanup,      \* the next store of the clean-up
    claimed,      \* history: documents whose deletion was answered with 204
    disturbed,    \* history: a store failed, or a task of the user ran, in a clean-up
    erasureFaults

erasureStores == <<rows, vectors, nodes, embedded>>
erasureTasks == <<embedding, deletion>>
erasureHistory == <<claimed, disturbed, erasureFaults>>
erasureVars == <<account, erasureStores, erasureTasks, export, zips, cleanup, erasureHistory>>

ErasureTypeOK ==
    /\ account \in {"active", "scheduled", "due", "deleted"}
    /\ rows \subseteq Documents /\ vectors \subseteq Documents /\ nodes \subseteq Documents
    /\ embedded \subseteq rows
    /\ embedding \subseteq Documents /\ deletion \subseteq Documents /\ claimed \subseteq Documents
    /\ export \in [Exports -> [status : {"absent", "processing", "completed", "failed"},
                               job : {"none", "checked", "inserted", "collecting", "written",
                                      "failing", "failed", "unmarked", "unstarted", "dead"}]]
    /\ zips \subseteq Exports
    /\ cleanup \in {"idle", "vectors", "nodes", "files", "rows"}
    /\ disturbed \in BOOLEAN /\ erasureFaults \in 0..MaxErasureFaults

ErasureInit ==
    /\ account = "active" /\ rows = Documents
    /\ vectors = {} /\ nodes = {} /\ embedded = {}
    /\ embedding = {} /\ deletion = {} /\ claimed = {}
    /\ export = [x \in Exports |-> [status |-> "absent", job |-> "none"]]
    /\ zips = {} /\ cleanup = "idle" /\ disturbed = FALSE /\ erasureFaults = 0

Alive == account # "deleted"
Fault == erasureFaults < MaxErasureFaults /\ erasureFaults' = erasureFaults + 1
JobRuns(x) == export[x].job \in {"inserted", "collecting", "written"}
TaskRuns == embedding # {} \/ deletion # {} \/ \E x \in Exports : JobRuns(x)

-----------------------------------------------------------------------------
(* The routes of the account.                                              *)

\* DELETE /user/account, the thirty days, and POST /user/account/cancel-deletion,
\* which does not look at the date.
Schedule ==
    /\ account = "active" /\ account' = "scheduled"
    /\ UNCHANGED <<erasureStores, erasureTasks, export, zips, cleanup, erasureHistory>>

GraceEnds ==
    /\ account = "scheduled" /\ account' = "due"
    /\ UNCHANGED <<erasureStores, erasureTasks, export, zips, cleanup, erasureHistory>>

CancelDeletion ==
    /\ account \in {"scheduled", "due"} /\ account' = "active"
    /\ UNCHANGED <<erasureStores, erasureTasks, export, zips, cleanup, erasureHistory>>

-----------------------------------------------------------------------------
(* Embedding: the row is read, vectors and nodes are written, the row is   *)
(* marked if it is still there.                                            *)

Disturb == disturbed' = (disturbed \/ cleanup # "idle")

StartEmbedding(d) ==
    /\ d \in rows /\ d \notin embedding
    /\ embedding' = embedding \cup {d}
    /\ Disturb
    /\ UNCHANGED <<account, erasureStores, deletion, export, zips, cleanup, claimed, erasureFaults>>

WriteVectors(d) ==
    /\ d \in embedding /\ d \notin vectors
    /\ vectors' = vectors \cup {d} /\ nodes' = nodes \cup {d}
    /\ UNCHANGED <<account, rows, embedded, erasureTasks, export, zips, cleanup, erasureHistory>>

\* Mutant: the object is merged, and merging inserts a row that is gone.
CommitEmbedding_Merges(d) ==
    /\ d \in embedding /\ d \in vectors
    /\ embedding' = embedding \ {d} /\ embedded' = embedded \cup {d}
    /\ UNCHANGED <<account, rows, vectors, nodes, deletion, export, zips, cleanup, erasureHistory>>

CommitEmbedding(d) ==
    /\ d \in embedding /\ d \in vectors
    /\ embedding' = embedding \ {d}
    /\ embedded' = IF d \in rows THEN embedded \cup {d} ELSE embedded
    /\ UNCHANGED <<account, rows, vectors, nodes, deletion, export, zips, cleanup, erasureHistory>>

-----------------------------------------------------------------------------
(* DELETE /documents/{id}.                                                 *)

ReadChunks(d) ==
    /\ d \in rows /\ d \notin deletion
    /\ deletion' = deletion \cup {d}
    /\ Disturb
    /\ UNCHANGED <<account, erasureStores, embedding, export, zips, cleanup, claimed, erasureFaults>>

\* Vectors of the chunks, then the node; the DELETE of the row is never committed.
\* A store that fails is logged and skipped.
FinishDelete(d) ==
    /\ d \in deletion /\ deletion' = deletion \ {d}
    /\ vectors' \in {vectors \ {d}, vectors}
    /\ nodes' \in {nodes \ {d}, nodes}
    /\ claimed' = claimed \cup {d}
    /\ UNCHANGED <<account, rows, embedded, embedding, export, zips, cleanup, disturbed, erasureFaults>>

-----------------------------------------------------------------------------
(* POST /user/export and its background job.                               *)

\* No export is in progress, and a statement later a row is inserted; without the
\* user's row that fails.
CheckExport(x) ==
    /\ Alive /\ export[x] = [status |-> "absent", job |-> "none"]
    /\ \A y \in Exports : export[y].status # "processing"
    /\ export' = [export EXCEPT ![x].job = "checked"]
    /\ UNCHANGED <<account, erasureStores, erasureTasks, zips, cleanup, erasureHistory>>

InsertExport(x) ==
    /\ Alive /\ export[x].job = "checked"
    /\ export' = [export EXCEPT ![x] = [status |-> "processing", job |-> "inserted"]]
    /\ Disturb
    /\ UNCHANGED <<account, erasureStores, erasureTasks, zips, cleanup, claimed, erasureFaults>>

\* The row is committed.  It is read back, the audit entry is committed, and only
\* then is the job added to the background tasks of the answer.
StartExport(x) ==
    /\ export[x].job = "inserted"
    /\ export' = [export EXCEPT ![x].job = "collecting"]
    /\ UNCHANGED <<account, erasureStores, erasureTasks, zips, cleanup, erasureHistory>>

\* An exception on the way: the route answers 500 and the row has no job.
AbandonExport(x) ==
    /\ export[x].job = "inserted" /\ Fault
    /\ export' = [export EXCEPT ![x].job = "unstarted"]
    /\ UNCHANGED <<account, erasureStores, erasureTasks, zips, cleanup, claimed, disturbed>>

WriteZip(x) ==
    /\ export[x].job = "collecting"
    /\ zips' = zips \cup {x}
    /\ export' = [export EXCEPT ![x].job = "written"]
    /\ UNCHANGED <<account, erasureStores, erasureTasks, cleanup, erasureHistory>>

\* Mutant: the status is not set.
CompleteExport_Unmarked(x) ==
    /\ export[x].job = "written"
    /\ export' = [export EXCEPT ![x].job = "none"]
    /\ UNCHANGED <<account, erasureStores, erasureTasks, zips, cleanup, erasureHistory>>

\* The row is marked; if it is gone, scalar_one raises and the job has failed.
CompleteExport(x) ==
    /\ export[x].job = "written"
    /\ export' = [export EXCEPT ![x] = IF @.status = "absent" THEN [@ EXCEPT !.job = "failed"]
                                       ELSE [status |-> "completed", job |-> "none"]]
    /\ UNCHANGED <<account, erasureStores, erasureTasks, zips, cleanup, erasureHistory>>

\* An exception in the job; its handler opens another session.
FailExport(x) ==
    /\ export[x].job \in {"collecting", "written"} /\ Fault
    /\ export' = [export EXCEPT ![x].job = "failing"]
    /\ UNCHANGED <<account, erasureStores, erasureTasks, zips, cleanup, claimed, disturbed>>

\* The row is marked as failed, without the path of its file.
MarkFailed(x) ==
    /\ export[x].job = "failing"
    /\ export' = [export EXCEPT ![x] = [job |-> "failed", status |-> IF @.status = "absent"
                                                                   THEN "absent" ELSE "failed"]]
    /\ UNCHANGED <<account, erasureStores, erasureTasks, zips, cleanup, erasureHistory>>

\* The database that failed the job fails its handler too, which is logged: the row
\* stays as it is.
LeaveUnmarked(x) ==
    /\ export[x].job = "failing"
    /\ export' = [export EXCEPT ![x].job = "unmarked"]
    /\ UNCHANGED <<account, erasureStores, erasureTasks, zips, cleanup, erasureHistory>>

\* The API process dies: nothing resumes a background task.
LoseExport(x) ==
    /\ JobRuns(x) \/ export[x].job = "failing"
    /\ Fault
    /\ export' = [export EXCEPT ![x].job = "dead"]
    /\ UNCHANGED <<account, erasureStores, erasureTasks, zips, cleanup, claimed, disturbed>>

-----------------------------------------------------------------------------
(* cleanup_expired_accounts.                                               *)

SelectExpired ==
    /\ cleanup = "idle" /\ account = "due"
    /\ cleanup' = "vectors"
    /\ disturbed' = TaskRuns
    /\ UNCHANGED <<account, erasureStores, erasureTasks, export, zips, claimed, erasureFaults>>

\* Each external store is cleaned, or fails, is logged and skipped.
CleanVectors ==
    /\ cleanup = "vectors" /\ cleanup' = "nodes"
    /\ \/ vectors' = {} /\ UNCHANGED <<disturbed, erasureFaults>>
       \/ Fault /\ disturbed' = TRUE /\ UNCHANGED vectors
    /\ UNCHANGED <<account, rows, nodes, embedded, erasureTasks, export, zips, claimed>>

CleanNodes ==
    /\ cleanup = "nodes" /\ cleanup' = "files"
    /\ \/ nodes' = {} /\ UNCHANGED <<disturbed, erasureFaults>>
       \/ Fault /\ disturbed' = TRUE /\ UNCHANGED nodes
    /\ UNCHANGED <<account, rows, vectors, embedded, erasureTasks, export, zips, claimed>>

\* Mutant: the table is read after its rows are gone.
Linked_AfterRows == {}

\* Files are found by the file_path of the export rows.
Linked == {x \in Exports : export[x].status = "completed"}

CleanFiles ==
    /\ cleanup = "files" /\ cleanup' = "rows"
    /\ \/ zips' = zips \ Linked /\ UNCHANGED <<disturbed, erasureFaults>>
       \/ Fault /\ disturbed' = TRUE /\ UNCHANGED zips
    /\ UNCHANGED <<account, erasureStores, erasureTasks, export, claimed>>

\* DELETE FROM users cascades; it does not ask again whether the deletion is due.
DeleteRows ==
    /\ cleanup = "rows" /\ cleanup' = "idle"
    /\ account' = "deleted" /\ rows' = {} /\ embedded' = {}
    /\ export' = [x \in Exports |-> [export[x] EXCEPT !.status = "absent"]]
    /\ UNCHANGED <<vectors, nodes, erasureTasks, zips, erasureHistory>>

\* The transaction fails: the account stays due for the next clean-up.
CleanupFails ==
    /\ cleanup # "idle" /\ Fault /\ cleanup' = "idle"
    /\ UNCHANGED <<account, erasureStores, erasureTasks, export, zips, claimed, disturbed>>

RunExport(x) == StartExport(x) \/ WriteZip(x) \/ CompleteExport(x) \/ MarkFailed(x) \/ LeaveUnmarked(x)

ErasureNext ==
    \/ Schedule \/ GraceEnds \/ CancelDeletion
    \/ \E d \in Documents :
         \/ StartEmbedding(d) \/ WriteVectors(d) \/ CommitEmbedding(d)
         \/ ReadChunks(d) \/ FinishDelete(d)
    \/ \E x \in Exports :
         \/ CheckExport(x) \/ InsertExport(x) \/ RunExport(x)
         \/ AbandonExport(x) \/ FailExport(x) \/ LoseExport(x)
    \/ SelectExpired \/ CleanVectors \/ CleanNodes \/ CleanFiles \/ DeleteRows \/ CleanupFails

ErasureSpec == ErasureInit /\ [][ErasureNext]_erasureVars

\* A request, a background job and its handler go on unless they are killed.
ErasureFairness == \A x \in Exports : WF_erasureVars(RunExport(x))

-----------------------------------------------------------------------------
(* Properties.                                                             *)

\* Erasure over four stores without a transaction is complete if no store failed
\* and no task of the user ran while the clean-up did, however often an earlier
\* clean-up broke off; only the file of an export that failed or whose process died
\* has no row that names it and stays on disk (_cascade_delete_user).
Broken == {"failing", "failed", "unmarked", "dead"}
ErasureComplete ==
    account = "deleted" /\ ~disturbed =>
        /\ vectors = {} /\ nodes = {}
        /\ \A x \in zips : export[x].job \in Broken

\* Delete a document with cascaded cleanup across all storage layers (docstring of
\* delete_document, documents.py): a document whose deletion was answered with 204 is gone.
DeletedIsGone == claimed \cap rows = {}

\* An export does not stay in progress for ever, which would bar the user from
\* exporting again, unless the process that runs it has died, the request failed
\* between the commit of the row and the start of the job, or the job failed and so
\* did the marking of its row (start_export, run_export).
ExportEnds ==
    \A x \in Exports :
        export[x].status = "processing" ~>
            export[x].status # "processing" \/ export[x].job \in {"unstarted", "unmarked", "dead"}
=============================================================================
