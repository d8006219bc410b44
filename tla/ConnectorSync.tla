---------------------------- MODULE ConnectorSync ----------------------------
(***************************************************************************)
(* One connection's incremental sync: IngestionPipeline.run, the connector *)
(* page it fetches, and the watermark it leaves for the next run.  Several *)
(* run_connector executions may overlap (a manual trigger and the beat     *)
(* schedule, or a redelivered task).                                       *)
(*                                                                         *)
(* A document's content is named by the time of the edit that produced it, *)
(* so `stored[i] = edited[i]` says that the index is up to date.  The time *)
(* 0 stands for "never": an item not yet created or stored, a NULL         *)
(* watermark, a cursor of None.                                            *)
(***************************************************************************)
EXTENDS Naturals, FiniteSets

CONSTANTS
    Items,             \* ids in the external source
    Workers,           \* run_connector executions that may overlap
    Kinds,             \* connectors under consideration
    PageSize,          \* min(config.max_batch_size, the provider's maximum)
    Flaky,             \* items whose normalisation or download may fail
    Untranscribed,     \* Zoom recordings that may be listed without a transcript
    LookBack,          \* days that Zoom's first sync goes back
    DayOf,             \* calendar day of a time, for Zoom's date-valued cursor
    LastTick,          \* bound on the clock
    MaxAborts,         \* bound on failed or killed runs
    EditsDuringRuns    \* whether users edit while a page is being persisted

Times == 0..LastTick

ASSUME SyncAssumption ==
    /\ IsFiniteSet(Items)
    /\ Kinds \subseteq {"notion", "obsidian", "zoom", "google_calendar"}
    /\ PageSize \in Nat \ {0}
    /\ Flaky \subseteq Items /\ Untranscribed \subseteq Items
    /\ LookBack \in Nat
    /\ LastTick \in Nat \ {0} /\ MaxAborts \in Nat
    /\ DayOf \in [Times -> Nat]
    /\ \A s, t \in Times : s <= t => DayOf[s] <= DayOf[t]
    /\ EditsDuringRuns \in BOOLEAN

VARIABLES
    kind,        \* connections.source_type: how a cursor selects items
    clock,       \* now
    edited,      \* external source: time of each item's last edit
    stored,      \* documents table: which edit's content each row holds
    watermark,   \* connections.watermark
    phase,       \* where each run is
    cursor,      \* the watermark a run started from
    batch,       \* SyncResult.documents: the version fetched, 0 if not in it
    progress,    \* SyncResult.new_cursor is not None
    writes,      \* rows whose content_hash the run will UPDATE or INSERT
    stamp,       \* datetime.now(UTC) of the run
    aborts,      \* runs that failed so far
    raced,       \* history: another run committed since this run's fetch
    skipped,     \* history: what a run in flight leaves out, and why it may
    missed       \* history: items a committed run left out or overwrote

source == <<kind, clock, edited>>
db == <<stored, watermark>>
run == <<phase, cursor, batch, progress, writes, stamp>>
vars == <<source, db, run, aborts, raced, skipped, missed>>

Phases == {"idle", "loaded", "fetched", "upserted"}

TypeOK ==
    /\ kind \in Kinds
    /\ clock \in Times
    /\ edited \in [Items -> Times]
    /\ stored \in [Items -> Times]
    /\ watermark \in Times
    /\ phase \in [Workers -> Phases]
    /\ cursor \in [Workers -> Times]
    /\ batch \in [Workers -> [Items -> Times]]
    /\ progress \in [Workers -> BOOLEAN]
    /\ writes \in [Workers -> SUBSET Items]
    /\ stamp \in [Workers -> Times]
    /\ aborts \in 0..MaxAborts
    /\ raced \in [Workers -> BOOLEAN]
    /\ skipped \in [Workers -> SUBSET Items]
    /\ missed \in SUBSET Items

Nothing == [i \in Items |-> 0]

Init ==
    /\ kind \in Kinds
    /\ clock = 1
    /\ edited \in [Items -> {0, 1}]
    /\ stored = Nothing
    /\ watermark = 0
    /\ phase = [w \in Workers |-> "idle"]
    /\ cursor = [w \in Workers |-> 0]
    /\ batch = [w \in Workers |-> Nothing]
    /\ progress = [w \in Workers |-> FALSE]
    /\ writes = [w \in Workers |-> {}]
    /\ stamp = [w \in Workers |-> 0]
    /\ aborts = 0
    /\ raced = [w \in Workers |-> FALSE]
    /\ skipped = [w \in Workers |-> {}]
    /\ missed = {}

-----------------------------------------------------------------------------
(* What fetch_since asks of the provider.                                  *)

Exists == {i \in Items : edited[i] > 0}

\* Mutant: the scan asks for files a full tick newer than the watermark.
Matching_OneTickLate(c) == {i \in Exists : edited[i] > c + 1}

\* Notion's `last_edited_time after watermark` and the vault's mtime scan
\* are strict; Zoom asks for whole days, the first time for those of the
\* look-back only; the calendar lists everything once, because an ISO watermark
\* is not a sync token it ever issued.
Matching(c) ==
    CASE kind \in {"notion", "obsidian"} -> {i \in Exists : edited[i] > c}
      [] kind = "zoom" -> {i \in Exists : IF c = 0
                                          THEN DayOf[edited[i]] + LookBack >= DayOf[clock]
                                          ELSE DayOf[edited[i]] >= DayOf[c]}
      [] kind = "google_calendar" -> IF c = 0 THEN Exists ELSE {}

\* What Zoom's first sync does not go back to.
TooOld(c) == IF kind = "zoom" /\ c = 0 THEN Exists \ Matching(c) ELSE {}

\* The pages a provider may answer with: full, or all there is.  Notion and the
\* calendar sort by the time of the last edit, ties in any order; the vault is
\* not paged.
Pages(S) ==
    IF kind = "obsidian"
    THEN {S}
    ELSE {page \in SUBSET S :
            /\ page = S \/ Cardinality(page) = PageSize
            /\ Cardinality(page) <= PageSize
            /\ kind # "zoom" => \A i \in page, j \in S \ page : edited[i] <= edited[j]}

\* Whether fetch_since returns a new_cursor, given the page, the documents that
\* could be normalised, and whether the calendar's last page carries a
\* nextSyncToken.
NewCursor(c, page, docs, token) ==
    CASE kind = "notion" -> c # 0 \/ page # {}
      [] kind = "obsidian" -> c # 0 \/ docs # {}
      [] kind = "zoom" -> TRUE
      [] kind = "google_calendar" -> c = 0 /\ (token \/ page # Matching(c))

-----------------------------------------------------------------------------
(* The user works in the external source.                                  *)

\* A run that already fetched will not see the edit; one that has taken its
\* time stamp leaves it to its successor.
Edit(i) ==
    /\ clock < LastTick
    /\ EditsDuringRuns \/ \A w \in Workers : phase[w] # "fetched"
    /\ clock' = clock + 1
    /\ edited' = [edited EXCEPT ![i] = clock + 1]
    /\ skipped' = [w \in Workers |-> IF phase[w] = "fetched"
                                     THEN skipped[w] \cup {i}
                                     ELSE skipped[w] \ {i}]
    /\ missed' = missed \ {i}
    /\ UNCHANGED <<kind, db, run, aborts, raced>>

-----------------------------------------------------------------------------
(* IngestionPipeline.run, one action per await that others can overtake.   *)

Load(w) ==
    /\ phase[w] = "idle"
    /\ phase' = [phase EXCEPT ![w] = "loaded"]
    /\ cursor' = [cursor EXCEPT ![w] = watermark]
    /\ UNCHANGED <<source, db, batch, progress, writes, stamp, aborts, raced, skipped, missed>>

\* connector.run: one call of fetch_since; has_more is not acted upon.  A
\* document that fails lands in SyncResult.errors, a recording without a
\* transcript nowhere, and the calendar answers 410 to a foreign sync token with
\* an empty result.
Fetch(w) ==
    /\ phase[w] = "loaded"
    /\ \E failed \in SUBSET Flaky,
          mute \in SUBSET (IF kind = "zoom" THEN Untranscribed ELSE {}),
          page \in Pages(Matching(cursor[w])),
          token \in (IF kind = "google_calendar" THEN BOOLEAN ELSE {TRUE}) :
         LET docs == page \ (failed \cup mute)
         IN /\ batch' = [batch EXCEPT ![w] =
                           [i \in Items |-> IF i \in docs THEN edited[i] ELSE 0]]
            /\ progress' = [progress EXCEPT ![w] = NewCursor(cursor[w], page, docs, token)]
            /\ skipped' = [skipped EXCEPT ![w] =
                             (Matching(cursor[w]) \cup TooOld(cursor[w])) \ docs]
    /\ phase' = [phase EXCEPT ![w] = "fetched"]
    /\ UNCHANGED <<source, db, cursor, writes, stamp, aborts, raced, missed>>

\* Mutants: rows that exist are left alone; rows that were not fetched are
\* emptied; the watermark is taken from a clock that runs ahead.
Changed_InsertsOnly(w) == {i \in Items : batch[w][i] # 0 /\ stored[i] = 0}
Changed_EmptiesRows(w) == {i \in Items : batch[w][i] # stored[i]}
Now_Ahead == clock + 1

\* _upsert_documents: the ORM writes only what differs from what it loaded.
Changed(w) == {i \in Items : batch[w][i] # 0 /\ batch[w][i] # stored[i]}

\* datetime.now(UTC)
Now == clock

\* The rows and the new watermark, in the open transaction.
Upsert(w) ==
    /\ phase[w] = "fetched"
    /\ writes' = [writes EXCEPT ![w] = Changed(w)]
    /\ stamp' = [stamp EXCEPT ![w] = Now]
    /\ phase' = [phase EXCEPT ![w] = "upserted"]
    /\ UNCHANGED <<source, db, cursor, batch, progress, aborts, raced, skipped, missed>>

\* The session is closed and the run's locals are gone.
Finish(w) ==
    /\ phase' = [phase EXCEPT ![w] = "idle"]
    /\ cursor' = [cursor EXCEPT ![w] = 0]
    /\ batch' = [batch EXCEPT ![w] = Nothing]
    /\ progress' = [progress EXCEPT ![w] = FALSE]
    /\ writes' = [writes EXCEPT ![w] = {}]
    /\ stamp' = [stamp EXCEPT ![w] = 0]
    /\ skipped' = [skipped EXCEPT ![w] = {}]

\* What the rows hold once run w has committed.
StoredAfter(w) == [i \in Items |-> IF i \in writes[w] THEN batch[w][i] ELSE stored[i]]

\* Items that w puts back to an older version than the row already holds.
Overwritten(w) == {i \in writes[w] : batch[w][i] < stored[i]}

\* Mutant: the watermark advances even when the connector returned no cursor.
NewWatermark_Always(w) == stamp[w]

\* Without a new cursor the watermark stays, and nothing is left behind.
NewWatermark(w) == IF progress[w] THEN stamp[w] ELSE watermark

Commit(w) ==
    /\ phase[w] = "upserted"
    /\ stored' = StoredAfter(w)
    /\ watermark' = NewWatermark(w)
    /\ missed' = {i \in missed \cup Overwritten(w)
                           \cup (IF progress[w] THEN skipped[w] ELSE {}) :
                    StoredAfter(w)[i] # edited[i]}
    /\ raced' = [v \in Workers |-> v # w /\ (raced[v] \/ phase[v] \in {"fetched", "upserted"})]
    /\ Finish(w)
    /\ UNCHANGED <<source, aborts>>

\* A provider error, a unique-constraint conflict between two first inserts, a
\* killed worker: the transaction is rolled back and the task runs again later.
Abort(w) ==
    /\ phase[w] # "idle"
    /\ aborts < MaxAborts
    /\ aborts' = aborts + 1
    /\ raced' = [raced EXCEPT ![w] = FALSE]
    /\ Finish(w)
    /\ UNCHANGED <<source, db, missed>>

Next ==
    \/ \E i \in Items : Edit(i)
    \/ \E w \in Workers : Load(w) \/ Fetch(w) \/ Upsert(w) \/ Commit(w) \/ Abort(w)

Spec == Init /\ [][Next]_vars

\* Beat dispatches run_connector for every active connection on a schedule, and
\* a started task keeps running; users and failures are free.
FairSpec ==
    /\ Spec
    /\ \A w \in Workers : WF_vars(Load(w)) /\ WF_vars(Fetch(w))
                          /\ WF_vars(Upsert(w)) /\ WF_vars(Commit(w))

-----------------------------------------------------------------------------
(* Properties                                                              *)

Settled(i) == stored[i] = edited[i] \/ i \in missed

\* Everything edited up to time t is stored, but for what `missed` accounts for.
Covered(t) == \A i \in Items : 0 < edited[i] /\ edited[i] <= t => Settled(i)

\* The watermark never passes an item for an unknown reason: whatever it has
\* left behind was beyond the page, older than Zoom's look-back at the first
\* sync, a recording without a transcript, failed to normalise, was edited
\* between the fetch and the time stamp, or was overwritten by an overlapping
\* run.
LossesExplained == Covered(watermark)

\* README.md:60 "cursor watermarks persisted after each batch", ARCHITECTURE.md:42
\* "ohne Datenverlust": nothing the watermark has passed is missing or stale.
NoLoss ==
    \A i \in Items : 0 < edited[i] /\ edited[i] <= watermark => stored[i] = edited[i]

\* Only a run that another one overtook, committing since the page was fetched,
\* may put a document back to older content (IngestionPipeline.run holds no lock
\* between fetch_since and the commit); a run by itself does so neither after
\* retries nor with a partial page.
GoesBackOnlyByOverlap ==
    [][\A i \in Items : \/ stored'[i] >= stored[i]
                        \/ \E w \in Workers : Commit(w) /\ raced[w] /\ i \in writes[w]]_vars

UpToDate == \A i \in Items : stored[i] = edited[i]

\* Once users stop editing, the index catches up with the source.
CatchesUp == <>[]UpToDate
=============================================================================
