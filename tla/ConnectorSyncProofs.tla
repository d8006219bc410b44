------------------------- MODULE ConnectorSyncProofs -------------------------
(* TLAPS proof that every document a connection's watermark has left behind  *)
(* is accounted for, for any set of items, any number of overlapping runs,   *)
(* any page size and any connector; that a row goes back only by a run that  *)
(* another one overtook; and that nothing is lost while runs do not overlap, *)
(* if a page has room for every item, none fails, none is edited while a     *)
(* page is persisted, and Zoom is not asked for what it leaves out.          *)
EXTENDS ConnectorSync, FiniteSetTheorems, TLAPS

-----------------------------------------------------------------------------
(* The inductive invariant.                                                  *)

\* Nothing is known before it is written.
Causal ==
    /\ watermark <= clock
    /\ \A i \in Items : stored[i] <= edited[i] /\ edited[i] <= clock
    /\ \A w \in Workers : /\ cursor[w] <= clock /\ stamp[w] <= clock
                          /\ \A i \in Items : batch[w][i] <= edited[i]

CursorsCovered == \A w \in Workers : Covered(cursor[w])

\* A fetched page and what was left out of it make up for everything that the
\* table does not hold.
FetchedComplete ==
    \A w \in Workers : phase[w] = "fetched" /\ progress[w] =>
        \A i \in Items : 0 < edited[i] =>
            batch[w][i] = edited[i] \/ i \in skipped[w] \/ Settled(i)

\* The same of the pending writes, up to the time stamp of the run.
UpsertedComplete ==
    \A w \in Workers : phase[w] = "upserted" /\ progress[w] =>
        \A i \in Items : 0 < edited[i] /\ edited[i] <= stamp[w] =>
            \/ i \in writes[w] /\ batch[w][i] = edited[i]
            \/ i \in skipped[w]
            \/ Settled(i)

Inv ==
    /\ TypeOK
    /\ Causal
    /\ Covered(watermark)
    /\ CursorsCovered
    /\ FetchedComplete
    /\ UpsertedComplete

-----------------------------------------------------------------------------
(* Lemmas about the operators and about a commit.                            *)

(* What a connector does not ask for it has already been given: an existing  *)
(* item outside Matching(c), and not too old for a first sync, was last      *)
(* edited no later than the cursor.                                          *)
LEMMA UnmatchedIsOld ==
    ASSUME TypeOK, NEW c \in Times, NEW i \in Items,
           0 < edited[i], i \notin Matching(c) \cup TooOld(c),
           kind = "google_calendar" => c = 0
    PROVE  edited[i] <= c
<1>1. edited[i] \in Times /\ edited[i] \in Nat /\ c \in Nat
  BY SyncAssumption DEF TypeOK, Times
<1>2. i \in Exists
  BY <1>1 DEF Exists
<1>3. CASE kind \in {"notion", "obsidian"}
  BY <1>1, <1>2, <1>3 DEF Matching
<1>4. CASE kind = "zoom"
  <2>0. c # 0
    BY <1>2, <1>4 DEF TooOld
  <2>1. ~(DayOf[edited[i]] >= DayOf[c])
    BY <1>2, <1>4, <2>0 DEF Matching
  <2>2. DayOf[edited[i]] \in Nat /\ DayOf[c] \in Nat
    BY <1>1, SyncAssumption
  <2>3. c <= edited[i] => DayOf[c] <= DayOf[edited[i]]
    BY <1>1, SyncAssumption
  <2> QED BY <1>1, <2>1, <2>2, <2>3
<1>5. CASE kind = "google_calendar"
  BY <1>1, <1>2, <1>5 DEF Matching
<1> QED BY <1>3, <1>4, <1>5, SyncAssumption DEF TypeOK

(* A commit settles nothing wrongly: an item whose current version is stored *)
(* or accounted for stays so, stale writes included.                         *)
LEMMA CommitKeepsSettled ==
    ASSUME TypeOK, Causal, NEW w \in Workers, Commit(w),
           NEW i \in Items, Settled(i)
    PROVE  Settled(i)'
<1>1. stored' = StoredAfter(w) /\ edited' = edited
  BY DEF Commit, NewWatermark, source
<1>2. StoredAfter(w)[i] = IF i \in writes[w] THEN batch[w][i] ELSE stored[i]
  BY DEF StoredAfter
<1>3. /\ stored[i] \in Nat /\ edited[i] \in Nat /\ batch[w][i] \in Nat
      /\ batch[w][i] <= edited[i] /\ stored[i] <= edited[i]
  BY SyncAssumption DEF TypeOK, Times, Causal
<1>4. CASE StoredAfter(w)[i] = edited[i]
  BY <1>1, <1>4 DEF Settled
<1>5. CASE StoredAfter(w)[i] # edited[i]
  <2>1. i \in missed \cup Overwritten(w)
    BY <1>2, <1>3, <1>5 DEF Settled, Overwritten
  <2> QED BY <1>5, <2>1 DEF Commit, NewWatermark, Settled
<1> QED BY <1>4, <1>5

(* A fetch takes some page and leaves out what fails or has no transcript.   *)
LEMMA FetchChoices ==
    ASSUME NEW w \in Workers, Fetch(w)
    PROVE  \E failed \in SUBSET Flaky, mute \in SUBSET Items, page \in Pages(Matching(cursor[w])),
          token \in BOOLEAN :
             LET docs == page \ (failed \cup mute)
             IN /\ batch' = [batch EXCEPT ![w] =
                               [i \in Items |-> IF i \in docs THEN edited[i] ELSE 0]]
                /\ progress' = [progress EXCEPT ![w] = NewCursor(cursor[w], page, docs, token)]
                /\ skipped' = [skipped EXCEPT ![w] =
                                 (Matching(cursor[w]) \cup TooOld(cursor[w])) \ docs]
<1>1. \A mute \in SUBSET (IF kind = "zoom" THEN Untranscribed ELSE {}) : mute \in SUBSET Items
  BY SyncAssumption
<1>2. \A token \in (IF kind = "google_calendar" THEN BOOLEAN ELSE {TRUE}) : token \in BOOLEAN
  OBVIOUS
<1> QED BY <1>1, <1>2 DEF Fetch

(* Times and flags stay in range.                                            *)
LEMMA TypeStep ==
    ASSUME TypeOK, [Next]_vars
    PROVE  TypeOK'
<1> USE SyncAssumption DEF TypeOK, Times, Phases
<1>0. Nothing \in [Items -> Times]
  BY DEF Nothing
<1>1. ASSUME NEW i \in Items, Edit(i)
      PROVE  TypeOK'
  <2>1. clock' \in Times /\ edited' \in [Items -> Times]
    BY <1>1 DEF Edit
  <2>2. skipped' \in [Workers -> SUBSET Items] /\ missed' \in SUBSET Items
    BY <1>1 DEF Edit
  <2> QED BY <1>1, <2>1, <2>2 DEF Edit, db, run
<1>2. ASSUME NEW w \in Workers, Load(w)
      PROVE  TypeOK'
  BY <1>2 DEF Load, source, db
<1>3. ASSUME NEW w \in Workers, Fetch(w)
      PROVE  TypeOK'
  <2>1. PICK failed \in SUBSET Flaky, mute \in SUBSET Items, page \in Pages(Matching(cursor[w])),
          token \in BOOLEAN :
          LET docs == page \ (failed \cup mute)
          IN /\ batch' = [batch EXCEPT ![w] =
                            [i \in Items |-> IF i \in docs THEN edited[i] ELSE 0]]
             /\ progress' = [progress EXCEPT ![w] = NewCursor(cursor[w], page, docs, token)]
             /\ skipped' = [skipped EXCEPT ![w] =
                              (Matching(cursor[w]) \cup TooOld(cursor[w])) \ docs]
    BY <1>3, FetchChoices
  <2> DEFINE docs == page \ (failed \cup mute)
             fetched == [i \in Items |-> IF i \in docs THEN edited[i] ELSE 0]
             left == (Matching(cursor[w]) \cup TooOld(cursor[w])) \ docs
  <2>3. NewCursor(cursor[w], page, docs, token) \in BOOLEAN
    BY DEF NewCursor
  <2>4. fetched \in [Items -> Times]
    OBVIOUS
  <2>5. left \in SUBSET Items
    BY DEF Matching, TooOld, Exists
  <2> HIDE DEF docs, fetched, left
  <2>6. /\ batch' = [batch EXCEPT ![w] = fetched]
        /\ progress' = [progress EXCEPT ![w] = NewCursor(cursor[w], page, docs, token)]
        /\ skipped' = [skipped EXCEPT ![w] = left]
    BY <2>1 DEF docs, fetched, left
  <2>7. /\ batch' \in [Workers -> [Items -> Times]]
        /\ progress' \in [Workers -> BOOLEAN]
        /\ skipped' \in [Workers -> SUBSET Items]
    BY <2>3, <2>4, <2>5, <2>6
  <2> QED BY <1>3, <2>7 DEF Fetch, source, db
<1>4. ASSUME NEW w \in Workers, Upsert(w)
      PROVE  TypeOK'
  BY <1>4 DEF Upsert, Changed, Now, source, db
<1>5. ASSUME NEW w \in Workers, Finish(w)
      PROVE  /\ phase' \in [Workers -> Phases]
             /\ cursor' \in [Workers -> Times]
             /\ batch' \in [Workers -> [Items -> Times]]
             /\ progress' \in [Workers -> BOOLEAN]
             /\ writes' \in [Workers -> SUBSET Items]
             /\ stamp' \in [Workers -> Times]
             /\ skipped' \in [Workers -> SUBSET Items]
  BY <1>0, <1>5 DEF Finish
<1>6. ASSUME NEW w \in Workers, Commit(w)
      PROVE  TypeOK'
  <2>1. stored' \in [Items -> Times] /\ watermark' \in Times
    BY <1>6 DEF Commit, NewWatermark, StoredAfter
  <2>2. missed' \in SUBSET Items
    BY <1>6 DEF Commit, NewWatermark, Overwritten
  <2> QED BY <1>5, <1>6, <2>1, <2>2 DEF Commit, NewWatermark, source
<1>7. ASSUME NEW w \in Workers, Abort(w)
      PROVE  TypeOK'
  BY <1>5, <1>7 DEF Abort, source, db
<1>8. CASE UNCHANGED vars
  BY <1>8 DEF vars, source, db, run
<1> QED BY <1>1, <1>2, <1>3, <1>4, <1>6, <1>7, <1>8 DEF Next

(* The locals of a finished run are blank.                                   *)
LEMMA FinishBlanks ==
    ASSUME TypeOK, NEW w \in Workers, Finish(w), NEW v \in Workers
    PROVE  /\ phase'[v] = IF v = w THEN "idle" ELSE phase[v]
           /\ cursor'[v] = IF v = w THEN 0 ELSE cursor[v]
           /\ batch'[v] = IF v = w THEN Nothing ELSE batch[v]
           /\ progress'[v] = IF v = w THEN FALSE ELSE progress[v]
           /\ writes'[v] = IF v = w THEN {} ELSE writes[v]
           /\ stamp'[v] = IF v = w THEN 0 ELSE stamp[v]
           /\ skipped'[v] = IF v = w THEN {} ELSE skipped[v]
BY DEF Finish, TypeOK

(* What a fetch leaves in the run: the current version of the documents it   *)
(* took, and in `skipped` the rest of what the connector asked for.          *)
LEMMA FetchResult ==
    ASSUME TypeOK, NEW w \in Workers, Fetch(w), NEW i \in Items
    PROVE  /\ batch'[w][i] \in {0, edited[i]}
           /\ 0 < edited[i] /\ i \in Matching(cursor[w]) \cup TooOld(cursor[w])
                => batch'[w][i] = edited[i] \/ i \in skipped'[w]
           /\ progress'[w] /\ kind = "google_calendar" => cursor[w] = 0
           /\ \A v \in Workers \ {w} : /\ batch'[v] = batch[v]
                                       /\ progress'[v] = progress[v]
                                       /\ skipped'[v] = skipped[v]
<1>1. PICK failed \in SUBSET Flaky, mute \in SUBSET Items, page \in Pages(Matching(cursor[w])),
          token \in BOOLEAN :
        LET docs == page \ (failed \cup mute)
        IN /\ batch' = [batch EXCEPT ![w] =
                          [j \in Items |-> IF j \in docs THEN edited[j] ELSE 0]]
           /\ progress' = [progress EXCEPT ![w] = NewCursor(cursor[w], page, docs, token)]
           /\ skipped' = [skipped EXCEPT ![w] =
                            (Matching(cursor[w]) \cup TooOld(cursor[w])) \ docs]
  BY FetchChoices
<1> DEFINE docs == page \ (failed \cup mute)
           wanted == Matching(cursor[w]) \cup TooOld(cursor[w])
<1>2. batch'[w] = [j \in Items |-> IF j \in docs THEN edited[j] ELSE 0]
  BY <1>1 DEF TypeOK
<1>3. skipped'[w] = wanted \ docs
  BY <1>1 DEF TypeOK
<1>4. progress'[w] = NewCursor(cursor[w], page, docs, token)
  BY <1>1 DEF TypeOK
<1>5. kind = "google_calendar" => (progress'[w] => cursor[w] = 0)
  BY <1>4 DEF NewCursor
<1>6. \A v \in Workers \ {w} : /\ batch'[v] = batch[v]
                               /\ progress'[v] = progress[v]
                               /\ skipped'[v] = skipped[v]
  BY <1>1 DEF TypeOK
<1> HIDE DEF wanted, docs
<1>7. batch'[w][i] = IF i \in docs THEN edited[i] ELSE 0
  BY <1>2
<1>8. i \in wanted => batch'[w][i] = edited[i] \/ i \in skipped'[w]
  BY <1>3, <1>7
<1> QED BY <1>5, <1>6, <1>7, <1>8 DEF wanted

(* Nothing is known before it is written.                                    *)
LEMMA CausalStep ==
    ASSUME TypeOK, TypeOK', Causal, [Next]_vars
    PROVE  Causal'
<1>0. /\ clock \in Nat /\ watermark \in Nat
      /\ \A i \in Items : stored[i] \in Nat /\ edited[i] \in Nat
      /\ \A w \in Workers : /\ cursor[w] \in Nat /\ stamp[w] \in Nat
                            /\ \A i \in Items : batch[w][i] \in Nat
  BY SyncAssumption DEF TypeOK, Times
<1>1. ASSUME NEW i \in Items, Edit(i)
      PROVE  Causal'
  <2>1. /\ clock' = clock + 1
        /\ \A j \in Items : edited'[j] = IF j = i THEN clock + 1 ELSE edited[j]
        /\ UNCHANGED <<stored, watermark, cursor, batch, stamp>>
    BY <1>1 DEF Edit, db, run, TypeOK
  <2> QED BY <1>0, <2>1 DEF Causal
<1>2. ASSUME NEW w \in Workers, Load(w)
      PROVE  Causal'
  BY <1>0, <1>2 DEF Load, source, db, TypeOK, Causal
<1>3. ASSUME NEW w \in Workers, Fetch(w)
      PROVE  Causal'
  <2>1. ASSUME NEW v \in Workers, NEW i \in Items
        PROVE  batch'[v][i] <= edited[i]
    <3>1. batch'[w][i] \in {0, edited[i]}
      BY <1>3, FetchResult
    <3>2. v # w => batch'[v] = batch[v]
      BY <1>3, FetchResult
    <3> QED BY <1>0, <3>1, <3>2 DEF Causal
  <2> QED BY <1>3, <2>1 DEF Fetch, source, db, Causal
<1>4. ASSUME NEW w \in Workers, Upsert(w)
      PROVE  Causal'
  BY <1>0, <1>4 DEF Upsert, Changed, Now, source, db, TypeOK, Causal
<1>5. ASSUME NEW w \in Workers, Finish(w), edited' = edited, clock' = clock
      PROVE  \A v \in Workers : /\ cursor'[v] <= clock' /\ stamp'[v] <= clock'
                                /\ \A i \in Items : batch'[v][i] <= edited'[i]
  <2> SUFFICES ASSUME NEW v \in Workers
               PROVE  /\ cursor'[v] <= clock' /\ stamp'[v] <= clock'
                      /\ \A i \in Items : batch'[v][i] <= edited'[i]
    OBVIOUS
  <2>1. /\ cursor'[v] = IF v = w THEN 0 ELSE cursor[v]
        /\ batch'[v] = IF v = w THEN Nothing ELSE batch[v]
        /\ stamp'[v] = IF v = w THEN 0 ELSE stamp[v]
    BY <1>5, FinishBlanks
  <2>2. \A i \in Items : Nothing[i] = 0
    BY DEF Nothing
  <2> QED BY <1>0, <1>5, <2>1, <2>2 DEF Causal
<1>6. ASSUME NEW w \in Workers, Commit(w)
      PROVE  Causal'
  <2>1. Finish(w) /\ edited' = edited /\ clock' = clock
    BY <1>6 DEF Commit, NewWatermark, source
  <2>2. watermark' <= clock' /\ \A i \in Items : stored'[i] <= edited'[i]
    BY <1>0, <1>6, <2>1 DEF Commit, NewWatermark, StoredAfter, TypeOK, Causal
  <2> QED BY <1>5, <2>1, <2>2 DEF Causal
<1>7. ASSUME NEW w \in Workers, Abort(w)
      PROVE  Causal'
  <2>1. Finish(w) /\ UNCHANGED <<edited, clock, stored, watermark>>
    BY <1>7 DEF Abort, source, db
  <2> QED BY <1>5, <2>1 DEF Causal
<1>8. CASE UNCHANGED vars
  BY <1>8 DEF vars, source, db, run, Causal
<1> QED BY <1>1, <1>2, <1>3, <1>4, <1>6, <1>7, <1>8 DEF Next

(* An item stays settled until its next edit.                                *)
LEMMA SettledStep ==
    ASSUME TypeOK, Causal, [Next]_vars, NEW i \in Items
    PROVE  \/ edited'[i] = clock + 1
           \/ edited'[i] = edited[i] /\ (Settled(i) => Settled(i)')
<1>1. ASSUME NEW j \in Items, Edit(j)
      PROVE  \/ edited'[i] = clock + 1
             \/ edited'[i] = edited[i] /\ (Settled(i) => Settled(i)')
  BY <1>1 DEF Edit, db, Settled, TypeOK
<1>2. ASSUME NEW w \in Workers, Load(w) \/ Fetch(w) \/ Upsert(w) \/ Abort(w)
      PROVE  edited'[i] = edited[i] /\ (Settled(i) => Settled(i)')
  BY <1>2 DEF Load, Fetch, Upsert, Changed, Now, Abort, source, db, Settled
<1>3. ASSUME NEW w \in Workers, Commit(w)
      PROVE  edited'[i] = edited[i] /\ (Settled(i) => Settled(i)')
  <2>1. edited' = edited
    BY <1>3 DEF Commit, NewWatermark, source
  <2> QED BY <1>3, <2>1, CommitKeepsSettled
<1>4. CASE UNCHANGED vars
  BY <1>4 DEF vars, source, db, Settled
<1> QED BY <1>1, <1>2, <1>3, <1>4 DEF Next

(* Once covered up to a past time, always covered up to that time.           *)
LEMMA CoveredStep ==
    ASSUME TypeOK, Causal, [Next]_vars, NEW t \in Nat, t <= clock, Covered(t)
    PROVE  Covered(t)'
<1> SUFFICES ASSUME NEW i \in Items, 0 < edited'[i], edited'[i] <= t
             PROVE  Settled(i)'
  BY DEF Covered
<1>1. clock \in Nat /\ edited[i] \in Nat
  BY SyncAssumption DEF TypeOK, Times
<1>2. edited'[i] # clock + 1
  BY <1>1
<1>3. edited'[i] = edited[i] /\ (Settled(i) => Settled(i)')
  BY <1>2, SettledStep
<1> QED BY <1>3 DEF Covered

(* The cursors of the runs in flight stay covered.                           *)
LEMMA CursorsStep ==
    ASSUME TypeOK, Causal, Covered(watermark), CursorsCovered, [Next]_vars
    PROVE  CursorsCovered'
<1> SUFFICES ASSUME NEW v \in Workers, NEW i \in Items,
                    0 < edited'[i], edited'[i] <= cursor'[v]
             PROVE  Settled(i)'
  BY DEF CursorsCovered, Covered
<1>1. /\ clock \in Nat /\ watermark \in Nat /\ cursor[v] \in Nat
      /\ watermark <= clock /\ cursor[v] <= clock
  BY SyncAssumption DEF TypeOK, Times, Causal
<1>2. cursor'[v] \in {0, watermark, cursor[v]}
  <2>1. ASSUME NEW w \in Workers, Load(w)
        PROVE  cursor'[v] \in {0, watermark, cursor[v]}
    BY <2>1 DEF Load, TypeOK
  <2>2. ASSUME NEW w \in Workers, Commit(w) \/ Abort(w)
        PROVE  cursor'[v] \in {0, watermark, cursor[v]}
    BY <2>2, FinishBlanks DEF Commit, NewWatermark, Abort
  <2>3. CASE (\E j \in Items : Edit(j)) \/ UNCHANGED vars
    BY <2>3 DEF Edit, vars, run
  <2>4. CASE \E w \in Workers : Fetch(w) \/ Upsert(w)
    BY <2>4 DEF Fetch, Upsert, Changed, Now
  <2> QED BY <2>1, <2>2, <2>3, <2>4 DEF Next
<1>3. edited[i] \in Nat
  BY SyncAssumption DEF TypeOK, Times
<1>4. cursor'[v] \in Nat /\ cursor'[v] <= clock
  BY <1>1, <1>2
<1>5. edited'[i] = edited[i] /\ (Settled(i) => Settled(i)')
  BY <1>1, <1>3, <1>4, SettledStep
<1>6. Covered(watermark) /\ Covered(cursor[v])
  BY DEF CursorsCovered
<1>7. Settled(i)
  BY <1>1, <1>2, <1>3, <1>5, <1>6 DEF Covered
<1> QED BY <1>5, <1>7

(* A fetch completes what the cursor covers, and later commits, edits and    *)
(* aborts of other runs keep it complete.                                    *)
LEMMA FetchedStep ==
    ASSUME TypeOK, Causal, CursorsCovered, FetchedComplete, [Next]_vars
    PROVE  FetchedComplete'
<1> SUFFICES ASSUME NEW v \in Workers, phase'[v] = "fetched", progress'[v],
                    NEW i \in Items, 0 < edited'[i]
             PROVE  batch'[v][i] = edited'[i] \/ i \in skipped'[v] \/ Settled(i)'
  BY DEF FetchedComplete
<1>1. ASSUME phase[v] = "fetched", progress[v], batch'[v] = batch[v],
             edited'[i] = edited[i], i \in skipped[v] => i \in skipped'[v],
             Settled(i) => Settled(i)'
      PROVE  batch'[v][i] = edited'[i] \/ i \in skipped'[v] \/ Settled(i)'
  BY <1>1 DEF FetchedComplete
<1>2. ASSUME NEW j \in Items, Edit(j)
      PROVE  batch'[v][i] = edited'[i] \/ i \in skipped'[v] \/ Settled(i)'
  <2>1. /\ phase[v] = "fetched" /\ progress[v] /\ batch'[v] = batch[v]
        /\ skipped'[v] = skipped[v] \cup {j}
        /\ edited' = [edited EXCEPT ![j] = clock + 1]
        /\ stored' = stored /\ missed' = missed \ {j}
    BY <1>2 DEF Edit, run, db
  <2>2. CASE i = j
    BY <2>1, <2>2
  <2>3. CASE i # j
    <3>1. edited'[i] = edited[i]
      BY <2>1, <2>3 DEF TypeOK
    <3>2. Settled(i) => Settled(i)'
      BY <2>1, <2>3, <3>1 DEF Settled
    <3> QED BY <1>1, <2>1, <3>1, <3>2
  <2> QED BY <2>2, <2>3
<1>3. ASSUME NEW w \in Workers, Fetch(w)
      PROVE  batch'[v][i] = edited'[i] \/ i \in skipped'[v] \/ Settled(i)'
  <2>1. edited' = edited /\ stored' = stored /\ missed' = missed
    BY <1>3 DEF Fetch, source, db
  <2>2. CASE v = w
    <3>1. CASE i \in Matching(cursor[w]) \cup TooOld(cursor[w])
      BY <1>3, <2>1, <2>2, <3>1, FetchResult
    <3>2. CASE i \notin Matching(cursor[w]) \cup TooOld(cursor[w])
      <4>1. kind = "google_calendar" => cursor[w] = 0
        BY <1>3, <2>2, FetchResult
      <4>2. edited[i] <= cursor[w]
        BY <2>1, <3>2, <4>1, UnmatchedIsOld DEF TypeOK
      <4>3. Settled(i)
        BY <2>1, <4>2 DEF CursorsCovered, Covered
      <4> QED BY <2>1, <4>3 DEF Settled
    <3> QED BY <3>1, <3>2
  <2>3. CASE v # w
    <3>1. /\ batch'[v] = batch[v] /\ progress'[v] = progress[v]
          /\ skipped'[v] = skipped[v]
      BY <1>3, <2>3, FetchResult
    <3>2. phase[v] = "fetched"
      BY <1>3, <2>3 DEF Fetch, TypeOK
    <3>3. Settled(i) => Settled(i)'
      BY <2>1 DEF Settled
    <3> QED BY <1>1, <2>1, <3>1, <3>2, <3>3
  <2> QED BY <2>2, <2>3
<1>4. ASSUME NEW w \in Workers, Load(w) \/ Upsert(w)
      PROVE  batch'[v][i] = edited'[i] \/ i \in skipped'[v] \/ Settled(i)'
  <2>1. UNCHANGED <<edited, stored, missed, batch, progress, skipped>>
    BY <1>4 DEF Load, Upsert, Changed, Now, source, db
  <2>2. phase[v] = "fetched"
    BY <1>4 DEF Load, Upsert, Changed, Now, TypeOK
  <2> QED BY <1>1, <2>1, <2>2 DEF Settled
<1>5. ASSUME NEW w \in Workers, Commit(w) \/ Abort(w)
      PROVE  batch'[v][i] = edited'[i] \/ i \in skipped'[v] \/ Settled(i)'
  <2>1. Finish(w) /\ edited' = edited
    BY <1>5 DEF Commit, NewWatermark, Abort, source
  <2>2. /\ v # w /\ phase[v] = "fetched" /\ progress[v]
        /\ batch'[v] = batch[v] /\ skipped'[v] = skipped[v]
    BY <2>1, FinishBlanks
  <2>3. Settled(i) => Settled(i)'
    BY <1>5, CommitKeepsSettled DEF Abort, source, db, Settled
  <2> QED BY <1>1, <2>1, <2>2, <2>3
<1>6. CASE UNCHANGED vars
  <2>1. UNCHANGED <<edited, stored, missed, phase, batch, progress, skipped>>
    BY <1>6 DEF vars, source, db, run
  <2> QED BY <1>1, <2>1 DEF Settled
<1> QED BY <1>2, <1>3, <1>4, <1>5, <1>6 DEF Next

(* Upserting turns a complete page into complete writes: what it does not    *)
(* write, the row already holds.                                             *)
LEMMA UpsertedStep ==
    ASSUME TypeOK, Causal, FetchedComplete, UpsertedComplete, [Next]_vars
    PROVE  UpsertedComplete'
<1> DEFINE Pending(v, i) == i \in writes[v] /\ batch[v][i] = edited[i]
<1> SUFFICES ASSUME NEW v \in Workers, phase'[v] = "upserted", progress'[v],
                    NEW i \in Items, 0 < edited'[i], edited'[i] <= stamp'[v]
             PROVE  Pending(v, i)' \/ i \in skipped'[v] \/ Settled(i)'
  BY DEF UpsertedComplete
<1>1. ASSUME phase[v] = "upserted", progress[v], batch'[v] = batch[v],
             writes'[v] = writes[v], stamp'[v] = stamp[v], edited'[i] = edited[i],
             i \in skipped[v] => i \in skipped'[v], Settled(i) => Settled(i)'
      PROVE  Pending(v, i)' \/ i \in skipped'[v] \/ Settled(i)'
  BY <1>1 DEF UpsertedComplete
<1>2. ASSUME NEW j \in Items, Edit(j)
      PROVE  Pending(v, i)' \/ i \in skipped'[v] \/ Settled(i)'
  <2>1. /\ phase[v] = "upserted" /\ progress[v]
        /\ UNCHANGED <<batch, writes, stamp, stored>>
        /\ skipped'[v] = skipped[v] \ {j}
        /\ edited' = [edited EXCEPT ![j] = clock + 1]
        /\ missed' = missed \ {j}
    BY <1>2 DEF Edit, run, db
  <2>2. i # j
    <3>1. stamp[v] \in Nat /\ clock \in Nat /\ stamp[v] <= clock
      BY SyncAssumption DEF TypeOK, Times, Causal
    <3>2. edited'[j] = clock + 1
      BY <2>1 DEF TypeOK
    <3> QED BY <2>1, <3>1, <3>2
  <2>3. edited'[i] = edited[i]
    BY <2>1, <2>2 DEF TypeOK
  <2>4. Settled(i) => Settled(i)'
    BY <2>1, <2>2, <2>3 DEF Settled
  <2> QED BY <1>1, <2>1, <2>2, <2>3, <2>4
<1>3. ASSUME NEW w \in Workers, Upsert(w)
      PROVE  Pending(v, i)' \/ i \in skipped'[v] \/ Settled(i)'
  <2>1. UNCHANGED <<edited, stored, missed, batch, progress, skipped>>
    BY <1>3 DEF Upsert, Changed, Now, source, db
  <2>2. CASE v = w
    <3>1. phase[v] = "fetched"
      BY <1>3, <2>2 DEF Upsert, Changed, Now
    <3>2. batch[v][i] = edited[i] \/ i \in skipped[v] \/ Settled(i)
      BY <2>1, <3>1 DEF FetchedComplete
    <3>3. writes'[v] = {k \in Items : batch[v][k] # 0 /\ batch[v][k] # stored[k]}
      BY <1>3, <2>2 DEF Upsert, Changed, Now, TypeOK
    <3>4. edited[i] \in Nat /\ edited[i] # 0
      BY <2>1, SyncAssumption DEF TypeOK, Times
    <3>5. batch[v][i] = edited[i] => Pending(v, i)' \/ stored[i] = edited[i]
      BY <2>1, <3>3, <3>4
    <3> QED BY <2>1, <3>2, <3>5 DEF Settled
  <2>3. CASE v # w
    <3>1. phase[v] = "upserted" /\ writes'[v] = writes[v] /\ stamp'[v] = stamp[v]
      BY <1>3, <2>3 DEF Upsert, Changed, Now, TypeOK
    <3> QED BY <1>1, <2>1, <3>1 DEF Settled
  <2> QED BY <2>2, <2>3
<1>4. ASSUME NEW w \in Workers, Load(w)
      PROVE  Pending(v, i)' \/ i \in skipped'[v] \/ Settled(i)'
  <2>1. UNCHANGED <<edited, stored, missed, batch, progress, writes, stamp, skipped>>
    BY <1>4 DEF Load, source, db
  <2>2. phase[v] = "upserted"
    BY <1>4 DEF Load, TypeOK
  <2> QED BY <1>1, <2>1, <2>2 DEF Settled
<1>5. ASSUME NEW w \in Workers, Fetch(w)
      PROVE  Pending(v, i)' \/ i \in skipped'[v] \/ Settled(i)'
  <2>1. UNCHANGED <<edited, stored, missed, writes, stamp>>
    BY <1>5 DEF Fetch, source, db
  <2>2. v # w /\ phase[v] = "upserted"
    BY <1>5 DEF Fetch, TypeOK
  <2>3. batch'[v] = batch[v] /\ progress'[v] = progress[v] /\ skipped'[v] = skipped[v]
    BY <1>5, <2>2, FetchResult
  <2> QED BY <1>1, <2>1, <2>2, <2>3 DEF Settled
<1>6. ASSUME NEW w \in Workers, Commit(w) \/ Abort(w)
      PROVE  Pending(v, i)' \/ i \in skipped'[v] \/ Settled(i)'
  <2>1. Finish(w) /\ edited' = edited
    BY <1>6 DEF Commit, NewWatermark, Abort, source
  <2>2. /\ phase[v] = "upserted" /\ progress[v] /\ batch'[v] = batch[v]
        /\ writes'[v] = writes[v] /\ stamp'[v] = stamp[v] /\ skipped'[v] = skipped[v]
    BY <2>1, FinishBlanks
  <2>3. Settled(i) => Settled(i)'
    BY <1>6, CommitKeepsSettled DEF Abort, source, db, Settled
  <2> QED BY <1>1, <2>1, <2>2, <2>3
<1>7. CASE UNCHANGED vars
  <2>1. UNCHANGED <<edited, stored, missed, phase, batch, progress, writes, stamp, skipped>>
    BY <1>7 DEF vars, source, db, run
  <2> QED BY <1>1, <2>1 DEF Settled
<1> QED BY <1>2, <1>3, <1>4, <1>5, <1>6, <1>7 DEF Next

(* The watermark moves only to the time stamp of a run whose writes are      *)
(* complete up to that time.                                                 *)
LEMMA WatermarkStep ==
    ASSUME TypeOK, Causal, Covered(watermark), UpsertedComplete, [Next]_vars
    PROVE  Covered(watermark)'
<1>1. watermark \in Nat /\ watermark <= clock
  BY SyncAssumption DEF TypeOK, Times, Causal
<1>2. CASE watermark' = watermark
  <2> DEFINE t == watermark
  <2>1. \A i \in Items : 0 < edited'[i] /\ edited'[i] <= t => Settled(i)'
    <3> SUFFICES ASSUME NEW i \in Items, 0 < edited'[i], edited'[i] <= t
                 PROVE  Settled(i)'
      OBVIOUS
    <3>1. clock \in Nat
      BY SyncAssumption DEF TypeOK, Times
    <3>2. edited'[i] = edited[i] /\ (Settled(i) => Settled(i)')
      BY <1>1, <3>1, SettledStep
    <3> QED BY <3>2 DEF Covered
  <2> QED BY <1>2, <2>1 DEF Covered
<1>3. CASE watermark' # watermark
  <2>1. PICK w \in Workers : Commit(w)
    BY <1>3 DEF Next, Edit, Load, Fetch, Upsert, Changed, Now, Abort, vars, db
  <2>2. phase[w] = "upserted" /\ progress[w] /\ watermark' = stamp[w]
    BY <1>3, <2>1 DEF Commit, NewWatermark
  <2>3. edited' = edited /\ stored' = StoredAfter(w)
    BY <2>1 DEF Commit, NewWatermark, source
  <2> SUFFICES ASSUME NEW i \in Items, 0 < edited[i], edited[i] <= stamp[w]
               PROVE  Settled(i)'
    BY <2>2, <2>3 DEF Covered
  <2>4. CASE i \in writes[w] /\ batch[w][i] = edited[i]
    BY <2>3, <2>4 DEF StoredAfter, Settled
  <2>5. CASE i \in skipped[w]
    BY <2>1, <2>2, <2>3, <2>5 DEF Commit, NewWatermark, Settled
  <2>6. CASE Settled(i)
    BY <2>1, <2>6, CommitKeepsSettled
  <2> QED BY <2>2, <2>4, <2>5, <2>6 DEF UpsertedComplete
<1> QED BY <1>2, <1>3

-----------------------------------------------------------------------------
(* The theorems.                                                             *)

(* The inductive invariant holds in every reachable state.                   *)
THEOREM Invariance == Spec => []Inv
<1>1. Init => Inv
  <2> SUFFICES ASSUME Init
               PROVE  Inv
    OBVIOUS
  <2>1. Nothing \in [Items -> Times] /\ \A i \in Items : Nothing[i] = 0
    BY SyncAssumption DEF Nothing, Times
  <2>2. 0 \in Times /\ 1 \in Times
    BY SyncAssumption DEF Times
  <2>3. TypeOK
    BY <2>1, <2>2, SyncAssumption DEF Init, TypeOK, Phases
  <2>4. Causal
    BY <2>1 DEF Init, Causal
  <2>5. Covered(watermark) /\ CursorsCovered
    BY DEF Init, Covered, CursorsCovered
  <2>6. FetchedComplete /\ UpsertedComplete
    BY DEF Init, FetchedComplete, UpsertedComplete
  <2> QED BY <2>3, <2>4, <2>5, <2>6 DEF Inv
<1>2. Inv /\ [Next]_vars => Inv'
  <2> SUFFICES ASSUME Inv, [Next]_vars
               PROVE  Inv'
    OBVIOUS
  <2> USE DEF Inv
  <2>1. TypeOK'
    BY TypeStep
  <2>2. Causal'
    BY <2>1, CausalStep
  <2>3. Covered(watermark)'
    BY WatermarkStep
  <2>4. CursorsCovered'
    BY CursorsStep
  <2>5. FetchedComplete'
    BY FetchedStep
  <2>6. UpsertedComplete'
    BY UpsertedStep
  <2> QED BY <2>1, <2>2, <2>3, <2>4, <2>5, <2>6
<1> QED BY <1>1, <1>2, PTL DEF Spec

(* Every variable keeps its type.                                            *)
THEOREM TypeCorrect == Spec => []TypeOK
<1>1. Inv => TypeOK
  BY DEF Inv
<1> QED BY <1>1, Invariance, PTL

(* Whatever a connection's watermark has passed is stored in its latest      *)
(* version, unless it was beyond the page, older than Zoom's look-back at    *)
(* the first sync, a recording without a transcript, failed, was edited      *)
(* while the page was being persisted, or was overwritten by an overlapping  *)
(* run.                                                                      *)
THEOREM WatermarkIsHonest == Spec => []LossesExplained
<1>1. Inv => LossesExplained
  BY DEF Inv, LossesExplained
<1> QED BY <1>1, Invariance, PTL

-----------------------------------------------------------------------------
(* Overlapping runs.                                                         *)

\* What a run holds of a document is at least as new as the row, unless another
\* run committed since its fetch.
NotStale ==
    \A w \in Workers :
        /\ ~raced[w] => \A i \in Items : batch[w][i] # 0 => stored[i] <= batch[w][i]
        /\ phase[w] \in {"idle", "loaded"} => batch[w] = Nothing
        /\ \A i \in writes[w] : batch[w][i] # 0
        /\ phase[w] # "upserted" => writes[w] = {}

(* Only a commit can make a page stale, and it marks the runs it overtakes.  *)
LEMMA NotStaleStep ==
    ASSUME TypeOK, Causal, NotStale, [Next]_vars
    PROVE  NotStale'
<1> DEFINE Fresh(v) ==
             /\ ~raced[v] => \A i \in Items : batch[v][i] # 0 => stored[i] <= batch[v][i]
             /\ phase[v] \in {"idle", "loaded"} => batch[v] = Nothing
             /\ \A i \in writes[v] : batch[v][i] # 0
             /\ phase[v] # "upserted" => writes[v] = {}
<1>a. \A v \in Workers : Fresh(v)
  BY DEF NotStale
<1> SUFFICES ASSUME NEW v \in Workers
             PROVE  Fresh(v)'
  BY DEF NotStale
<1>b. \A i \in Items : Nothing[i] = 0
  BY DEF Nothing
<1>1. ASSUME NEW w \in Workers, Commit(w) PROVE Fresh(v)'
  <2>1. Finish(w) /\ raced'[v] = (v # w /\ (raced[v] \/ phase[v] \in {"fetched", "upserted"}))
    BY <1>1 DEF Commit
  <2>2. CASE v = w
    <3>1. batch'[v] = Nothing /\ writes'[v] = {}
      BY <2>1, <2>2, FinishBlanks
    <3> QED BY <1>b, <3>1
  <2>3. CASE v # w
    <3>1. batch'[v] = batch[v] /\ writes'[v] = writes[v] /\ phase'[v] = phase[v]
      BY <2>1, <2>3, FinishBlanks
    <3>2. ~raced'[v] => phase[v] \in {"idle", "loaded"}
      BY <2>1, <2>3 DEF TypeOK, Phases
    <3> QED BY <1>a, <1>b, <3>1, <3>2
  <2> QED BY <2>2, <2>3
<1>2. ASSUME NEW w \in Workers, Abort(w) PROVE Fresh(v)'
  <2>1. Finish(w) /\ stored' = stored /\ raced' = [raced EXCEPT ![w] = FALSE]
    BY <1>2 DEF Abort, db
  <2>2. CASE v = w
    <3>1. batch'[v] = Nothing /\ writes'[v] = {}
      BY <2>1, <2>2, FinishBlanks
    <3> QED BY <1>b, <3>1
  <2>3. CASE v # w
    <3>1. /\ batch'[v] = batch[v] /\ writes'[v] = writes[v] /\ phase'[v] = phase[v]
          /\ raced'[v] = raced[v]
      BY <2>1, <2>3, FinishBlanks DEF TypeOK
    <3> QED BY <1>a, <2>1, <3>1
  <2> QED BY <2>2, <2>3
<1>3. ASSUME NEW w \in Workers, Fetch(w) PROVE Fresh(v)'
  <2>1. stored' = stored /\ writes' = writes /\ raced' = raced
    BY <1>3 DEF Fetch, db
  <2>2. CASE v = w
    <3>1. phase[v] = "loaded" /\ phase'[v] = "fetched"
      BY <1>3, <2>2 DEF Fetch, TypeOK
    <3>2. \A i \in Items : batch'[v][i] \in {0, edited[i]}
      BY <1>3, <2>2, FetchResult
    <3>3. \A i \in Items : stored[i] <= edited[i]
      BY DEF Causal
    <3> QED BY <1>a, <2>1, <3>1, <3>2, <3>3
  <2>3. CASE v # w
    <3>1. batch'[v] = batch[v]
      BY <1>3, <2>3, FetchChoices DEF TypeOK
    <3>2. phase'[v] = phase[v]
      BY <1>3, <2>3 DEF Fetch, TypeOK
    <3> QED BY <1>a, <2>1, <3>1, <3>2
  <2> QED BY <2>2, <2>3
<1>4. ASSUME NEW w \in Workers, Upsert(w) PROVE Fresh(v)'
  <2>1. /\ stored' = stored /\ batch' = batch /\ raced' = raced
        /\ IF v = w THEN phase'[v] = "upserted" /\ writes'[v] = Changed(w)
           ELSE phase'[v] = phase[v] /\ writes'[v] = writes[v]
    BY <1>4 DEF Upsert, db, TypeOK
  <2> QED BY <1>a, <2>1 DEF Changed
<1>5. ASSUME NEW w \in Workers, Load(w) PROVE Fresh(v)'
  <2>1. /\ UNCHANGED <<stored, batch, writes, raced>>
        /\ IF v = w THEN phase[v] = "idle" /\ phase'[v] = "loaded" ELSE phase'[v] = phase[v]
    BY <1>5 DEF Load, db, TypeOK
  <2> QED BY <1>a, <2>1
<1>6. CASE (\E i \in Items : Edit(i)) \/ UNCHANGED vars
  <2>1. UNCHANGED <<stored, batch, writes, phase, raced>>
    BY <1>6 DEF Edit, vars, db, run
  <2> QED BY <1>a, <2>1
<1> QED BY <1>1, <1>2, <1>3, <1>4, <1>5, <1>6 DEF Next

(* Whatever fails, is edited or lies beyond a page, and however many runs    *)
(* overlap: a stored document is put back to older content only by the       *)
(* commit of a run that another run overtook since its fetch                 *)
(* (IngestionPipeline.run, _upsert_documents).                               *)
THEOREM RowsGoBackOnlyByOverlap == Spec => GoesBackOnlyByOverlap
<1>1. Init => NotStale
  BY DEF Init, NotStale, Nothing
<1>2. Inv /\ NotStale /\ [Next]_vars => NotStale'
  BY NotStaleStep DEF Inv
<1>3. Inv /\ NotStale /\ [Next]_vars =>
        [\A i \in Items : \/ stored'[i] >= stored[i]
                          \/ \E w \in Workers : Commit(w) /\ raced[w] /\ i \in writes[w]]_vars
  <2> SUFFICES ASSUME Inv, NotStale, [Next]_vars, NEW i \in Items,
                      ~\E w \in Workers : Commit(w) /\ raced[w] /\ i \in writes[w]
               PROVE  stored'[i] >= stored[i]
    OBVIOUS
  <2>1. /\ stored[i] \in Nat
        /\ \A w \in Workers : batch[w][i] \in Nat
    BY SyncAssumption DEF Inv, TypeOK, Times
  <2>2. ASSUME NEW w \in Workers, Commit(w) PROVE stored'[i] >= stored[i]
    <3>1. stored'[i] = IF i \in writes[w] THEN batch[w][i] ELSE stored[i]
      BY <2>2 DEF Commit, StoredAfter
    <3> QED BY <2>1, <2>2, <3>1 DEF NotStale
  <2>3. CASE ~\E w \in Workers : Commit(w)
    <3>1. stored' = stored
      BY <2>3 DEF Next, Edit, Load, Fetch, Upsert, Abort, vars, db
    <3> QED BY <2>1, <3>1
  <2> QED BY <2>2, <2>3
<1> QED BY <1>1, <1>2, <1>3, Invariance, PTL DEF Spec, GoesBackOnlyByOverlap

-----------------------------------------------------------------------------
(* One run at a time.                                                        *)

OneRun == \A v, w \in Workers : v = w

\* A page has room for every item, or the connector does not page.
OnePage == Kinds = {"obsidian"} \/ Cardinality(Items) <= PageSize

\* Zoom is not used, or has every transcript ready and goes back far enough.
ZoomLeavesNothing ==
    "zoom" \notin Kinds \/ (Untranscribed = {} /\ \A t \in Times : DayOf[t] <= LookBack)

(* Such a page leaves nothing out.                                           *)
LEMMA WholePage ==
    ASSUME OnePage, TypeOK, NEW S \in SUBSET Items, NEW page \in Pages(S)
    PROVE  page = S
<1>1. CASE kind = "obsidian"
  BY <1>1 DEF Pages
<1>2. CASE kind # "obsidian"
  <2>1. Cardinality(Items) <= PageSize
    BY <1>2 DEF OnePage, TypeOK
  <2>2. IsFiniteSet(S) /\ Cardinality(S) \in Nat /\ Cardinality(S) <= Cardinality(Items)
        /\ Cardinality(Items) \in Nat
    BY SyncAssumption, FS_Subset, FS_CardinalityType
  <2>3. page \in SUBSET S /\ (page = S \/ Cardinality(page) = PageSize)
    BY <1>2 DEF Pages
  <2>4. /\ Cardinality(page) <= Cardinality(S)
        /\ Cardinality(S) = Cardinality(page) => S = page
    BY <2>2, <2>3, FS_Subset
  <2>5. PageSize \in Nat
    BY SyncAssumption
  <2> QED BY <2>1, <2>2, <2>3, <2>4, <2>5
<1> QED BY <1>1, <1>2

\* None of the six reasons for a loss has come up.
NothingMissed ==
    missed = {} /\ \A w \in Workers : skipped[w] = {} /\ ~raced[w]

LEMMA NothingMissedStep ==
    ASSUME OneRun, OnePage, ZoomLeavesNothing, Flaky = {}, ~EditsDuringRuns,
           TypeOK, NotStale, NothingMissed, [Next]_vars
    PROVE  NothingMissed'
<1>1. ASSUME NEW i \in Items, Edit(i) PROVE NothingMissed'
  BY <1>1 DEF Edit, NothingMissed
<1>2. ASSUME NEW w \in Workers, Fetch(w) PROVE NothingMissed'
  <2> DEFINE wanted == Matching(cursor[w])
  <2>1. TooOld(cursor[w]) = {}
    <3> SUFFICES ASSUME kind = "zoom", cursor[w] = 0
                 PROVE  Exists \ Matching(0) = {}
      BY DEF TooOld
    <3>1. \A t \in Times : DayOf[t] <= LookBack
      BY DEF ZoomLeavesNothing, TypeOK
    <3>2. ASSUME NEW i \in Exists PROVE DayOf[edited[i]] + LookBack >= DayOf[clock]
      <4>1. edited[i] \in Times /\ clock \in Times
        BY DEF Exists, TypeOK
      <4>2. DayOf[edited[i]] \in Nat /\ DayOf[clock] \in Nat /\ LookBack \in Nat
        BY <4>1, SyncAssumption
      <4> QED BY <3>1, <4>1, <4>2
    <3> QED BY <3>2 DEF Matching
  <2>2. wanted \in SUBSET Items
    BY SyncAssumption DEF TypeOK, Matching, Exists
  <2>3. PICK failed \in SUBSET {}, mute \in SUBSET (IF kind = "zoom" THEN Untranscribed ELSE {}),
             page \in Pages(wanted), token \in BOOLEAN :
          skipped' = [skipped EXCEPT ![w] =
                        (wanted \cup TooOld(cursor[w])) \ (page \ (failed \cup mute))]
    BY <1>2 DEF Fetch
  <2>4. mute = {}
    BY DEF ZoomLeavesNothing, TypeOK
  <2> HIDE DEF wanted
  <2>5. page = wanted
    BY <2>2, WholePage
  <2>6. skipped' = [skipped EXCEPT ![w] = {}]
    BY <2>1, <2>3, <2>4, <2>5
  <2>7. missed' = missed /\ raced' = raced
    BY <1>2 DEF Fetch
  <2> QED BY <2>6, <2>7 DEF NothingMissed, TypeOK
<1>3. ASSUME NEW w \in Workers, Finish(w) PROVE \A v \in Workers : skipped'[v] = {}
  BY <1>3, FinishBlanks DEF NothingMissed
<1>4. ASSUME NEW w \in Workers, Abort(w) PROVE NothingMissed'
  <2>1. missed' = missed /\ raced' = [raced EXCEPT ![w] = FALSE]
    BY <1>4 DEF Abort
  <2> QED BY <1>3, <1>4, <2>1 DEF Abort, NothingMissed, TypeOK
<1>5. ASSUME NEW w \in Workers, Commit(w) PROVE NothingMissed'
  <2>1. Overwritten(w) = {}
    <3>1. ASSUME NEW i \in writes[w] PROVE ~(batch[w][i] < stored[i])
      <4>1. i \in Items /\ stored[i] \in Nat /\ batch[w][i] \in Nat
        BY SyncAssumption DEF TypeOK, Times
      <4> QED BY <4>1 DEF NotStale, NothingMissed
    <3> QED BY <3>1 DEF Overwritten
  <2>2. missed' = {}
    BY <1>5, <2>1 DEF Commit, NothingMissed
  <2>3. \A v \in Workers : ~raced'[v]
    BY <1>5 DEF Commit, OneRun
  <2> QED BY <1>3, <1>5, <2>2, <2>3 DEF Commit, NothingMissed
<1>6. CASE (\E w \in Workers : Load(w) \/ Upsert(w)) \/ UNCHANGED vars
  BY <1>6 DEF Load, Upsert, vars, NothingMissed
<1> QED BY <1>1, <1>2, <1>4, <1>5, <1>6 DEF Next

(* One run at a time, a page with room for every item (or the vault scan,    *)
(* which is not paged), no document that fails, no edit while a page is      *)
(* being persisted, and nothing that Zoom leaves out: then nothing the       *)
(* watermark has passed is missing or stale, for each of the connectors,     *)
(* however runs are aborted.                                                 *)
THEOREM NothingIsLost ==
    ASSUME OneRun, OnePage, ZoomLeavesNothing, Flaky = {}, ~EditsDuringRuns
    PROVE  Spec => []NoLoss
<1>1. Init => NotStale /\ NothingMissed
  BY DEF Init, NotStale, Nothing, NothingMissed
<1>2. Inv /\ NotStale /\ NothingMissed /\ [Next]_vars => (NotStale /\ NothingMissed)'
  BY NotStaleStep, NothingMissedStep DEF Inv
<1>3. Inv /\ NothingMissed => NoLoss
  BY DEF Inv, Covered, Settled, NothingMissed, NoLoss
<1> QED BY <1>1, <1>2, <1>3, Invariance, PTL DEF Spec
=============================================================================
