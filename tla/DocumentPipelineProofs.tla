----------------------- MODULE DocumentPipelineProofs -----------------------
(* TLAPS proofs about DocumentPipeline, for any sets of items, writers and  *)
(* tasks, any concurrency and any number of faults: processing work is lost *)
(* only where the model says so.                                            *)
EXTENDS DocumentPipeline, TLAPS

(* Only a writer between its commit and its dispatch has a to-do list, and  *)
(* a free task has no documents: taking either over forgets nothing.        *)
Tidy ==
    /\ \A w \in Writers : writer[w].at # "committed" => writer[w].todo = {}
    /\ \A j \in Jobs : job[j].at = "free" => job[j].docs = {}

Inv == TypeOK /\ Tidy /\ WorkAccounted

LEMMA KeyType == \A d \in DocIds : KeyOf(d) \in Sources
BY DEF DocIds, KeyOf

(* Rows that a writer inserts are new.                                      *)
LEMMA InsertedAreNew ==
    ASSUME NEW p
    PROVE  Inserted(p) \subseteq DocIds \ (live \cup gone)
BY DEF Inserted, NextId

LEMMA IdleTypes ==
    /\ Idle \in Transactions /\ NoErase \in Erasures /\ Free \in Tasks
<1>1. 0 \in 0..MaxConns /\ 0 \in 0..MaxVersion /\ 0 \in 0..MaxRetries
  BY PipelineAssumption
<1>2. [s \in Sources |-> 0] \in [Sources -> 0..MaxVersion]
  BY <1>1
<1>3. [d \in DocIds |-> 0] \in [DocIds -> 0..MaxVersion]
  BY <1>1
<1> QED BY <1>1, <1>2, <1>3 DEF Idle, NoErase, Free, Transactions, Erasures, Tasks

LEMMA TypeStep ==
    ASSUME TypeOK, [Next]_vars
    PROVE  TypeOK'
<1> USE PipelineAssumption, IdleTypes
<1>0. /\ 0 \in 0..MaxConns /\ 0 \in 0..MaxVersion
      /\ conns \in 0..MaxConns /\ conn \in 0..MaxConns
  BY DEF TypeOK
<1>1. ASSUME NEW s \in Sources, Edit(s)
      PROVE  TypeOK'
  BY <1>1 DEF Edit, tables, TypeOK
<1>2. CASE Connect \/ GrantConsent
  <2>1. CASE Connect
    <3>1. conns' \in 0..MaxConns /\ conn' \in 0..conns'
      BY <2>1 DEF Connect, TypeOK
    <3> QED BY <2>1, <3>1 DEF Connect, TypeOK
  <2>2. CASE GrantConsent
    <3>1. consent' \in BOOLEAN
      BY <2>2 DEF GrantConsent
    <3> QED BY <2>2, <3>1 DEF GrantConsent, outside, TypeOK
  <2> QED BY <1>2, <2>1, <2>2
<1>3. ASSUME NEW w \in Writers, WriterStep(w)
      PROVE  TypeOK'
  <2>1. CASE SyncLoad(w)
    <3>1. [Idle EXCEPT !.at = "loaded", !.route = "sync", !.conn = conn] \in Transactions
      BY <1>0, <2>1 DEF SyncLoad, Transactions
    <3>2. writer' \in [Writers -> Transactions]
      BY <2>1, <3>1 DEF SyncLoad, TypeOK
    <3> QED BY <2>1, <3>2 DEF SyncLoad, outside, tables, TypeOK
  <2>2. CASE SyncFetch(w)
    <3>1. [s \in Sources |-> IF s \in fresh THEN item[s] ELSE 0] \in [Sources -> 0..MaxVersion]
      BY <1>0 DEF TypeOK
    <3>2. PICK touch \in {"update", "none"} :
            writer' = [writer EXCEPT ![w].at = "fetched", ![w].touch = touch,
                         ![w].target = [s \in Sources |-> IF s \in fresh THEN item[s] ELSE 0]]
      BY <2>2 DEF SyncFetch
    <3> DEFINE fetched == [s \in Sources |-> IF s \in fresh THEN item[s] ELSE 0]
               after == [writer[w] EXCEPT !.at = "fetched", !.touch = touch, !.target = fetched]
    <3>3. fetched \in [Sources -> 0..MaxVersion]
      BY <3>1
    <3>4. writer' = [writer EXCEPT ![w] = after]
      BY <3>2 DEF TypeOK
    <3> HIDE DEF fetched
    <3>5. after \in Transactions
      <4>1. writer[w] \in Transactions
        BY DEF TypeOK
      <4> QED BY <3>3, <4>1 DEF Transactions
    <3> HIDE DEF after
    <3>6. writer' \in [Writers -> Transactions]
      BY <3>4, <3>5 DEF TypeOK
    <3> QED BY <2>2, <3>6 DEF SyncFetch, outside, tables, TypeOK
  <2>3. CASE SyncUpsert(w)
    <3>1. Rows({s \in Sources : writer[w].target[s] # 0}) \in SUBSET DocIds
      BY DEF Rows, TypeOK
    <3>2. [writer[w] EXCEPT !.at = "planned",
                            !.rows = Rows({s \in Sources : writer[w].target[s] # 0})]
            \in Transactions
      BY <3>1 DEF Transactions, TypeOK
    <3>3. writer' \in [Writers -> Transactions]
      BY <2>3, <3>2 DEF SyncUpsert, TypeOK
    <3> QED BY <2>3, <3>3 DEF SyncUpsert, outside, tables, TypeOK
  <2>4. CASE Upload(w)
    <3> DEFINE changed(files) == {s \in files : \A d \in RowOf(s) : content[d] # item[s]}
               plan(files) ==
                 [Idle EXCEPT !.at = "planned", !.route = "upload",
                              !.touch = IF conn = 0 THEN "create" ELSE "update",
                              !.conn = conn,
                              !.target = [s \in Sources |->
                                            IF s \in changed(files) THEN item[s] ELSE 0],
                              !.rows = Rows(changed(files)),
                              !.drop = Rows(Sources \ files)]
    <3>1. PICK files \in (SUBSET Sources) \ {{}} : writer' = [writer EXCEPT ![w] = plan(files)]
      BY <2>4 DEF Upload
    <3>2. [s \in Sources |-> IF s \in changed(files) THEN item[s] ELSE 0]
            \in [Sources -> 0..MaxVersion]
      BY <1>0 DEF TypeOK
    <3>3. Rows(changed(files)) \in SUBSET DocIds /\ Rows(Sources \ files) \in SUBSET DocIds
      BY DEF Rows, TypeOK
    <3>4. "upload" \in Routes
      BY <2>4 DEF Upload
    <3> HIDE DEF changed
    <3>5. plan(files) \in Transactions
      BY <1>0, <3>2, <3>3, <3>4 DEF Transactions
    <3> HIDE DEF plan
    <3>6. writer' \in [Writers -> Transactions]
      BY <3>1, <3>5 DEF TypeOK
    <3> QED BY <2>4, <3>6 DEF Upload, outside, tables, TypeOK
  <2>5. CASE Transcript(w)
    <3> DEFINE plan(s) ==
                 [Idle EXCEPT !.at = "planned", !.route = "transcript",
                              !.touch = IF conn = 0 THEN "create" ELSE "none",
                              !.conn = conn,
                              !.target = [t \in Sources |-> IF t = s THEN 1 ELSE 0]]
    <3>1. PICK s \in Sources : writer' = [writer EXCEPT ![w] = plan(s)]
      BY <2>5 DEF Transcript
    <3>2. [t \in Sources |-> IF t = s THEN 1 ELSE 0] \in [Sources -> 0..MaxVersion]
      BY <1>0
    <3>3. plan(s) \in Transactions
      BY <1>0, <2>5, <3>2 DEF Transcript, Transactions
    <3> HIDE DEF plan
    <3>4. writer' \in [Writers -> Transactions]
      BY <3>1, <3>3 DEF TypeOK
    <3> QED BY <2>5, <3>4 DEF Transcript, outside, tables, TypeOK
  <2>6. CASE Commit(w)
    <3> DEFINE p == writer[w]
               written == p.rows \cup Inserted(p)
    <3>1. p \in Transactions
      BY DEF TypeOK
    <3>2. written \in SUBSET DocIds /\ Inserted(p) \cap gone = {}
      BY <3>1, InsertedAreNew DEF Transactions
    <3>3. conns' \in 0..MaxConns /\ conn' \in 0..conns'
      BY <2>6 DEF Commit, BoundReached, TypeOK
    <3>4. live' \subseteq DocIds /\ gone' \subseteq DocIds \ live'
      BY <2>6, <3>1, <3>2 DEF Commit, TypeOK
    <3>5. content' \in [DocIds -> 0..MaxVersion]
      BY <2>6, <3>1, KeyType DEF Commit, Transactions, TypeOK
    <3>6. status' \in [DocIds -> {"pending", "done"}]
      BY <2>6 DEF Commit, TypeOK
    <3>7. [Idle EXCEPT !.at = "committed", !.route = p.route, !.todo = written] \in Transactions
      BY <3>1, <3>2 DEF Transactions
    <3>8. writer' \in [Writers -> Transactions]
      BY <2>6, <3>7 DEF Commit, ToProcess, TypeOK
    <3>9. stranded' \subseteq DocIds /\ fresh' \subseteq Sources
      BY <2>6, <3>2 DEF Commit, TypeOK
    <3> QED BY <2>6, <3>3, <3>4, <3>5, <3>6, <3>8, <3>9 DEF Commit, TypeOK
  <2>7. CASE Rollback(w)
    BY <2>7 DEF Rollback, outside, tables, TypeOK
  <2>8. CASE Dispatch(w)
    <3>1. [Free EXCEPT !.at = "queued", !.docs = writer[w].todo] \in Tasks
      BY DEF Tasks, Transactions, TypeOK
    <3>2. job' \in [Jobs -> Tasks]
      BY <2>8, <3>1 DEF Dispatch, TypeOK
    <3> QED BY <2>8, <3>2 DEF Dispatch, outside, tables, TypeOK
  <2>9. CASE WriterDies(w)
    BY <2>9 DEF WriterDies, outside, tables, TypeOK, Transactions
  <2> QED BY <1>3, <2>1, <2>2, <2>3, <2>4, <2>5, <2>6, <2>7, <2>8, <2>9 DEF WriterStep
<1>4. CASE EraserStep
  <2>1. CASE Disconnect
    <3>1. eraser' \in Erasures
      BY <1>0, <2>1 DEF Disconnect, Erasures
    <3> QED BY <2>1, <3>1 DEF Disconnect, outside, tables, TypeOK
  <2>2. CASE RevokeConsent
    <3>1. eraser' \in Erasures
      BY <2>2 DEF RevokeConsent, Erasures
    <3> QED BY <2>2, <3>1 DEF RevokeConsent, outside, tables, TypeOK
  <2>3. CASE EraseDocuments
    BY <2>3 DEF EraseDocuments, outside, tables, TypeOK, Erasures
  <2>4. CASE EraseCommit
    <3>1. eraser.doomed \subseteq DocIds
      BY DEF TypeOK, Erasures
    <3>2. conn' \in 0..conns /\ consent' \in BOOLEAN
      BY <2>4 DEF EraseCommit, TypeOK
    <3> QED BY <2>4, <3>1, <3>2 DEF EraseCommit, outside, TypeOK
  <2> QED BY <1>4, <2>1, <2>2, <2>3, <2>4 DEF EraserStep
<1>5. ASSUME NEW j \in Jobs, JobStep(j)
      PROVE  TypeOK'
  <2>0. job[j] \in Tasks
    BY DEF TypeOK
  <2>1. CASE ProcessDocuments(j)
    BY <2>1 DEF ProcessDocuments, outside, tables, TypeOK, Tasks
  <2>2. CASE EmbedStart(j)
    BY <2>2 DEF EmbedStart, outside, tables, TypeOK, Tasks
  <2>3. ASSUME NEW d \in DocIds, EmbedRead(j, d)
        PROVE  TypeOK'
    <3> DEFINE seen == [job[j].seen EXCEPT ![d] = IF d \in live THEN content[d] ELSE 0]
               dirty == IF d \in live /\ status[d] # "done"
                        THEN job[j].dirty \cup {d} ELSE job[j].dirty
    <3>1. seen \in [DocIds -> 0..MaxVersion] /\ dirty \in SUBSET DocIds
      BY <1>0, <2>0 DEF TypeOK, Tasks
    <3>2. job' = [job EXCEPT ![j] = [job[j] EXCEPT !.read = @ \cup {d}, !.seen = seen,
                                                   !.dirty = dirty]]
      BY <2>0, <2>3 DEF EmbedRead, TypeOK, Tasks
    <3> HIDE DEF seen, dirty
    <3>3. [job[j] EXCEPT !.read = @ \cup {d}, !.seen = seen, !.dirty = dirty] \in Tasks
      BY <2>0, <3>1 DEF Tasks
    <3>4. job' \in [Jobs -> Tasks]
      BY <3>2, <3>3 DEF TypeOK
    <3> QED BY <2>3, <3>4 DEF EmbedRead, outside, tables, TypeOK
  <2>4. CASE EmbedCommit(j)
    <3>1. embedded' \in [DocIds -> SUBSET (0..MaxVersion)]
      BY <2>0, <2>4 DEF EmbedCommit, TypeOK, Tasks
    <3>2. status' \in [DocIds -> {"pending", "done"}]
      BY <2>4 DEF EmbedCommit, TypeOK
    <3> QED BY <2>4, <3>1, <3>2 DEF EmbedCommit, outside, TypeOK
  <2>5. ASSUME RetryOrGiveUp(j)
        PROVE  job' \in [Jobs -> Tasks] /\ stranded' \subseteq DocIds
    <3>1. CASE job[j].tries < MaxRetries
      <4>1. [Free EXCEPT !.at = "embed", !.docs = job[j].docs, !.tries = job[j].tries + 1]
              \in Tasks
        <5>1. job[j].tries + 1 \in 0..MaxRetries /\ job[j].docs \in SUBSET DocIds
          BY <2>0, <3>1 DEF Tasks
        <5> QED BY <5>1 DEF Tasks
      <4> QED BY <2>5, <3>1, <4>1 DEF RetryOrGiveUp, TypeOK
    <3>2. CASE ~(job[j].tries < MaxRetries)
      <4>1. job' \in [Jobs -> Tasks]
        BY <2>5, <3>2 DEF RetryOrGiveUp, TypeOK
      <4>2. {d \in job[j].docs : Unfinished(d)} \subseteq DocIds
        BY <2>0 DEF Tasks
      <4> QED BY <2>5, <3>2, <4>1, <4>2 DEF RetryOrGiveUp, TypeOK
    <3> QED BY <3>1, <3>2
  <2>6. CASE EmbedStale(j)
    BY <2>5, <2>6 DEF EmbedStale, outside, tables, TypeOK
  <2>7. CASE EmbedFails(j)
    BY <2>5, <2>7 DEF EmbedFails, outside, tables, TypeOK
  <2>8. CASE EmbedCrash(j)
    <3>1. [Free EXCEPT !.at = "embed", !.docs = job[j].docs, !.tries = job[j].tries] \in Tasks
      BY <2>0 DEF Tasks
    <3>2. job' \in [Jobs -> Tasks]
      BY <2>8, <3>1 DEF EmbedCrash, TypeOK
    <3>3. {d \in job[j].docs : Unfinished(d)} \subseteq DocIds
      BY <2>0 DEF Tasks
    <3>4. stranded' \subseteq DocIds
      BY <2>8, <3>3 DEF EmbedCrash, TypeOK
    <3> QED BY <2>8, <3>2, <3>4 DEF EmbedCrash, outside, tables, TypeOK
  <2>9. CASE LoseMessage(j)
    BY <2>0, <2>9 DEF LoseMessage, outside, tables, TypeOK, Tasks
  <2> QED BY <1>5, <2>1, <2>2, <2>3, <2>4, <2>6, <2>7, <2>8, <2>9 DEF JobStep, EmbedStep
<1>6. CASE UNCHANGED vars
  BY <1>6 DEF vars, outside, tables, TypeOK
<1> QED BY <1>1, <1>2, <1>3, <1>4, <1>5, <1>6 DEF Next

(* A task that ends badly is queued again or leaves its place empty.        *)
LEMMA QueuedAgainOrFreed ==
    ASSUME job \in [Jobs -> Tasks], NEW j \in Jobs, NEW n,
           \/ job' = [job EXCEPT ![j] = [Free EXCEPT !.at = "embed", !.docs = job[j].docs, !.tries = n]]
           \/ job' = [job EXCEPT ![j] = Free]
    PROVE  job'[j].at = "embed" \/ job'[j].docs = {}
<1>1. Free.docs = {} /\ [Free EXCEPT !.at = "embed", !.docs = job[j].docs, !.tries = n].at = "embed"
  BY DEF Free
<1> HIDE DEF Free
<1>2. job'[j] = [Free EXCEPT !.at = "embed", !.docs = job[j].docs, !.tries = n] \/ job'[j] = Free
  OBVIOUS
<1> QED BY <1>1, <1>2

LEMMA TidyStep ==
    ASSUME TypeOK, Tidy, [Next]_vars
    PROVE  Tidy'
<1> USE DEF Tidy, TypeOK
<1>0. Idle.at = "idle" /\ Idle.todo = {} /\ Free.at = "free" /\ Free.docs = {}
  BY DEF Idle, Free
<1>1. ASSUME NEW w \in Writers, WriterStep(w)
      PROVE  Tidy'
  <2>1. CASE SyncLoad(w) \/ Upload(w) \/ Transcript(w)
    <3>1. job' = job /\ \A v \in Writers \ {w} : writer'[v] = writer[v]
      BY <2>1 DEF SyncLoad, Upload, Transcript
    <3>2. CASE SyncLoad(w)
      <4>1. writer'[w] = [Idle EXCEPT !.at = "loaded", !.route = "sync", !.conn = conn]
        BY <3>2 DEF SyncLoad
      <4> QED BY <3>1, <4>1 DEF Idle
    <3>3. CASE Upload(w)
      <4> DEFINE changed(files) == {s \in files : \A d \in RowOf(s) : content[d] # item[s]}
                 plan(files) ==
                   [Idle EXCEPT !.at = "planned", !.route = "upload",
                                !.touch = IF conn = 0 THEN "create" ELSE "update",
                                !.conn = conn,
                                !.target = [s \in Sources |->
                                              IF s \in changed(files) THEN item[s] ELSE 0],
                                !.rows = Rows(changed(files)),
                                !.drop = Rows(Sources \ files)]
      <4>1. PICK files \in (SUBSET Sources) \ {{}} : writer' = [writer EXCEPT ![w] = plan(files)]
        BY <3>3 DEF Upload
      <4>2. plan(files).todo = {}
        BY DEF Idle
      <4> QED BY <3>1, <4>1, <4>2
    <3>4. CASE Transcript(w)
      <4> DEFINE plan(s) ==
                   [Idle EXCEPT !.at = "planned", !.route = "transcript",
                                !.touch = IF conn = 0 THEN "create" ELSE "none",
                                !.conn = conn,
                                !.target = [t \in Sources |-> IF t = s THEN 1 ELSE 0]]
      <4>1. PICK s \in Sources : writer' = [writer EXCEPT ![w] = plan(s)]
        BY <3>4 DEF Transcript
      <4>2. plan(s).todo = {}
        BY DEF Idle
      <4> QED BY <3>1, <4>1, <4>2
    <3> QED BY <3>1, <2>1, <3>2, <3>3, <3>4
  <2>2. CASE SyncFetch(w) \/ SyncUpsert(w)
    <3>1. writer[w].todo = {}
      BY <2>2 DEF SyncFetch, SyncUpsert
    <3>2. /\ writer'[w].todo = writer[w].todo /\ job' = job
          /\ \A v \in Writers \ {w} : writer'[v] = writer[v]
      <4>1. writer[w] \in Transactions
        OBVIOUS
      <4>2. CASE SyncFetch(w)
        BY <4>1, <4>2 DEF SyncFetch, Transactions
      <4>3. CASE SyncUpsert(w)
        BY <4>1, <4>3 DEF SyncUpsert, Transactions
      <4> QED BY <2>2, <4>2, <4>3
    <3> QED BY <3>1, <3>2
  <2>3. CASE Commit(w)
    <3>1. job' = job /\ \A v \in Writers \ {w} : writer'[v] = writer[v]
      BY <2>3 DEF Commit
    <3>2. writer'[w].todo = {} \/ writer'[w].at = "committed"
      BY <2>3 DEF Commit, Idle
    <3> QED BY <3>1, <3>2
  <2>4. CASE Rollback(w) \/ WriterDies(w)
    BY <1>0, <2>4 DEF Rollback, WriterDies
  <2>5. CASE Dispatch(w)
    <3>1. \A v \in Writers : writer'[v].at # "committed" => writer'[v].todo = {}
      BY <1>0, <2>5 DEF Dispatch
    <3>2. \A k \in Jobs : job'[k] = job[k] \/ job'[k].at = "queued"
      <4>1. CASE job' = job
        BY <4>1
      <4>2. ASSUME NEW j \in Jobs,
                   job' = [job EXCEPT ![j] = [Free EXCEPT !.at = "queued",
                                                          !.docs = writer[w].todo]]
            PROVE  \A k \in Jobs : job'[k] = job[k] \/ job'[k].at = "queued"
        BY <4>2 DEF Free
      <4> QED BY <2>5, <4>1, <4>2 DEF Dispatch
    <3> QED BY <3>1, <3>2
  <2> QED BY <1>1, <2>1, <2>2, <2>3, <2>4, <2>5 DEF WriterStep
<1>2. ASSUME NEW j \in Jobs, JobStep(j)
      PROVE  Tidy'
  <2>0. job[j] \in Tasks
    OBVIOUS
  <2>1. writer' = writer /\ \A k \in Jobs \ {j} : job'[k] = job[k]
    BY <1>2 DEF JobStep, EmbedStep, ProcessDocuments, EmbedStart, EmbedRead, EmbedCommit,
                EmbedStale, LoseMessage, EmbedFails, EmbedCrash, RetryOrGiveUp
  <2>2. CASE ProcessDocuments(j) \/ EmbedStart(j)
    <3>1. job'[j].at # "free"
      <4>1. CASE ProcessDocuments(j)
        BY <2>0, <4>1 DEF ProcessDocuments, Tasks
      <4>2. CASE EmbedStart(j)
        BY <2>0, <4>2 DEF EmbedStart, Tasks
      <4> QED BY <2>2, <4>1, <4>2
    <3> QED BY <2>1, <3>1
  <2>3. ASSUME NEW d \in DocIds, EmbedRead(j, d)
        PROVE  Tidy'
    <3>1. job'[j].at = job[j].at /\ job[j].at = "running"
      BY <2>0, <2>3 DEF EmbedRead, Tasks
    <3> QED BY <2>1, <3>1
  <2>4. CASE EmbedCommit(j) \/ LoseMessage(j)
    BY <1>0, <2>1, <2>4 DEF EmbedCommit, LoseMessage
  <2>5. CASE EmbedStale(j) \/ EmbedFails(j)
    <3>1. PICK n : \/ job' = [job EXCEPT ![j] = [Free EXCEPT !.at = "embed", !.docs = job[j].docs,
                                                              !.tries = n]]
                   \/ job' = [job EXCEPT ![j] = Free]
      BY <2>5 DEF EmbedStale, EmbedFails, RetryOrGiveUp
    <3>2. job'[j].at = "embed" \/ job'[j].docs = {}
      BY <3>1, QueuedAgainOrFreed
    <3> QED BY <2>1, <3>2
  <2>6. CASE EmbedCrash(j)
    <3>1. \/ job' = [job EXCEPT ![j] = [Free EXCEPT !.at = "embed", !.docs = job[j].docs,
                                                   !.tries = job[j].tries]]
          \/ job' = [job EXCEPT ![j] = Free]
      BY <2>6 DEF EmbedCrash
    <3>2. job'[j].at = "embed" \/ job'[j].docs = {}
      BY <3>1, QueuedAgainOrFreed
    <3> QED BY <2>1, <3>2
  <2> QED BY <1>2, <2>2, <2>3, <2>4, <2>5, <2>6 DEF JobStep, EmbedStep
<1>3. ASSUME UNCHANGED <<writer, job>>
      PROVE  Tidy'
  BY <1>3
<1>4. ASSUME NEW s \in Sources, Edit(s)
      PROVE  Tidy'
  BY <1>3, <1>4 DEF Edit
<1>5. CASE Connect \/ GrantConsent \/ EraserStep \/ UNCHANGED vars
  BY <1>3, <1>5 DEF Connect, GrantConsent, EraserStep, Disconnect, RevokeConsent,
                    EraseDocuments, EraseCommit, vars
<1> QED BY <1>1, <1>2, <1>4, <1>5 DEF Next

(* InHand depends only on the to-do lists, the tasks and the row itself.     *)
LEMMA StillInHand ==
    ASSUME NEW d \in DocIds, InHand(d),
           \A w \in Writers : d \in writer[w].todo => d \in writer'[w].todo,
           job' = job, content'[d] = content[d], status'[d] = status[d]
    PROVE  InHand(d)'
BY DEF InHand

(* Steps that touch neither the rows nor the lists, or only delete rows.     *)
LEMMA NothingLost ==
    ASSUME WorkAccounted, live' \subseteq live, job' = job,
           UNCHANGED <<content, status, embedded>>,
           \A d \in live' : d \in stranded => d \in stranded',
           \A w \in Writers : writer[w].todo \subseteq writer'[w].todo
    PROVE  WorkAccounted'
<1> SUFFICES ASSUME NEW d \in DocIds, Unfinished(d)'
             PROVE  InHand(d)' \/ d \in stranded'
  BY DEF WorkAccounted
<1>1. d \in live' /\ Unfinished(d)
  BY DEF Unfinished
<1>2. InHand(d) \/ d \in stranded
  BY <1>1 DEF WorkAccounted
<1> QED BY <1>1, <1>2, StillInHand

LEMMA CommitStep ==
    ASSUME TypeOK, Tidy, WorkAccounted, NEW w \in Writers, Commit(w)
    PROVE  WorkAccounted'
<1> DEFINE p == writer[w]
           written == p.rows \cup Inserted(p)
<1> SUFFICES ASSUME NEW d \in DocIds, Unfinished(d)'
             PROVE  InHand(d)' \/ d \in stranded'
  BY DEF WorkAccounted
<1>1. CASE d \in written /\ p.route = "transcript"
  BY <1>1 DEF Commit
<1>2. CASE d \in written /\ p.route # "transcript"
  <2>1. writer'[w] = [Idle EXCEPT !.at = "committed", !.route = p.route, !.todo = written]
    BY <1>2 DEF Commit, ToProcess, TypeOK
  <2>2. d \in writer'[w].todo
    BY <1>2, <2>1 DEF Idle
  <2> QED BY <2>2 DEF InHand
<1>3. CASE d \notin written
  <2>1. d \in live /\ d \notin p.drop
    BY <1>3 DEF Unfinished, Commit
  <2>2. content'[d] = content[d] /\ status'[d] = status[d] /\ embedded' = embedded
    BY <1>3 DEF Commit
  <2>3. Unfinished(d)
    BY <2>1, <2>2 DEF Unfinished
  <2>4. d \in stranded => d \in stranded'
    BY <1>3, <2>1 DEF Commit
  <2>5. /\ \A v \in Writers : d \in writer[v].todo => d \in writer'[v].todo
        /\ job' = job
    BY DEF Commit, Tidy, TypeOK
  <2>6. InHand(d) \/ d \in stranded
    BY <2>3 DEF WorkAccounted
  <2> QED BY <2>2, <2>4, <2>5, <2>6, StillInHand
<1> QED BY <1>1, <1>2, <1>3

LEMMA DispatchStep ==
    ASSUME TypeOK, Tidy, WorkAccounted, NEW w \in Writers, Dispatch(w)
    PROVE  WorkAccounted'
<1> SUFFICES ASSUME NEW d \in DocIds, Unfinished(d)'
             PROVE  InHand(d)' \/ d \in stranded'
  BY DEF WorkAccounted
<1>1. /\ Unfinished(d) /\ stranded' = stranded
      /\ content' = content /\ status' = status
      /\ \A v \in Writers \ {w} : writer'[v] = writer[v]
  BY DEF Unfinished, Dispatch, tables
<1>2. CASE writer[w].todo = {}
  BY <1>1, <1>2, StillInHand DEF Dispatch, WorkAccounted
<1>3. CASE writer[w].todo # {}
  <2>1. PICK j \in Jobs :
          /\ job[j].at = "free"
          /\ job' = [job EXCEPT ![j] = [Free EXCEPT !.at = "queued", !.docs = writer[w].todo]]
    BY <1>3 DEF Dispatch
  <2>2. job'[j].docs = writer[w].todo /\ job'[j].read = {}
    BY <2>1 DEF Free, TypeOK
  <2>3. job[j].docs = {} /\ \A k \in Jobs \ {j} : job'[k] = job[k]
    BY <2>1 DEF Tidy, TypeOK
  <2>4. InHand(d) \/ d \in stranded
    BY <1>1 DEF WorkAccounted
  <2> QED BY <1>1, <2>2, <2>3, <2>4 DEF InHand
<1> QED BY <1>2, <1>3

(* Reading, committing, retrying, giving up and crashing of one task.        *)
LEMMA JobLosesNothing ==
    ASSUME TypeOK, Tidy, WorkAccounted, NEW j \in Jobs, JobStep(j)
    PROVE  WorkAccounted'
<1> SUFFICES ASSUME NEW d \in DocIds, Unfinished(d)'
             PROVE  InHand(d)' \/ d \in stranded'
  BY DEF WorkAccounted
<1>0. /\ job[j] \in Tasks /\ writer' = writer
      /\ \A k \in Jobs \ {j} : job'[k] = job[k]
      /\ live' = live /\ content' = content
      /\ status[d] = "done" => status'[d] = "done"
      /\ embedded[d] \subseteq embedded'[d]
      /\ status[d] \in {"pending", "done"} /\ stranded \subseteq stranded'
  BY DEF JobStep, EmbedStep, ProcessDocuments, EmbedStart, EmbedRead, EmbedCommit,
         EmbedStale, LoseMessage, EmbedFails, EmbedCrash, RetryOrGiveUp, tables, TypeOK
<1>1. Unfinished(d)
  BY <1>0 DEF Unfinished, TypeOK
<1>2. CASE d \in stranded
  BY <1>0, <1>2
<1>3. CASE \E w \in Writers : d \in writer[w].todo
  BY <1>0, <1>3 DEF InHand
<1> DEFINE Has(k) == /\ d \in job[k].docs
                     /\ d \in job[k].read => /\ job[k].seen[d] = content[d]
                                             /\ status[d] = "done" \/ d \in job[k].dirty
<1>4. ASSUME NEW k \in Jobs \ {j}, Has(k)
      PROVE  InHand(d)'
  BY <1>0, <1>4 DEF InHand
<1>5. CASE Has(j)
  <2>1. CASE ProcessDocuments(j) \/ EmbedStart(j)
    <3>1. /\ job'[j].docs = job[j].docs /\ job'[j].read = job[j].read
          /\ job'[j].seen = job[j].seen /\ job'[j].dirty = job[j].dirty
      <4>1. CASE ProcessDocuments(j)
        BY <1>0, <4>1 DEF ProcessDocuments, Tasks, TypeOK
      <4>2. CASE EmbedStart(j)
        BY <1>0, <4>2 DEF EmbedStart, Tasks, TypeOK
      <4> QED BY <2>1, <4>1, <4>2
    <3> QED BY <1>0, <1>5, <3>1 DEF InHand
  <2>2. ASSUME NEW e \in DocIds, EmbedRead(j, e)
        PROVE  InHand(d)'
    <3> DEFINE seen == [job[j].seen EXCEPT ![e] = IF e \in live THEN content[e] ELSE 0]
               dirty == IF e \in live /\ status[e] # "done"
                        THEN job[j].dirty \cup {e} ELSE job[j].dirty
    <3>1. /\ job'[j].docs = job[j].docs /\ job'[j].read = job[j].read \cup {e}
          /\ job'[j].seen = seen /\ job'[j].dirty = dirty
          /\ status' = status
      BY <1>0, <2>2 DEF EmbedRead, Tasks, TypeOK, tables
    <3>2. d \in live
      BY <1>1 DEF Unfinished
    <3>3. CASE d = e
      BY <1>0, <1>5, <3>1, <3>2, <3>3 DEF InHand, Tasks
    <3>4. CASE d # e
      BY <1>0, <1>5, <3>1, <3>4 DEF InHand, Tasks
    <3> QED BY <3>3, <3>4
  <2>3. CASE EmbedCommit(j)
    <3>1. d \in job[j].read
      BY <1>5, <2>3 DEF EmbedCommit, EmbedDone
    <3>2. content[d] \in embedded'[d]
      BY <1>5, <2>3, <3>1 DEF EmbedCommit
    <3>3. status'[d] = "done"
      BY <1>5, <2>3, <3>1 DEF EmbedCommit
    <3> QED BY <1>0, <3>2, <3>3 DEF Unfinished
  <2>4. CASE LoseMessage(j)
    BY <1>1, <1>5, <2>4 DEF LoseMessage
  <2>5. CASE EmbedStale(j) \/ EmbedFails(j)
    <3>1. RetryOrGiveUp(j)
      BY <2>5 DEF EmbedStale, EmbedFails
    <3>2. CASE job[j].tries < MaxRetries
      <4>1. job'[j].docs = job[j].docs /\ job'[j].read = {}
        BY <3>1, <3>2 DEF RetryOrGiveUp, Free, TypeOK
      <4> QED BY <1>5, <4>1 DEF InHand
    <3>3. CASE ~(job[j].tries < MaxRetries)
      BY <1>1, <1>5, <3>1, <3>3 DEF RetryOrGiveUp
    <3> QED BY <3>2, <3>3
  <2>6. CASE EmbedCrash(j)
    <3>1. \/ job'[j].docs = job[j].docs /\ job'[j].read = {}
          \/ stranded' = stranded \cup {e \in job[j].docs : Unfinished(e)}
      BY <2>6 DEF EmbedCrash, Free, TypeOK
    <3> QED BY <1>1, <1>5, <3>1 DEF InHand
  <2> QED BY <2>1, <2>2, <2>3, <2>4, <2>5, <2>6 DEF JobStep, EmbedStep
<1>6. \/ d \in stranded \/ (\E w \in Writers : d \in writer[w].todo)
      \/ Has(j) \/ (\E k \in Jobs \ {j} : Has(k))
  BY <1>1 DEF WorkAccounted, InHand
<1> QED BY <1>2, <1>3, <1>4, <1>5, <1>6

LEMMA WorkStep ==
    ASSUME TypeOK, Tidy, WorkAccounted, [Next]_vars
    PROVE  WorkAccounted'
<1>1. ASSUME NEW s \in Sources, Edit(s)
      PROVE  WorkAccounted'
  BY <1>1, NothingLost DEF Edit, tables
<1>2. CASE Connect \/ GrantConsent
  BY <1>2, NothingLost DEF Connect, GrantConsent
<1>3. ASSUME NEW w \in Writers, WriterStep(w)
      PROVE  WorkAccounted'
  <2>1. CASE SyncLoad(w) \/ Upload(w) \/ Transcript(w) \/ Rollback(w)
    <3>1. writer[w].todo = {} /\ \A v \in Writers \ {w} : writer'[v] = writer[v]
      BY <2>1 DEF SyncLoad, Upload, Transcript, Rollback, Tidy, TypeOK
    <3>2. UNCHANGED <<tables, job, stranded>>
      BY <2>1 DEF SyncLoad, Upload, Transcript, Rollback
    <3> QED BY <3>1, <3>2, NothingLost DEF tables
  <2>2. CASE SyncFetch(w) \/ SyncUpsert(w)
    <3>1. writer[w].todo = {} /\ \A v \in Writers \ {w} : writer'[v] = writer[v]
      BY <2>2 DEF SyncFetch, SyncUpsert, Tidy, TypeOK
    <3>2. UNCHANGED <<tables, job, stranded>>
      BY <2>2 DEF SyncFetch, SyncUpsert
    <3> QED BY <3>1, <3>2, NothingLost DEF tables
  <2>3. CASE Commit(w)
    BY <2>3, CommitStep
  <2>4. CASE Dispatch(w)
    BY <2>4, DispatchStep
  <2>5. CASE WriterDies(w)
    <3> SUFFICES ASSUME NEW d \in DocIds, Unfinished(d)'
                 PROVE  InHand(d)' \/ d \in stranded'
      BY DEF WorkAccounted
    <3>1. Unfinished(d) /\ UNCHANGED <<content, status, job>>
      BY <2>5 DEF WriterDies, tables, Unfinished
    <3>2. CASE d \in writer[w].todo
      BY <2>5, <3>1, <3>2 DEF WriterDies
    <3>3. CASE d \notin writer[w].todo
      <4>1. \A v \in Writers : d \in writer[v].todo => d \in writer'[v].todo
        BY <2>5, <3>3 DEF WriterDies, TypeOK
      <4>2. InHand(d) \/ d \in stranded
        BY <3>1 DEF WorkAccounted
      <4> QED BY <2>5, <3>1, <4>1, <4>2, StillInHand DEF WriterDies
    <3> QED BY <3>2, <3>3
  <2> QED BY <1>3, <2>1, <2>2, <2>3, <2>4, <2>5 DEF WriterStep
<1>4. CASE EraserStep
  <2>1. CASE Disconnect \/ RevokeConsent \/ EraseDocuments
    BY <2>1, NothingLost DEF Disconnect, RevokeConsent, EraseDocuments, tables
  <2>2. CASE EraseCommit
    BY <2>2, NothingLost DEF EraseCommit
  <2> QED BY <1>4, <2>1, <2>2 DEF EraserStep
<1>5. ASSUME NEW j \in Jobs, JobStep(j)
      PROVE  WorkAccounted'
  BY <1>5, JobLosesNothing
<1>6. CASE UNCHANGED vars
  BY <1>6, NothingLost DEF vars, tables
<1> QED BY <1>1, <1>2, <1>3, <1>4, <1>5, <1>6 DEF Next

(* The inductive invariant: types, tidy lists, and every unfinished row on a *)
(* list or written off.                                                      *)
THEOREM Invariance == Spec => []Inv
<1>1. Init => Inv
  <2> SUFFICES ASSUME Init
               PROVE  Inv
    OBVIOUS
  <2>1. TypeOK
    <3>1. /\ 1 \in 1..MaxVersion /\ 0 \in 0..MaxVersion /\ 0 \in 0..MaxFaults
          /\ 1 \in 0..MaxConns /\ 1 \in 0..1
      BY PipelineAssumption
    <3>2. /\ item \in [Sources -> 1..MaxVersion]
          /\ content \in [DocIds -> 0..MaxVersion]
          /\ status \in [DocIds -> {"pending", "done"}]
          /\ embedded \in [DocIds -> SUBSET (0..MaxVersion)]
          /\ writer \in [Writers -> Transactions] /\ eraser \in Erasures
          /\ job \in [Jobs -> Tasks]
      BY <3>1, IdleTypes DEF Init
    <3> QED BY <3>1, <3>2 DEF Init, TypeOK
  <2>2. Tidy
    BY DEF Init, Tidy, Idle, Free
  <2>3. WorkAccounted
    BY DEF Init, WorkAccounted, Unfinished
  <2> QED BY <2>1, <2>2, <2>3 DEF Inv
<1>2. Inv /\ [Next]_vars => Inv'
  BY TypeStep, TidyStep, WorkStep DEF Inv
<1> QED BY <1>1, <1>2, PTL DEF Spec

(* The documents, transactions and tasks of one user's source keep their     *)
(* types.                                                                    *)
THEOREM TypeCorrect == Spec => []TypeOK
<1>1. Inv => TypeOK
  BY DEF Inv
<1> QED BY <1>1, Invariance, PTL

(* However many requests, sync runs and tasks overlap, and whatever crashes: *)
(* a row that is pending, or done for a content nobody embedded, is on       *)
(* somebody's list, unless a dying writer, a lost message, a killed child    *)
(* whose late-acknowledged message is not delivered again, an exhausted      *)
(* retry budget or upload_zoom_transcript put it on the stranded ones.       *)
THEOREM WorkIsAccountedFor == Spec => []WorkAccounted
<1>1. Inv => WorkAccounted
  BY DEF Inv
<1> QED BY <1>1, Invariance, PTL

-----------------------------------------------------------------------------
(* Erasure.  An upload, and a sync that has a cursor, write the row of the    *)
(* connection they found, or create one: their commit does not go through     *)
(* on its own.                                                                *)
WritersTouchTheConnection ==
    \A w \in Writers :
        writer[w].at \in {"fetched", "planned"} =>
            \/ writer[w].touch = "create"
            \/ writer[w].touch = "update" /\ writer[w].conn # 0
            \/ writer[w].touch = "none" /\ writer[w].route \in {"sync", "transcript"}

\* A sync started from a connection.
SyncsStartConnected ==
    \A w \in Writers :
        writer[w].at = "loaded" => writer[w].conn # 0 /\ writer[w].route = "sync"

(* Every step of such a writer keeps its claim on the connection until the    *)
(* transaction ends.                                                          *)
LEMMA TouchStep ==
    ASSUME TypeOK, SyncsStartConnected, WritersTouchTheConnection, [Next]_vars
    PROVE  (SyncsStartConnected /\ WritersTouchTheConnection)'
<1> USE DEF WritersTouchTheConnection, SyncsStartConnected
<1>0. Idle.at = "idle"
  BY DEF Idle
<1>1. ASSUME NEW w \in Writers, WriterStep(w)
      PROVE  (SyncsStartConnected /\ WritersTouchTheConnection)'
  <2>0. writer \in [Writers -> Transactions] /\ writer[w] \in Transactions
    BY DEF TypeOK
  <2>1. CASE SyncLoad(w)
    BY <2>0, <2>1 DEF SyncLoad, Idle
  <2>2. CASE SyncFetch(w)
    <3>1. /\ writer'[w].conn = writer[w].conn /\ writer'[w].route = writer[w].route
          /\ writer'[w].at = "fetched" /\ writer[w].at = "loaded"
          /\ \A v \in Writers \ {w} : writer'[v] = writer[v]
      BY <2>0, <2>2 DEF SyncFetch, Transactions
    <3>2. writer'[w].touch \in {"update", "none"}
      <4>1. PICK touch \in {"update", "none"} :
              writer' = [writer EXCEPT ![w].at = "fetched", ![w].touch = touch,
                           ![w].target = [s \in Sources |-> IF s \in fresh THEN item[s] ELSE 0]]
        BY <2>2 DEF SyncFetch
      <4>2. writer'[w].touch = touch
        BY <2>0, <4>1 DEF Transactions
      <4> QED BY <4>2
    <3> QED BY <3>1, <3>2
  <2>3. CASE SyncUpsert(w)
    <3>1. /\ writer'[w].touch = writer[w].touch /\ writer'[w].conn = writer[w].conn
          /\ writer'[w].route = writer[w].route
          /\ writer[w].at = "fetched" /\ writer'[w].at = "planned"
          /\ \A v \in Writers \ {w} : writer'[v] = writer[v]
      BY <2>0, <2>3 DEF SyncUpsert, Transactions
    <3> QED BY <3>1
  <2>4. CASE Upload(w)
    <3> DEFINE changed(files) == {s \in files : \A d \in RowOf(s) : content[d] # item[s]}
               plan(files) ==
                 [Idle EXCEPT !.at = "planned", !.route = "upload",
                              !.touch = IF conn = 0 THEN "create" ELSE "update",
                              !.conn = conn,
                              !.target = [s \in Sources |->
                                            IF s \in changed(files) THEN item[s] ELSE 0],
                              !.rows = Rows(changed(files)),
                              !.drop = Rows(Sources \ files)]
    <3>1. PICK files \in (SUBSET Sources) \ {{}} : writer' = [writer EXCEPT ![w] = plan(files)]
      BY <2>4 DEF Upload
    <3>2. /\ plan(files).at = "planned"
          /\ \/ plan(files).touch = "create"
             \/ plan(files).touch = "update" /\ plan(files).conn # 0
      BY DEF Idle
    <3>3. writer'[w] = plan(files) /\ \A v \in Writers \ {w} : writer'[v] = writer[v]
      BY <2>0, <3>1
    <3> HIDE DEF plan
    <3> QED BY <3>2, <3>3
  <2>5. CASE Transcript(w)
    <3> DEFINE plan(s) ==
                 [Idle EXCEPT !.at = "planned", !.route = "transcript",
                              !.touch = IF conn = 0 THEN "create" ELSE "none",
                              !.conn = conn,
                              !.target = [t \in Sources |-> IF t = s THEN 1 ELSE 0]]
    <3>1. PICK s \in Sources : writer' = [writer EXCEPT ![w] = plan(s)]
      BY <2>5 DEF Transcript
    <3>2. /\ plan(s).at = "planned" /\ plan(s).route = "transcript"
          /\ plan(s).touch \in {"create", "none"}
      BY DEF Idle
    <3>3. writer'[w] = plan(s) /\ \A v \in Writers \ {w} : writer'[v] = writer[v]
      BY <2>0, <3>1
    <3> HIDE DEF plan
    <3> QED BY <3>2, <3>3
  <2>6. CASE Commit(w)
    <3>1. writer'[w].at \in {"idle", "committed"}
          /\ \A v \in Writers \ {w} : writer'[v] = writer[v]
      BY <2>0, <2>6 DEF Commit, Idle
    <3> QED BY <3>1
  <2>7. CASE Rollback(w) \/ Dispatch(w) \/ WriterDies(w)
    BY <1>0, <2>0, <2>7 DEF Rollback, Dispatch, WriterDies
  <2> QED BY <1>1, <2>1, <2>2, <2>3, <2>4, <2>5, <2>6, <2>7 DEF WriterStep
<1>2. CASE UNCHANGED writer
  BY <1>2
<1>3. ASSUME NEW s \in Sources, Edit(s)
      PROVE  UNCHANGED writer
  BY <1>3 DEF Edit
<1>4. CASE Connect \/ GrantConsent
  BY <1>2, <1>4 DEF Connect, GrantConsent
<1>5. CASE EraserStep
  BY <1>2, <1>5 DEF EraserStep, Disconnect, RevokeConsent, EraseDocuments, EraseCommit
<1>6. ASSUME NEW j \in Jobs, JobStep(j)
      PROVE  UNCHANGED writer
  BY <1>6 DEF JobStep, EmbedStep, ProcessDocuments, EmbedStart, EmbedRead, EmbedCommit,
              EmbedStale, LoseMessage, EmbedFails, EmbedCrash
<1>7. CASE UNCHANGED vars
  BY <1>2, <1>7 DEF vars
<1> QED BY <1>1, <1>2, <1>3, <1>4, <1>5, <1>6, <1>7 DEF Next

(* The commit of a transaction that writes the connection row leaves one      *)
(* behind.                                                                    *)
LEMMA CommitNeedsConnection ==
    ASSUME TypeOK, WritersTouchTheConnection, NEW w \in Writers, Commit(w), conn = 0
    PROVE  \/ conn' # 0
           \/ writer[w].touch = "none" /\ writer[w].route \in {"sync", "transcript"}
<1>1. writer[w].at = "planned" /\ ~Conflict(writer[w]) /\ conns \in Nat
  BY DEF Commit, TypeOK
<1>2. CASE writer[w].touch = "create"
  BY <1>1, <1>2 DEF Commit
<1>3. CASE writer[w].touch = "update" /\ writer[w].conn # 0
  BY <1>1, <1>3 DEF Conflict
<1> QED BY <1>1, <1>2, <1>3 DEF WritersTouchTheConnection

(* While a source stays disconnected only a sync without a new cursor or an   *)
(* uploaded transcript adds a document to it: disconnect and revoke_consent   *)
(* are not undone by any other transaction they overtook, however many runs   *)
(* and uploads overlap.                                                       *)
THEOREM ErasedForGood == Spec => ErasedStaysErased
<1> DEFINE Quiet == \/ live' \subseteq live
                    \/ \E w \in Writers : /\ Commit(w) /\ writer[w].touch = "none"
                                          /\ writer[w].route \in {"sync", "transcript"}
<1>1. Init => SyncsStartConnected /\ WritersTouchTheConnection
  BY DEF Init, Idle, WritersTouchTheConnection, SyncsStartConnected
<1>2. TypeOK /\ SyncsStartConnected /\ WritersTouchTheConnection /\ [Next]_vars
        => (SyncsStartConnected /\ WritersTouchTheConnection)'
  BY TouchStep
<1>3. TypeOK /\ WritersTouchTheConnection /\ [Next]_vars
        => [conn = 0 /\ conn' = 0 => Quiet]_vars
  <2> SUFFICES ASSUME TypeOK, WritersTouchTheConnection, [Next]_vars, conn = 0, conn' = 0
               PROVE  Quiet
    OBVIOUS
  <2>1. ASSUME NEW w \in Writers, WriterStep(w)
        PROVE  Quiet
    <3>1. CASE Commit(w)
      BY <3>1, CommitNeedsConnection
    <3>2. CASE ~Commit(w)
      BY <2>1, <3>2 DEF WriterStep, SyncLoad, SyncFetch, SyncUpsert, Upload, Transcript,
                         Rollback, Dispatch, WriterDies, tables
    <3> QED BY <3>1, <3>2
  <2>2. CASE EraserStep
    BY <2>2 DEF EraserStep, Disconnect, RevokeConsent, EraseDocuments, EraseCommit, tables
  <2>3. ASSUME NEW j \in Jobs, JobStep(j)
        PROVE  live' = live
    BY <2>3 DEF JobStep, EmbedStep, ProcessDocuments, EmbedStart, EmbedRead, EmbedCommit,
                EmbedStale, LoseMessage, EmbedFails, EmbedCrash, tables
  <2>4. ASSUME NEW s \in Sources, Edit(s)
        PROVE  live' = live
    BY <2>4 DEF Edit, tables
  <2>5. CASE Connect \/ GrantConsent
    BY <2>5 DEF Connect, GrantConsent
  <2>6. CASE UNCHANGED vars
    BY <2>6 DEF vars, tables
  <2> QED BY <2>1, <2>2, <2>3, <2>4, <2>5, <2>6 DEF Next
<1> QED BY <1>1, <1>2, <1>3, TypeCorrect, PTL DEF Spec, ErasedStaysErased
=============================================================================
