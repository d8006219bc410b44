-------------------------- MODULE BriefingQueueProofs --------------------------
(***************************************************************************)
(* For any users, schedules, worker processes and faults: the types, how   *)
(* often a briefing may be mailed, and how many initial briefings a user   *)
(* may get.                                                                *)
(***************************************************************************)
EXTENDS BriefingQueue, FiniteSetTheorems, TLAPS

USE BriefingAssumption

LEMMA MessageTyped ==
    /\ \A type \in Schedules : Message("generate", type, Users) \in Messages
    /\ \A type \in Schedules : Message("email", type, EmailUsers) \in Messages
    /\ \A u \in Users : Message("initial", "morning", {u}) \in Messages
    /\ \A m \in Messages : m.retries < MaxTaskRetries => [m EXCEPT !.retries = @ + 1] \in Messages
    /\ \A m \in Messages :
         /\ m.for \subseteq Users /\ m.type \in Schedules
         /\ m.task \in {"generate", "email", "initial"}
         /\ m.task = "initial" => \E u \in Users : m.for = {u}
<1>1. 0 \in 0..MaxTaskRetries
  OBVIOUS
<1>2. \A n \in 0..MaxTaskRetries : n < MaxTaskRetries => n + 1 \in 0..MaxTaskRetries
  OBVIOUS
<1>3. \A m \in Messages : m.retries < MaxTaskRetries => [m EXCEPT !.retries = @ + 1] \in Messages
  BY <1>2 DEF Messages
<1> QED BY <1>1, <1>3 DEF Message, Messages

LEMMA NoTaskTyped == NoTask \in Runs /\ NoTask.msg \in Messages /\ NoBriefing \in Rows
<1>1. Messages # {}
  BY MessageTyped
<1> QED BY <1>1 DEF NoTask, Runs, NoBriefing, Rows

LEMMA EnqueuedTyped ==
    ASSUME BriefingTypeOK, NEW m \in Messages
    PROVE  /\ Enqueued(m) \in [Messages -> Nat]
           /\ Retried(m) \in [Messages -> Nat]
BY MessageTyped DEF Enqueued, Retried, BriefingTypeOK

(* What a process may become in one step.                                   *)
LEMMA RunTyped ==
    ASSUME BriefingTypeOK, NEW w \in BriefingWorkers
    PROVE  /\ worker[w] \in Runs
           /\ worker[w].msg \in Messages /\ worker[w].todo \subseteq Users
           /\ worker[w].id \in 0..MaxBriefings
           /\ \A u : [worker[w] EXCEPT !.at = "looping", !.todo = @ \ {u}, !.id = 0] \in Runs
           /\ \A i \in 0..MaxBriefings, a \in {"writing", "sending"} :
                [worker[w] EXCEPT !.at = a, !.id = i] \in Runs
           /\ \A a \in {"marking", "unacked"} : [worker[w] EXCEPT !.at = a] \in Runs
<1>1. worker[w] \in Runs
  BY DEF BriefingTypeOK
<1>2. /\ worker[w].msg \in Messages /\ worker[w].todo \subseteq Users
      /\ worker[w].id \in 0..MaxBriefings
  BY <1>1 DEF Runs
<1>3. ASSUME NEW u PROVE [worker[w] EXCEPT !.at = "looping", !.todo = @ \ {u}, !.id = 0] \in Runs
  <2>1. worker[w].todo \ {u} \in SUBSET Users /\ 0 \in 0..MaxBriefings
    BY <1>2
  <2> QED BY <1>1, <2>1 DEF Runs
<1>4. \A i \in 0..MaxBriefings, a \in {"writing", "sending"} :
        [worker[w] EXCEPT !.at = a, !.id = i] \in Runs
  BY <1>1 DEF Runs
<1>5. \A a \in {"marking", "unacked"} : [worker[w] EXCEPT !.at = a] \in Runs
  BY <1>1 DEF Runs
<1> QED BY <1>1, <1>2, <1>3, <1>4, <1>5

LEMMA ContinueTyped ==
    ASSUME BriefingTypeOK, NEW w \in BriefingWorkers, NEW u, Continue(w, u)
    PROVE  worker' \in [BriefingWorkers -> Runs]
BY RunTyped DEF Continue, Step, BriefingTypeOK

LEMMA NoTaskStep ==
    ASSUME BriefingTypeOK, NEW w \in BriefingWorkers, Step(w, NoTask)
    PROVE  worker' \in [BriefingWorkers -> Runs]
BY NoTaskTyped DEF Step, BriefingTypeOK

(* Where the briefing in a process's hands is: uncommitted and its own while *)
(* it is written, committed once it is read for a mail.                      *)
InHands ==
    /\ \A w \in BriefingWorkers :
         /\ worker[w].todo \subseteq worker[w].msg.for
         /\ worker[w].at = "writing" =>
              /\ worker[w].id \in (1..lastId) \ briefings
              /\ row[worker[w].id].by = worker[w].msg.task
              /\ row[worker[w].id].user \in worker[w].todo
         /\ worker[w].at \in {"sending", "marking"} =>
              worker[w].id \in briefings /\ worker[w].msg.task = "email"
    /\ \A v, w \in BriefingWorkers :
         v # w /\ worker[v].at = "writing" /\ worker[w].at = "writing" => worker[v].id # worker[w].id

Sound == BriefingTypeOK /\ InHands

LEMMA SoundInit == BriefingInit => Sound
<1> SUFFICES ASSUME BriefingInit PROVE Sound
  OBVIOUS
<1>1. BriefingTypeOK
  BY NoTaskTyped DEF BriefingInit, BriefingTypeOK
<1>2. InHands
  BY DEF BriefingInit, InHands, NoTask
<1> QED BY <1>1, <1>2 DEF Sound

(* The processes that do not act keep what they have, the one that acts has  *)
(* nothing that is written or mailed.                                        *)
LEMMA InHandsKept ==
    ASSUME Sound, NEW w \in BriefingWorkers,
           \A v \in BriefingWorkers \ {w} : worker'[v] = worker[v],
           worker'[w].todo \subseteq worker'[w].msg.for,
           worker'[w].at \notin {"writing", "sending", "marking"},
           UNCHANGED briefings, UNCHANGED row, UNCHANGED lastId
    PROVE  InHands'
BY DEF Sound, InHands

LEMMA TypeStep == Sound /\ [BriefingNext]_briefingVars => BriefingTypeOK'
<1> SUFFICES ASSUME Sound, [BriefingNext]_briefingVars PROVE BriefingTypeOK'
  OBVIOUS
<1> USE DEF Sound
<1>a. BriefingTypeOK
  OBVIOUS
<1>1. ASSUME NEW type \in Schedules, Beat(type) PROVE BriefingTypeOK'
  BY <1>1, <1>a, MessageTyped, EnqueuedTyped DEF Beat, BriefingTypeOK, briefingTables
<1>2. ASSUME NEW u \in Users, RequestInitial(u) PROVE BriefingTypeOK'
  <2>1. queue' \in [Messages -> Nat]
    BY <1>2, <1>a, MessageTyped, EnqueuedTyped DEF RequestInitial
  <2> QED BY <1>2, <1>a, <2>1 DEF RequestInitial, BriefingTypeOK, briefingTables
<1>3. ASSUME NEW w \in BriefingWorkers, NEW m \in Messages, Take(w, m) PROVE BriefingTypeOK'
  <2>1. queue' \in [Messages -> Nat]
    BY <1>3 DEF Take, BriefingTypeOK
  <2>2. ASSUME NEW S \in SUBSET Users
        PROVE  [NoTask EXCEPT !.msg = m, !.at = "looping", !.todo = S] \in Runs
    BY NoTaskTyped DEF Runs
  <2>3. worker' \in [BriefingWorkers -> Runs]
    <3>1. m.for \in SUBSET Users /\ {} \in SUBSET Users
      BY MessageTyped
    <3> QED BY <1>3, <2>2, <3>1 DEF Take, Step, BriefingTypeOK
  <2> QED BY <1>3, <2>1, <2>3 DEF Take, BriefingTypeOK, briefingTables
<1>4. ASSUME NEW w \in BriefingWorkers, NEW u \in Users, Generate(w, u) PROVE BriefingTypeOK'
  <2>1. lastId' \in Ids /\ lastId' = lastId + 1
    BY <1>4 DEF Generate, BriefingTypeOK, Ids
  <2>2. [user |-> u, type |-> worker[w].msg.type, by |-> worker[w].msg.task] \in Rows
    BY <1>4, RunTyped, MessageTyped DEF Generate, Generating, Rows
  <2>3. row' \in [Ids -> Rows]
    BY <1>4, <2>1, <2>2 DEF Generate, BriefingTypeOK
  <2>4. worker' \in [BriefingWorkers -> Runs]
    <3>1. [worker[w] EXCEPT !.at = "writing", !.id = lastId'] \in Runs
      <4>1. lastId' \in 0..MaxBriefings
        BY <2>1 DEF Ids
      <4> QED BY <4>1, RunTyped DEF Runs
    <3> QED BY <1>4, <3>1 DEF Generate, Step, BriefingTypeOK
  <2>5. briefings' \subseteq 1..lastId' /\ sentAt' \subseteq briefings' /\ lastId' \in 0..MaxBriefings
    BY <1>4, <2>1 DEF Generate, BriefingTypeOK, Ids
  <2> QED BY <1>4, <2>3, <2>4, <2>5 DEF Generate, BriefingTypeOK
<1>5. ASSUME NEW w \in BriefingWorkers, CommitBriefing(w) PROVE BriefingTypeOK'
  <2>1. briefings' \subseteq 1..lastId' /\ sentAt' \subseteq briefings'
    <3>1. worker[w].id \in 1..lastId /\ lastId' = lastId
      BY <1>5 DEF CommitBriefing, InHands
    <3> QED BY <1>5, <3>1 DEF CommitBriefing, BriefingTypeOK
  <2> QED BY <1>5, <2>1, ContinueTyped DEF CommitBriefing, BriefingTypeOK
<1>6. ASSUME NEW w \in BriefingWorkers, GenerationFails(w) PROVE BriefingTypeOK'
  <2>1. worker' \in [BriefingWorkers -> Runs]
    BY <1>6, ContinueTyped, NoTaskStep DEF GenerationFails
  <2>2. queue' \in [Messages -> Nat]
    BY <1>6, RunTyped, EnqueuedTyped DEF GenerationFails, BriefingTypeOK
  <2> QED BY <1>6, <2>1, <2>2 DEF GenerationFails, Refusal, BriefingTypeOK, briefingTables
<1>7. ASSUME NEW w \in BriefingWorkers, Finish(w) PROVE BriefingTypeOK'
  <2>1. worker' \in [BriefingWorkers -> Runs]
    BY <1>7, RunTyped DEF Finish, Step, BriefingTypeOK
  <2>2. queue' \in [Messages -> Nat]
    BY <1>7, RunTyped, MessageTyped, EnqueuedTyped DEF Finish, BriefingTypeOK
  <2> QED BY <1>7, <2>1, <2>2 DEF Finish, BriefingTypeOK, briefingTables
<1>8. ASSUME NEW w \in BriefingWorkers, DispatchFails(w) PROVE BriefingTypeOK'
  <2>1. worker' \in [BriefingWorkers -> Runs] /\ queue' \in [Messages -> Nat]
    BY <1>8, RunTyped, EnqueuedTyped, NoTaskStep DEF DispatchFails
  <2> QED BY <1>8, <2>1 DEF DispatchFails, Refusal, BriefingTypeOK, briefingTables
<1>9. ASSUME NEW w \in BriefingWorkers, Acknowledge(w) PROVE BriefingTypeOK'
  BY <1>9, NoTaskStep DEF Acknowledge, BriefingTypeOK, briefingTables
<1>10. ASSUME NEW w \in BriefingWorkers, NEW u \in Users, ReadUnsent(w, u) PROVE BriefingTypeOK'
  <2> DEFINE found == Unsent(u, worker[w].msg.type)
  <2>1. CASE found = {}
    BY <1>10, <2>1, ContinueTyped DEF ReadUnsent, BriefingTypeOK, briefingTables
  <2>2. CASE found # {}
    <3>1. PICK i \in Newest(found) : Step(w, [worker[w] EXCEPT !.at = "sending", !.id = i])
      BY <1>10, <2>2 DEF ReadUnsent
    <3>2. i \in 0..MaxBriefings
      <4>1. i \in briefings
        BY <3>1 DEF Newest, Unsent
      <4>2. briefings \subseteq 1..lastId /\ lastId \in 0..MaxBriefings
        BY <1>a DEF BriefingTypeOK
      <4> QED BY <4>1, <4>2
    <3>3. worker' \in [BriefingWorkers -> Runs]
      <4>1. [worker[w] EXCEPT !.at = "sending", !.id = i] \in Runs
        BY <3>2, RunTyped
      <4> QED BY <3>1, <4>1 DEF Step, BriefingTypeOK
    <3> QED BY <1>10, <3>3 DEF ReadUnsent, BriefingTypeOK, briefingTables
  <2> QED BY <2>1, <2>2
<1>11. ASSUME NEW w \in BriefingWorkers, SendMail(w) PROVE BriefingTypeOK'
  <2>1. worker' \in [BriefingWorkers -> Runs]
    <3>1. [worker[w] EXCEPT !.at = "marking"] \in Runs
      BY RunTyped
    <3> QED BY <1>11, <3>1 DEF SendMail, Step, BriefingTypeOK
  <2>2. mails' \in [Ids -> Nat]
    <3>1. mails \in [Ids -> Nat] /\ mails' = [mails EXCEPT ![worker[w].id] = @ + 1]
      BY <1>11 DEF SendMail, BriefingTypeOK
    <3>2. \A i \in Ids : mails[i] \in Nat /\ mails[i] + 1 \in Nat
      BY <3>1
    <3>3. \A i \in Ids : mails'[i] \in Nat
      BY <3>1, <3>2
    <3> QED BY <3>1, <3>3
  <2> QED BY <1>11, <2>1, <2>2 DEF SendMail, BriefingTypeOK, briefingTables
<1>12. ASSUME NEW w \in BriefingWorkers, MarkSent(w) PROVE BriefingTypeOK'
  <2>1. sentAt' \subseteq briefings'
    BY <1>12 DEF MarkSent, InHands, BriefingTypeOK
  <2> QED BY <1>12, <2>1, ContinueTyped DEF MarkSent, BriefingTypeOK
<1>13. ASSUME NEW w \in BriefingWorkers, MailFails(w) PROVE BriefingTypeOK'
  BY <1>13, ContinueTyped DEF MailFails, Refusal, BriefingTypeOK, briefingTables
<1>14. ASSUME NEW w \in BriefingWorkers, Crash(w) PROVE BriefingTypeOK'
  <2>1. worker' \in [BriefingWorkers -> Runs] /\ queue' \in [Messages -> Nat]
    BY <1>14, RunTyped, EnqueuedTyped, NoTaskStep DEF Crash, BriefingTypeOK
  <2>2. lost' \subseteq Messages
    <3>1. worker[w].msg \in Messages /\ lost \subseteq Messages
      BY <1>a, RunTyped DEF BriefingTypeOK
    <3> QED BY <1>14, <3>1 DEF Crash
  <2> QED BY <1>14, <2>1, <2>2 DEF Crash, BriefingTypeOK, briefingTables
<1>15. CASE UNCHANGED briefingVars
  BY <1>15 DEF briefingVars, briefingTables, BriefingTypeOK
<1> QED
  BY <1>1, <1>2, <1>3, <1>4, <1>5, <1>6, <1>7, <1>8, <1>9, <1>10, <1>11, <1>12, <1>13, <1>14, <1>15
  DEF BriefingNext, RunTask

(* Every step keeps InHands.                                                *)
LEMMA InHandsStep == Sound /\ [BriefingNext]_briefingVars => InHands'
<1> SUFFICES ASSUME Sound, [BriefingNext]_briefingVars PROVE InHands'
  OBVIOUS
<1>a. /\ worker \in [BriefingWorkers -> Runs] /\ lastId \in Nat /\ briefings \subseteq 1..lastId
      /\ sentAt \subseteq briefings /\ row \in [Ids -> Rows]
  BY DEF Sound, BriefingTypeOK
<1>b. NoTask.todo = {} /\ NoTask.at = "free"
  BY DEF NoTask
<1>1. ASSUME UNCHANGED <<worker, briefings, row, lastId>> PROVE InHands'
  BY <1>1 DEF Sound, InHands
<1>2. ASSUME NEW w \in BriefingWorkers, NEW m \in Messages, Take(w, m) PROVE InHands'
  <2>1. worker'[w].todo \subseteq worker'[w].msg.for /\ worker'[w].at = "looping"
    BY <1>2, <1>a, NoTaskTyped DEF Take, Step, NoTask
  <2> QED BY <1>2, <1>a, <2>1, InHandsKept DEF Take, Step, briefingTables
<1>3. ASSUME NEW w \in BriefingWorkers, NEW u \in Users, Generate(w, u) PROVE InHands'
  <2>1. /\ lastId' = lastId + 1 /\ lastId' \in Ids /\ lastId' \in 1..lastId' /\ lastId' \notin 1..lastId
        /\ lastId' \notin briefings /\ briefings' = briefings
        /\ u \in worker[w].todo
    BY <1>3, <1>a DEF Generate, Ids
  <2>2. /\ worker'[w].at = "writing" /\ worker'[w].id = lastId'
        /\ worker'[w].todo = worker[w].todo /\ worker'[w].msg = worker[w].msg
        /\ \A v \in BriefingWorkers \ {w} : worker'[v] = worker[v]
    BY <1>3, <1>a DEF Generate, Step, Runs
  <2>3. /\ row'[lastId'].by = worker[w].msg.task /\ row'[lastId'].user = u
        /\ \A i \in 1..lastId : row'[i] = row[i]
    BY <1>3, <1>a, <2>1 DEF Generate, Ids
  <2>4. 1..lastId \subseteq 1..lastId'
    BY <2>1, <1>a
  <2>5. \A v \in BriefingWorkers \ {w} : worker[v].at = "writing" =>
           /\ worker[v].id \in (1..lastId') \ briefings' /\ worker[v].id # lastId'
           /\ row'[worker[v].id] = row[worker[v].id]
    BY <2>1, <2>3, <2>4 DEF Sound, InHands
  <2> QED BY <2>1, <2>2, <2>3, <2>5 DEF Sound, InHands
<1>4. ASSUME NEW w \in BriefingWorkers, CommitBriefing(w) PROVE InHands'
  <2>1. /\ worker'[w].at = "looping" /\ worker'[w].todo \subseteq worker[w].todo
        /\ worker'[w].msg = worker[w].msg
        /\ \A v \in BriefingWorkers \ {w} : worker'[v] = worker[v]
    BY <1>4, <1>a DEF CommitBriefing, Continue, Step, Runs
  <2>2. briefings' = briefings \cup {worker[w].id} /\ UNCHANGED <<row, lastId>> /\ worker[w].at = "writing"
    BY <1>4 DEF CommitBriefing
  <2> QED BY <2>1, <2>2 DEF Sound, InHands
(* A process that goes on with the next user or gives its task back.        *)
<1>5. ASSUME NEW w \in BriefingWorkers, NEW u, Continue(w, u), UNCHANGED <<briefings, row, lastId>>
      PROVE  InHands'
  <2>1. /\ worker'[w].at = "looping" /\ worker'[w].todo \subseteq worker[w].todo
        /\ worker'[w].msg = worker[w].msg
        /\ \A v \in BriefingWorkers \ {w} : worker'[v] = worker[v]
    BY <1>5, <1>a DEF Continue, Step, Runs
  <2> QED BY <1>5, <2>1 DEF Sound, InHands
<1>6. ASSUME NEW w \in BriefingWorkers, Step(w, NoTask), UNCHANGED <<briefings, row, lastId>>
      PROVE  InHands'
  BY <1>6, <1>a, <1>b DEF Step, Sound, InHands
<1>7. ASSUME NEW w \in BriefingWorkers, GenerationFails(w) PROVE InHands'
  BY <1>7, <1>5, <1>6 DEF GenerationFails, briefingTables
<1>8. ASSUME NEW w \in BriefingWorkers, Finish(w) PROVE InHands'
  BY <1>8, <1>a DEF Finish, Step, briefingTables, Sound, InHands, Runs
<1>9. ASSUME NEW w \in BriefingWorkers, DispatchFails(w) \/ Acknowledge(w) \/ Crash(w) PROVE InHands'
  BY <1>9, <1>6 DEF DispatchFails, Acknowledge, Crash, briefingTables
<1>10. ASSUME NEW w \in BriefingWorkers, NEW u \in Users, ReadUnsent(w, u) PROVE InHands'
  <2> DEFINE found == Unsent(u, worker[w].msg.type)
  <2>1. CASE found = {}
    BY <1>10, <2>1, <1>5 DEF ReadUnsent, briefingTables
  <2>2. CASE found # {}
    <3>1. PICK i \in Newest(found) : Step(w, [worker[w] EXCEPT !.at = "sending", !.id = i])
      BY <1>10, <2>2 DEF ReadUnsent
    <3>2. i \in briefings
      BY DEF Newest, Unsent
    <3>3. /\ worker'[w].at = "sending" /\ worker'[w].id = i
          /\ worker'[w].todo = worker[w].todo /\ worker'[w].msg = worker[w].msg
          /\ \A v \in BriefingWorkers \ {w} : worker'[v] = worker[v]
      BY <3>1, <1>a DEF Step, Runs
    <3>4. UNCHANGED <<briefings, row, lastId>> /\ worker[w].msg.task = "email"
      BY <1>10 DEF ReadUnsent, briefingTables
    <3> QED BY <3>2, <3>3, <3>4 DEF Sound, InHands
  <2> QED BY <2>1, <2>2
<1>11. ASSUME NEW w \in BriefingWorkers, SendMail(w) PROVE InHands'
  <2>1. /\ worker'[w].at = "marking" /\ worker'[w].id = worker[w].id
        /\ worker'[w].todo = worker[w].todo /\ worker'[w].msg = worker[w].msg
        /\ \A v \in BriefingWorkers \ {w} : worker'[v] = worker[v]
    BY <1>11, <1>a DEF SendMail, Step, Runs
  <2> QED BY <1>11, <2>1 DEF SendMail, briefingTables, Sound, InHands
<1>12. ASSUME NEW w \in BriefingWorkers, MarkSent(w) PROVE InHands'
  BY <1>12, <1>5 DEF MarkSent
<1>13. ASSUME NEW w \in BriefingWorkers, MailFails(w) PROVE InHands'
  BY <1>13, <1>5 DEF MailFails, briefingTables
<1>14. ASSUME (\E type \in Schedules : Beat(type)) \/ (\E u \in Users : RequestInitial(u))
       PROVE  InHands'
  BY <1>14, <1>1 DEF Beat, RequestInitial, briefingTables
<1>15. CASE UNCHANGED briefingVars
  BY <1>15, <1>1 DEF briefingVars, briefingTables
<1> QED
  BY <1>2, <1>3, <1>4, <1>7, <1>8, <1>9, <1>10, <1>11, <1>12, <1>13, <1>14, <1>15
  DEF BriefingNext, RunTask

LEMMA SoundStep == Sound /\ [BriefingNext]_briefingVars => Sound'
BY TypeStep, InHandsStep DEF Sound

(* Type correctness of the briefing queue, for every value of the constants. *)
THEOREM BriefingsTyped == BriefingSpec => []BriefingTypeOK
BY SoundInit, SoundStep, PTL DEF BriefingSpec, Sound

-----------------------------------------------------------------------------
(* Sets of processes and how one step changes their number.                 *)

LEMMA WorkersCounted ==
    /\ Cardinality(BriefingWorkers) \in Nat
    /\ \A S \in SUBSET BriefingWorkers :
         IsFiniteSet(S) /\ Cardinality(S) \in Nat /\ Cardinality(S) <= Cardinality(BriefingWorkers)
BY FS_Subset, FS_CardinalityType

LEMMA OneMore ==
    ASSUME NEW S \in SUBSET BriefingWorkers, NEW T \in SUBSET BriefingWorkers, NEW w,
           T \subseteq S \cup {w}
    PROVE  Cardinality(T) <= Cardinality(S) + 1
<1>1. IsFiniteSet(S \cup {w}) /\ Cardinality(S \cup {w}) <= Cardinality(S) + 1
  <2>1. IsFiniteSet(S) /\ Cardinality(S) \in Nat
    BY WorkersCounted
  <2>2. /\ IsFiniteSet(S \cup {w})
        /\ Cardinality(S \cup {w}) = IF w \in S THEN Cardinality(S) ELSE Cardinality(S) + 1
    BY <2>1, FS_AddElement
  <2> QED BY <2>1, <2>2
<1>2. Cardinality(T) <= Cardinality(S \cup {w}) /\ Cardinality(S \cup {w}) \in Nat
  BY <1>1, FS_Subset, FS_CardinalityType
<1> QED BY <1>1, <1>2, WorkersCounted

LEMMA OneLess ==
    ASSUME NEW S \in SUBSET BriefingWorkers, NEW T \in SUBSET BriefingWorkers, NEW w \in S,
           T \subseteq S \ {w}
    PROVE  Cardinality(T) + 1 <= Cardinality(S)
<1>1. IsFiniteSet(S \ {w}) /\ Cardinality(S \ {w}) = Cardinality(S) - 1
  BY WorkersCounted, FS_RemoveElement
<1>2. Cardinality(T) <= Cardinality(S \ {w})
  BY <1>1, FS_Subset
<1> QED BY <1>1, <1>2, WorkersCounted

LEMMA NoMore ==
    ASSUME NEW S \in SUBSET BriefingWorkers, NEW T \in SUBSET BriefingWorkers, T \subseteq S
    PROVE  Cardinality(T) <= Cardinality(S)
BY WorkersCounted, FS_Subset

LEMMA ApartBounded ==
    ASSUME NEW S \in SUBSET BriefingWorkers, NEW T \in SUBSET BriefingWorkers, S \cap T = {}
    PROVE  Cardinality(S) + Cardinality(T) <= Cardinality(BriefingWorkers)
<1>1. Cardinality(S \cup T) = Cardinality(S) + Cardinality(T)
  <2>1. Cardinality(S \cap T) = 0
    BY FS_EmptySet
  <2>2. Cardinality(S \cup T) = Cardinality(S) + Cardinality(T) - Cardinality(S \cap T)
    BY WorkersCounted, FS_Union
  <2> QED BY <2>1, <2>2, WorkersCounted
<1> QED BY <1>1, WorkersCounted

-----------------------------------------------------------------------------
(* Mails.  Each one is marked, or in the hands of the process that will mark *)
(* it, or the price of a fault; a process that reads the briefing before the *)
(* mark may add one.                                                         *)

Sending(i) == {w \in BriefingWorkers : worker[w].at = "sending" /\ worker[w].id = i}
Marking(i) == {w \in BriefingWorkers : worker[w].at = "marking" /\ worker[w].id = i}
Faults == crashes + refusals

Postage ==
    \A i \in Ids :
        /\ i \notin sentAt => mails[i] <= Faults + Cardinality(Marking(i))
        /\ i \in sentAt =>
             mails[i] + Cardinality(Sending(i)) <= Faults + Cardinality(BriefingWorkers)

LEMMA MailersCounted ==
    ASSUME NEW i
    PROVE  /\ Sending(i) \in SUBSET BriefingWorkers /\ Sending(i)' \in SUBSET BriefingWorkers
           /\ Marking(i) \in SUBSET BriefingWorkers /\ Marking(i)' \in SUBSET BriefingWorkers
           /\ Cardinality(Sending(i)) \in Nat /\ Cardinality(Sending(i)') \in Nat
           /\ Cardinality(Marking(i)) \in Nat /\ Cardinality(Marking(i)') \in Nat
           /\ Cardinality(BriefingWorkers) \in Nat
<1>1. /\ Sending(i) \in SUBSET BriefingWorkers /\ Sending(i)' \in SUBSET BriefingWorkers
      /\ Marking(i) \in SUBSET BriefingWorkers /\ Marking(i)' \in SUBSET BriefingWorkers
  BY DEF Sending, Marking
<1> QED BY <1>1, WorkersCounted

LEMMA FaultsCounted ==
    BriefingTypeOK => Faults \in Nat /\ \A i \in Ids : mails[i] \in Nat
BY DEF BriefingTypeOK, Faults

(* A step that mails nothing and leaves the mailing processes alone.        *)
LEMMA PostageKept ==
    ASSUME Sound, Postage, NEW w \in BriefingWorkers,
           \A v \in BriefingWorkers \ {w} : worker'[v] = worker[v],
           worker[w].at \notin {"sending", "marking"}, worker'[w].at \notin {"sending", "marking"},
           UNCHANGED <<mails, sentAt, crashes>>, refusals' \in {refusals, refusals + 1}
    PROVE  Postage'
<1> SUFFICES ASSUME NEW i \in Ids
             PROVE  /\ i \notin sentAt' => mails'[i] <= Faults' + Cardinality(Marking(i)')
                    /\ i \in sentAt' =>
                         mails'[i] + Cardinality(Sending(i)') <= Faults' + Cardinality(BriefingWorkers)
  BY DEF Postage
<1>1. Sending(i)' = Sending(i) /\ Marking(i)' = Marking(i)
  BY DEF Sending, Marking
<1>2. Faults' \in {Faults, Faults + 1}
  <2>1. crashes \in Nat /\ refusals \in Nat
    BY DEF Sound, BriefingTypeOK
  <2>2. crashes' = crashes
    OBVIOUS
  <2>3. CASE refusals' = refusals
    BY <2>2, <2>3 DEF Faults
  <2>4. CASE refusals' = refusals + 1
    <3>1. Faults' = crashes + (refusals + 1)
      BY <2>2, <2>4 DEF Faults
    <3>2. Faults = crashes + refusals
      BY DEF Faults
    <3>3. crashes + (refusals + 1) = (crashes + refusals) + 1
      BY <2>1
    <3> QED BY <3>1, <3>2, <3>3
  <2>5. refusals' = refusals \/ refusals' = refusals + 1
    OBVIOUS
  <2> QED BY <2>3, <2>4, <2>5
<1> QED BY <1>1, <1>2, MailersCounted, FaultsCounted DEF Postage, Sound

(* A fault takes at most one process out of the mailing.                    *)
LEMMA FaultPays ==
    ASSUME Sound, Postage, NEW w \in BriefingWorkers,
           \A v \in BriefingWorkers \ {w} : worker'[v] = worker[v],
           worker'[w].at \notin {"sending", "marking"},
           UNCHANGED <<mails, sentAt>>, Faults' = Faults + 1
    PROVE  Postage'
<1> SUFFICES ASSUME NEW i \in Ids
             PROVE  /\ i \notin sentAt' => mails'[i] <= Faults' + Cardinality(Marking(i)')
                    /\ i \in sentAt' =>
                         mails'[i] + Cardinality(Sending(i)') <= Faults' + Cardinality(BriefingWorkers)
  BY DEF Postage
<1>1. Sending(i)' \subseteq Sending(i) /\ Marking(i) \subseteq Marking(i)' \cup {w}
  BY DEF Sending, Marking
<1>2. /\ Cardinality(Sending(i)') <= Cardinality(Sending(i))
      /\ Cardinality(Marking(i)) <= Cardinality(Marking(i)') + 1
  BY <1>1, MailersCounted, NoMore, OneMore
<1> QED BY <1>2, MailersCounted, FaultsCounted DEF Postage, Sound

LEMMA PostageStep == Sound /\ Postage /\ [BriefingNext]_briefingVars => Postage'
<1> SUFFICES ASSUME Sound, Postage, [BriefingNext]_briefingVars PROVE Postage'
  OBVIOUS
<1>a. /\ worker \in [BriefingWorkers -> Runs] /\ sentAt \subseteq briefings /\ briefings \subseteq Ids
      /\ mails \in [Ids -> Nat] /\ crashes \in Nat /\ refusals \in Nat
  BY DEF Sound, BriefingTypeOK, Ids
<1>b. NoTask.at = "free"
  BY DEF NoTask
<1>1. ASSUME UNCHANGED <<worker, mails, sentAt, crashes, refusals>> PROVE Postage'
  BY <1>1 DEF Postage, Sending, Marking, Faults
<1>3. ASSUME NEW w \in BriefingWorkers, NEW m \in Messages, Take(w, m) PROVE Postage'
  <2>1. worker'[w].at = "looping" /\ \A v \in BriefingWorkers \ {w} : worker'[v] = worker[v]
    BY <1>3, <1>a, NoTaskTyped DEF Take, Step, NoTask
  <2> QED BY <1>3, <2>1, PostageKept DEF Take, briefingTables
<1>4. ASSUME NEW w \in BriefingWorkers, NEW u \in Users, Generate(w, u) PROVE Postage'
  <2>1. worker'[w].at = "writing" /\ \A v \in BriefingWorkers \ {w} : worker'[v] = worker[v]
    BY <1>4, <1>a DEF Generate, Step, Runs
  <2> QED BY <1>4, <2>1, PostageKept DEF Generate, Generating
<1>c. ASSUME NEW w \in BriefingWorkers, NEW u, Continue(w, u)
      PROVE  worker'[w].at = "looping" /\ \A v \in BriefingWorkers \ {w} : worker'[v] = worker[v]
  BY <1>c, <1>a DEF Continue, Step, Runs
<1>d. ASSUME NEW w \in BriefingWorkers, Step(w, NoTask)
      PROVE  worker'[w].at = "free" /\ \A v \in BriefingWorkers \ {w} : worker'[v] = worker[v]
  BY <1>d, <1>a, <1>b DEF Step
<1>5. ASSUME NEW w \in BriefingWorkers, CommitBriefing(w) PROVE Postage'
  BY <1>5, <1>c, PostageKept DEF CommitBriefing
<1>6. ASSUME NEW w \in BriefingWorkers, GenerationFails(w) PROVE Postage'
  <2>1. worker'[w].at \in {"free", "looping"} /\ \A v \in BriefingWorkers \ {w} : worker'[v] = worker[v]
    BY <1>6, <1>c, <1>d DEF GenerationFails
  <2>2. worker[w].at \in {"looping", "writing"}
    BY <1>6 DEF GenerationFails, Generating
  <2> QED BY <1>6, <2>1, <2>2, PostageKept DEF GenerationFails, Refusal, briefingTables
<1>7. ASSUME NEW w \in BriefingWorkers, Finish(w) PROVE Postage'
  <2>1. worker'[w].at = "unacked" /\ \A v \in BriefingWorkers \ {w} : worker'[v] = worker[v]
    BY <1>7, <1>a DEF Finish, Step, Runs
  <2> QED BY <1>7, <2>1, PostageKept DEF Finish, briefingTables
<1>8. ASSUME NEW w \in BriefingWorkers, DispatchFails(w) \/ Acknowledge(w) PROVE Postage'
  BY <1>8, <1>d, PostageKept DEF DispatchFails, Acknowledge, Refusal, briefingTables
<1>9. ASSUME NEW w \in BriefingWorkers, NEW u \in Users, ReadUnsent(w, u) PROVE Postage'
  <2> DEFINE found == Unsent(u, worker[w].msg.type)
  <2>0. UNCHANGED <<mails, sentAt, crashes, refusals>> /\ worker[w].at = "looping"
    BY <1>9 DEF ReadUnsent, briefingTables
  <2>1. CASE found = {}
    BY <1>9, <2>0, <2>1, <1>c, PostageKept DEF ReadUnsent
  <2>2. CASE found # {}
    <3>1. PICK j \in Newest(found) : Step(w, [worker[w] EXCEPT !.at = "sending", !.id = j])
      BY <1>9, <2>2 DEF ReadUnsent
    <3>2. j \notin sentAt
      BY DEF Newest, Unsent
    <3>3. /\ worker'[w].at = "sending" /\ worker'[w].id = j
          /\ \A v \in BriefingWorkers \ {w} : worker'[v] = worker[v]
      BY <3>1, <1>a DEF Step, Runs
    <3>4. \A i \in Ids : Marking(i)' = Marking(i) /\ (i \in sentAt => Sending(i)' = Sending(i))
      BY <2>0, <3>2, <3>3 DEF Marking, Sending
    <3>5. Faults' = Faults
      BY <2>0 DEF Faults
    <3> QED BY <2>0, <3>4, <3>5 DEF Postage
  <2> QED BY <2>1, <2>2
<1>10. ASSUME NEW w \in BriefingWorkers, SendMail(w) PROVE Postage'
  <2>1. /\ worker'[w].at = "marking" /\ worker'[w].id = worker[w].id
        /\ \A v \in BriefingWorkers \ {w} : worker'[v] = worker[v]
        /\ worker[w].at = "sending" /\ worker[w].id \in Ids
        /\ UNCHANGED <<sentAt, crashes, refusals>>
    BY <1>10, <1>a DEF SendMail, Step, Runs, briefingTables, Sound, InHands
  <2>2. Faults' = Faults
    BY <2>1 DEF Faults
  <2> SUFFICES ASSUME NEW i \in Ids
               PROVE  /\ i \notin sentAt => mails'[i] <= Faults + Cardinality(Marking(i)')
                      /\ i \in sentAt =>
                           mails'[i] + Cardinality(Sending(i)') <= Faults + Cardinality(BriefingWorkers)
    BY <2>1, <2>2 DEF Postage
  <2>3. CASE i = worker[w].id
    <3>1. mails'[i] = mails[i] + 1
      BY <1>10, <1>a, <2>1, <2>3 DEF SendMail
    <3>2. w \in Sending(i) /\ Sending(i)' \subseteq Sending(i) \ {w}
      BY <2>1, <2>3 DEF Sending
    <3>3. w \in Marking(i)' /\ Marking(i) \subseteq Marking(i)' \ {w}
      BY <2>1, <2>3 DEF Marking
    <3>4. /\ Cardinality(Sending(i)') + 1 <= Cardinality(Sending(i))
          /\ Cardinality(Marking(i)) + 1 <= Cardinality(Marking(i)')
      BY <3>2, <3>3, OneLess, MailersCounted
    <3> QED BY <3>1, <3>4, MailersCounted, FaultsCounted DEF Postage, Sound
  <2>4. CASE i # worker[w].id
    <3>1. mails'[i] = mails[i]
      BY <1>10, <1>a, <2>4 DEF SendMail
    <3>2. Sending(i)' = Sending(i) /\ Marking(i)' = Marking(i)
      BY <2>1, <2>4 DEF Sending, Marking
    <3> QED BY <3>1, <3>2 DEF Postage
  <2> QED BY <2>3, <2>4
<1>11. ASSUME NEW w \in BriefingWorkers, MarkSent(w) PROVE Postage'
  <2>1. /\ worker'[w].at = "looping" /\ \A v \in BriefingWorkers \ {w} : worker'[v] = worker[v]
        /\ worker[w].at = "marking" /\ UNCHANGED <<mails, crashes, refusals>>
        /\ sentAt' = sentAt \cup {worker[w].id}
    BY <1>11, <1>c DEF MarkSent
  <2>2. Faults' = Faults
    BY <2>1 DEF Faults
  <2> SUFFICES ASSUME NEW i \in Ids
               PROVE  /\ i \notin sentAt' => mails[i] <= Faults + Cardinality(Marking(i)')
                      /\ i \in sentAt' =>
                           mails[i] + Cardinality(Sending(i)') <= Faults + Cardinality(BriefingWorkers)
    BY <2>1, <2>2 DEF Postage
  <2>3. Sending(i)' = Sending(i)
    BY <2>1 DEF Sending
  <2>4. CASE i = worker[w].id /\ i \notin sentAt
    <3>1. Sending(i) \cap Marking(i) = {}
      BY DEF Sending, Marking
    <3>2. Cardinality(Sending(i)) + Cardinality(Marking(i)) <= Cardinality(BriefingWorkers)
      BY <3>1, ApartBounded, MailersCounted
    <3> QED BY <2>1, <2>3, <2>4, <3>2, MailersCounted, FaultsCounted DEF Postage, Sound
  <2>5. CASE i \in sentAt
    BY <2>1, <2>3, <2>5 DEF Postage
  <2>6. CASE i # worker[w].id /\ i \notin sentAt
    <3>1. Marking(i)' = Marking(i)
      BY <2>1, <2>6 DEF Marking
    <3> QED BY <2>1, <2>6, <3>1 DEF Postage
  <2> QED BY <2>4, <2>5, <2>6
<1>12. ASSUME NEW w \in BriefingWorkers, MailFails(w) PROVE Postage'
  <2>1. Faults' = Faults + 1
    BY <1>12, <1>a DEF MailFails, Refusal, Faults
  <2> QED BY <1>12, <1>c, <2>1, FaultPays DEF MailFails, briefingTables
<1>13. ASSUME NEW w \in BriefingWorkers, Crash(w) PROVE Postage'
  <2>1. Faults' = Faults + 1
    BY <1>13, <1>a DEF Crash, Faults
  <2> QED BY <1>13, <1>d, <2>1, FaultPays DEF Crash, briefingTables
<1>14. ASSUME (\E type \in Schedules : Beat(type)) \/ (\E u \in Users : RequestInitial(u))
       PROVE  Postage'
  BY <1>14, <1>1 DEF Beat, RequestInitial, briefingTables
<1>15. CASE UNCHANGED briefingVars
  BY <1>15, <1>1 DEF briefingVars, briefingTables
<1> QED
  BY <1>3, <1>4, <1>5, <1>6, <1>7, <1>8, <1>9, <1>10, <1>11, <1>12, <1>13, <1>14, <1>15
  DEF BriefingNext, RunTask

LEMMA PostageInit == BriefingInit => Postage
<1> SUFFICES ASSUME BriefingInit, NEW i \in Ids
             PROVE  mails[i] <= Faults + Cardinality(Marking(i)) /\ i \notin sentAt
  BY DEF Postage
<1> QED BY MailersCounted DEF BriefingInit, Faults

(* Whatever overlaps, is delivered again, crashes or is refused: a briefing is *)
(* mailed at most once per process and once per fault.                         *)
THEOREM MailsAreBounded == BriefingSpec => []MailsBounded
<1>1. Sound /\ Postage => MailsBounded
  <2> SUFFICES ASSUME Sound, Postage, NEW i \in Ids
               PROVE  mails[i] <= Cardinality(BriefingWorkers) + crashes + refusals
    BY DEF MailsBounded
  <2>1. crashes \in Nat /\ refusals \in Nat
    BY DEF Sound, BriefingTypeOK
  <2>2. Cardinality(Marking(i)) <= Cardinality(BriefingWorkers)
    BY MailersCounted, WorkersCounted
  <2> QED BY <2>1, <2>2, MailersCounted, FaultsCounted DEF Postage, Faults, Sound
<1> QED BY <1>1, SoundInit, SoundStep, PostageInit, PostageStep, PTL DEF BriefingSpec

-----------------------------------------------------------------------------
(* Initial briefings.  A process that is past the check for a user, and has  *)
(* not yet committed, holds one place of the bound; it got there when the    *)
(* user had no briefing at all.                                              *)

Initials(u) == {i \in briefings : row[i].user = u /\ row[i].by = "initial"}
Asking(u) == {w \in BriefingWorkers : /\ worker[w].msg.task = "initial"
                                      /\ worker[w].at \in {"looping", "writing"}
                                      /\ u \in worker[w].todo}

OnePlaceEach ==
    \A u \in Users : Cardinality(Initials(u)) + Cardinality(Asking(u)) <= Cardinality(BriefingWorkers)

LEMMA InitialsCounted ==
    ASSUME BriefingTypeOK, NEW u
    PROVE  IsFiniteSet(Initials(u)) /\ Cardinality(Initials(u)) \in Nat
<1>1. IsFiniteSet(1..MaxBriefings)
  BY FS_Interval
<1>2. 1..lastId \subseteq 1..MaxBriefings
  BY DEF BriefingTypeOK
<1>3. Initials(u) \subseteq 1..MaxBriefings
  BY <1>2 DEF Initials, BriefingTypeOK
<1> QED BY <1>1, <1>3, FS_Subset, FS_CardinalityType

LEMMA AskingCounted ==
    ASSUME NEW u
    PROVE  /\ Asking(u) \in SUBSET BriefingWorkers /\ Asking(u)' \in SUBSET BriefingWorkers
           /\ Cardinality(Asking(u)) \in Nat /\ Cardinality(Asking(u)') \in Nat
           /\ Cardinality(Asking(u)') <= Cardinality(BriefingWorkers)
           /\ Cardinality(BriefingWorkers) \in Nat
<1>1. Asking(u) \in SUBSET BriefingWorkers /\ Asking(u)' \in SUBSET BriefingWorkers
  BY DEF Asking
<1> QED BY <1>1, WorkersCounted

(* An initial task is for a single user.                                    *)
LEMMA InitialForOne ==
    ASSUME Sound, NEW w \in BriefingWorkers, worker[w].msg.task = "initial"
    PROVE  \A u, v \in worker[w].todo : u = v
<1>1. worker[w].msg \in Messages
  BY RunTyped DEF Sound
<1>2. PICK u \in Users : worker[w].msg.for = {u}
  BY <1>1, MessageTyped
<1> QED BY <1>2 DEF Sound, InHands

(* No row is added and the acting process does not get past the check.      *)
LEMMA PlacesKept ==
    ASSUME Sound, OnePlaceEach,
           \A u \in Users : Asking(u)' \subseteq Asking(u) /\ Initials(u)' = Initials(u)
    PROVE  OnePlaceEach'
<1> SUFFICES ASSUME NEW u \in Users
             PROVE  Cardinality(Initials(u)') + Cardinality(Asking(u)') <= Cardinality(BriefingWorkers)
  BY DEF OnePlaceEach
<1>1. Cardinality(Asking(u)') <= Cardinality(Asking(u))
  BY AskingCounted, NoMore
<1> QED BY <1>1, AskingCounted, InitialsCounted DEF OnePlaceEach, Sound

LEMMA PlacesStep == Sound /\ OnePlaceEach /\ [BriefingNext]_briefingVars => OnePlaceEach'
<1> SUFFICES ASSUME Sound, OnePlaceEach, [BriefingNext]_briefingVars PROVE OnePlaceEach'
  OBVIOUS
<1>a. /\ worker \in [BriefingWorkers -> Runs] /\ briefings \subseteq 1..lastId /\ lastId \in Nat
      /\ row \in [Ids -> Rows] /\ 1..lastId \subseteq Ids /\ BriefingTypeOK
  BY DEF Sound, BriefingTypeOK, Ids
<1>1. ASSUME UNCHANGED <<worker, briefings, row>> PROVE OnePlaceEach'
  BY <1>1 DEF OnePlaceEach, Initials, Asking
(* What leaves the rows alone and does not reach the loop anew.             *)
<1>2. ASSUME NEW w \in BriefingWorkers,
             \A v \in BriefingWorkers \ {w} : worker'[v] = worker[v],
             \/ worker'[w].at \notin {"looping", "writing"}
             \/ /\ worker[w].at \in {"looping", "writing"}
                /\ worker'[w].todo \subseteq worker[w].todo /\ worker'[w].msg = worker[w].msg
             \/ worker'[w].msg.task # "initial",
             UNCHANGED <<briefings, row>>
      PROVE  OnePlaceEach'
  <2>1. \A u \in Users : Asking(u)' \subseteq Asking(u) /\ Initials(u)' = Initials(u)
    BY <1>2 DEF Asking, Initials
  <2> QED BY <2>1, PlacesKept
<1>c. ASSUME NEW w \in BriefingWorkers, NEW u, Continue(w, u)
      PROVE  /\ worker'[w].at = "looping" /\ worker'[w].msg = worker[w].msg
             /\ worker'[w].todo = worker[w].todo \ {u}
             /\ \A v \in BriefingWorkers \ {w} : worker'[v] = worker[v]
  BY <1>c, <1>a DEF Continue, Step, Runs
<1>d. ASSUME NEW w \in BriefingWorkers, Step(w, NoTask)
      PROVE  worker'[w].at = "free" /\ \A v \in BriefingWorkers \ {w} : worker'[v] = worker[v]
  BY <1>d, <1>a DEF Step, NoTask
<1>3. ASSUME NEW w \in BriefingWorkers, NEW m \in Messages, Take(w, m) PROVE OnePlaceEach'
  <2>1. /\ worker'[w].at = "looping" /\ worker'[w].msg = m
        /\ worker'[w].todo = IF m.task = "initial" /\ \E u \in m.for : HasBriefing(u) THEN {} ELSE m.for
        /\ \A v \in BriefingWorkers \ {w} : worker'[v] = worker[v]
        /\ UNCHANGED <<briefings, row>>
    BY <1>3, <1>a, NoTaskTyped DEF Take, Step, NoTask, briefingTables
  <2>2. CASE m.task # "initial"
    BY <2>1, <2>2, <1>2
  <2>3. CASE m.task = "initial"
    <3> SUFFICES ASSUME NEW u \in Users
                 PROVE  Cardinality(Initials(u)') + Cardinality(Asking(u)')
                          <= Cardinality(BriefingWorkers)
      BY DEF OnePlaceEach
    <3>1. Initials(u)' = Initials(u)
      BY <2>1 DEF Initials
    <3>2. CASE u \in worker'[w].todo
      <4>1. ~HasBriefing(u)
        BY <2>1, <2>3, <3>2
      <4>2. Initials(u) = {}
        BY <4>1 DEF HasBriefing, Initials
      <4>3. Cardinality(Initials(u)') = 0
        BY <3>1, <4>2, FS_EmptySet
      <4> QED BY <4>3, AskingCounted
    <3>3. CASE u \notin worker'[w].todo
      <4>1. Asking(u)' \subseteq Asking(u)
        BY <2>1, <3>3 DEF Asking
      <4>2. Cardinality(Asking(u)') <= Cardinality(Asking(u))
        BY <4>1, AskingCounted, NoMore
      <4> QED BY <3>1, <4>2, <1>a, AskingCounted, InitialsCounted DEF OnePlaceEach
    <3> QED BY <3>2, <3>3
  <2> QED BY <2>2, <2>3
<1>4. ASSUME NEW w \in BriefingWorkers, NEW u \in Users, Generate(w, u) PROVE OnePlaceEach'
  <2>1. /\ worker[w].at = "looping" /\ worker'[w].at = "writing"
        /\ worker'[w].todo = worker[w].todo /\ worker'[w].msg = worker[w].msg
        /\ \A v \in BriefingWorkers \ {w} : worker'[v] = worker[v]
        /\ briefings' = briefings
    BY <1>4, <1>a DEF Generate, Generating, Step, Runs
  <2>2. \A i \in briefings : row'[i] = row[i]
    <3>1. lastId + 1 \notin briefings /\ briefings \subseteq Ids
      BY <1>a
    <3> QED BY <1>4, <1>a, <3>1 DEF Generate
  <2>3. \A v \in Users : Asking(v)' \subseteq Asking(v) /\ Initials(v)' = Initials(v)
    BY <2>1, <2>2 DEF Asking, Initials
  <2> QED BY <2>3, PlacesKept
<1>5. ASSUME NEW w \in BriefingWorkers, CommitBriefing(w) PROVE OnePlaceEach'
  <2> DEFINE user == UserOf(w)
  <2>1. /\ worker[w].at = "writing" /\ worker'[w].at = "looping" /\ worker'[w].msg = worker[w].msg
        /\ worker'[w].todo = worker[w].todo \ {user} /\ row' = row
        /\ \A v \in BriefingWorkers \ {w} : worker'[v] = worker[v]
        /\ briefings' = briefings \cup {worker[w].id}
    BY <1>5, <1>c DEF CommitBriefing
  <2>2. row[worker[w].id].by = worker[w].msg.task /\ user \in worker[w].todo
    BY <2>1 DEF Sound, InHands, UserOf
  <2>3. CASE worker[w].msg.task # "initial"
    <3>1. \A v \in Users : Asking(v)' \subseteq Asking(v) /\ Initials(v)' = Initials(v)
      BY <2>1, <2>2, <2>3 DEF Asking, Initials
    <3> QED BY <3>1, PlacesKept
  <2>4. CASE worker[w].msg.task = "initial"
    <3>1. worker[w].todo = {user}
      BY <2>2, <2>4, InitialForOne
    <3> SUFFICES ASSUME NEW u \in Users
                 PROVE  Cardinality(Initials(u)') + Cardinality(Asking(u)')
                          <= Cardinality(BriefingWorkers)
      BY DEF OnePlaceEach
    <3>2. CASE u = user
      <4>1. w \in Asking(u) /\ Asking(u)' \subseteq Asking(u) \ {w}
        BY <2>1, <2>2, <2>4, <3>2 DEF Asking
      <4>2. Cardinality(Asking(u)') + 1 <= Cardinality(Asking(u))
        BY <4>1, AskingCounted, OneLess
      <4>3. Initials(u)' = Initials(u) \cup {worker[w].id}
        BY <2>1, <2>2, <2>4, <3>2 DEF Initials, UserOf
      <4>4. /\ Cardinality(Initials(u)') <= Cardinality(Initials(u)) + 1
            /\ Cardinality(Initials(u)') \in Nat
        <5>1. IsFiniteSet(Initials(u)) /\ Cardinality(Initials(u)) \in Nat
          BY <1>a, InitialsCounted
        <5>2. Cardinality(Initials(u) \cup {worker[w].id}) =
                IF worker[w].id \in Initials(u) THEN Cardinality(Initials(u))
                                                ELSE Cardinality(Initials(u)) + 1
          BY <5>1, FS_AddElement
        <5> QED BY <4>3, <5>1, <5>2
      <4> QED BY <4>2, <4>4, <1>a, AskingCounted, InitialsCounted DEF OnePlaceEach
    <3>3. CASE u # user
      <4>1. Asking(u)' \subseteq Asking(u) /\ Initials(u)' = Initials(u)
        BY <2>1, <2>2, <3>1, <3>3 DEF Asking, Initials, UserOf
      <4>2. Cardinality(Asking(u)') <= Cardinality(Asking(u))
        BY <4>1, AskingCounted, NoMore
      <4> QED BY <4>1, <4>2, <1>a, AskingCounted, InitialsCounted DEF OnePlaceEach
    <3> QED BY <3>2, <3>3
  <2> QED BY <2>3, <2>4
<1>6. ASSUME NEW w \in BriefingWorkers, GenerationFails(w) PROVE OnePlaceEach'
  <2>1. worker[w].at \in {"looping", "writing"} /\ UNCHANGED <<briefings, row>>
    BY <1>6 DEF GenerationFails, Generating, briefingTables
  <2>2. \/ \E u : Continue(w, u)
        \/ Step(w, NoTask)
    BY <1>6 DEF GenerationFails
  <2>3. CASE \E u : Continue(w, u)
    BY <2>1, <2>3, <1>c, <1>2
  <2>4. CASE Step(w, NoTask)
    BY <2>1, <2>4, <1>d, <1>2
  <2> QED BY <2>2, <2>3, <2>4
<1>7. ASSUME NEW w \in BriefingWorkers, Finish(w) PROVE OnePlaceEach'
  <2>1. /\ worker'[w].at = "unacked" /\ \A v \in BriefingWorkers \ {w} : worker'[v] = worker[v]
        /\ UNCHANGED <<briefings, row>>
    BY <1>7, <1>a DEF Finish, Step, Runs, briefingTables
  <2> QED BY <2>1, <1>2
<1>8. ASSUME NEW w \in BriefingWorkers, DispatchFails(w) \/ Acknowledge(w) \/ Crash(w)
      PROVE  OnePlaceEach'
  BY <1>8, <1>d, <1>2 DEF DispatchFails, Acknowledge, Crash, briefingTables
(* The tasks that mail.                                                     *)
<1>9. ASSUME NEW w \in BriefingWorkers, NEW u \in Users, ReadUnsent(w, u) PROVE OnePlaceEach'
  <2>1. /\ worker[w].at = "looping" /\ worker[w].msg.task = "email" /\ UNCHANGED <<briefings, row>>
    BY <1>9 DEF ReadUnsent, briefingTables
  <2>2. worker'[w].msg = worker[w].msg /\ \A v \in BriefingWorkers \ {w} : worker'[v] = worker[v]
    BY <1>9, <1>a, <1>c DEF ReadUnsent, Step, Runs
  <2> QED BY <2>1, <2>2, <1>2
<1>10. ASSUME NEW w \in BriefingWorkers, SendMail(w) PROVE OnePlaceEach'
  <2>1. /\ worker'[w].at = "marking" /\ \A v \in BriefingWorkers \ {w} : worker'[v] = worker[v]
        /\ UNCHANGED <<briefings, row>>
    BY <1>10, <1>a DEF SendMail, Step, Runs, briefingTables
  <2> QED BY <2>1, <1>2
<1>11. ASSUME NEW w \in BriefingWorkers, MarkSent(w) \/ MailFails(w) PROVE OnePlaceEach'
  <2>1. /\ worker[w].at \in {"sending", "marking"} /\ Continue(w, UserOf(w)) /\ UNCHANGED <<briefings, row>>
    BY <1>11 DEF MarkSent, MailFails, briefingTables
  <2>2. worker[w].msg.task = "email"
    BY <2>1 DEF Sound, InHands
  <2> QED BY <2>1, <2>2, <1>c, <1>2
<1>12. ASSUME (\E type \in Schedules : Beat(type)) \/ (\E u \in Users : RequestInitial(u))
       PROVE  OnePlaceEach'
  BY <1>12, <1>1 DEF Beat, RequestInitial, briefingTables
<1>13. CASE UNCHANGED briefingVars
  BY <1>13, <1>1 DEF briefingVars, briefingTables
<1> QED
  BY <1>3, <1>4, <1>5, <1>6, <1>7, <1>8, <1>9, <1>10, <1>11, <1>12, <1>13 DEF BriefingNext, RunTask

LEMMA PlacesInit == BriefingInit => OnePlaceEach
<1> SUFFICES ASSUME BriefingInit, NEW u \in Users
             PROVE  Cardinality(Initials(u)) + Cardinality(Asking(u)) <= Cardinality(BriefingWorkers)
  BY DEF OnePlaceEach
<1>1. Initials(u) = {} /\ Asking(u) = {}
  BY DEF BriefingInit, Initials, Asking, NoTask
<1> QED BY <1>1, FS_EmptySet, AskingCounted

(* However many batches ask for it and however often it is retried: a user   *)
(* never gets more initial briefings than there are processes.               *)
THEOREM InitialsAreBounded == BriefingSpec => []InitialBounded
<1>1. Sound /\ OnePlaceEach => InitialBounded
  <2> SUFFICES ASSUME Sound, OnePlaceEach, NEW u \in Users
               PROVE  Cardinality(Initials(u)) <= Cardinality(BriefingWorkers)
    BY DEF InitialBounded, Initials
  <2> QED BY AskingCounted, InitialsCounted DEF OnePlaceEach, Sound
<1> QED BY <1>1, SoundInit, SoundStep, PlacesInit, PlacesStep, PTL DEF BriefingSpec
=============================================================================
