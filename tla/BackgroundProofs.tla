--------------------------- MODULE BackgroundProofs ---------------------------
(***************************************************************************)
(* Theorems about the reminders, the snapshots and the erasure of an       *)
(* account, for any number of overlapping runs, captures and exports, and  *)
(* about the module that composes them with the briefing queue: it is a    *)
(* run of each of its components.                                          *)
(***************************************************************************)
EXTENDS MCBackground, BriefingQueueProofs

Before(S, i) == {j \in S : j < i}

(* Numbers of a finite set are told apart by how many come before them.     *)
LEMMA RanksDiffer ==
    ASSUME NEW S \in SUBSET Nat, IsFiniteSet(S)
    PROVE  /\ \A i \in S : /\ Cardinality(Before(S, i)) \in Nat
                           /\ Cardinality(Before(S, i)) < Cardinality(S)
           /\ \A i, j \in S : Cardinality(Before(S, i)) = Cardinality(Before(S, j)) => i = j
<1>1. ASSUME NEW i \in S
      PROVE  /\ IsFiniteSet(Before(S, i)) /\ Cardinality(Before(S, i)) \in Nat
             /\ Cardinality(Before(S, i)) < Cardinality(S)
  <2>1. Before(S, i) \in SUBSET S /\ i \in S /\ i \notin Before(S, i)
    BY DEF Before
  <2>2. /\ IsFiniteSet(Before(S, i)) /\ Cardinality(Before(S, i)) <= Cardinality(S)
        /\ (Cardinality(S) = Cardinality(Before(S, i)) => S = Before(S, i))
    BY <2>1, FS_Subset
  <2>3. Cardinality(Before(S, i)) \in Nat /\ Cardinality(S) \in Nat
    BY <2>2, FS_CardinalityType
  <2> QED BY <2>1, <2>2, <2>3
<1>2. ASSUME NEW i \in S, NEW j \in S, i < j
      PROVE  Cardinality(Before(S, i)) < Cardinality(Before(S, j))
  <2>1. Before(S, i) \in SUBSET Before(S, j) /\ i \in Before(S, j) /\ i \notin Before(S, i)
    <3>1. i \in Nat /\ j \in Nat /\ \A k \in S : k \in Nat
      OBVIOUS
    <3>2. \A k \in S : k < i => k < j
      BY <1>2, <3>1
    <3>3. i \notin Before(S, i)
      BY <3>1 DEF Before
    <3>4. i \in Before(S, j)
      BY <1>2 DEF Before
    <3>5. Before(S, i) \subseteq Before(S, j)
      BY <3>2 DEF Before
    <3> QED BY <3>3, <3>4, <3>5
  <2>2. Cardinality(Before(S, i)) <= Cardinality(Before(S, j))
        /\ (Cardinality(Before(S, j)) = Cardinality(Before(S, i)) => Before(S, j) = Before(S, i))
    BY <1>1, <2>1, FS_Subset
  <2>3. Cardinality(Before(S, i)) \in Nat /\ Cardinality(Before(S, j)) \in Nat
    BY <1>1
  <2> QED BY <2>1, <2>2, <2>3
<1>3. ASSUME NEW i \in S, NEW j \in S, Cardinality(Before(S, i)) = Cardinality(Before(S, j))
      PROVE  i = j
  <2>1. ~(i < j) /\ ~(j < i)
    BY <1>1, <1>2, <1>3
  <2>2. i \in Nat /\ j \in Nat
    OBVIOUS
  <2> QED BY <2>1, <2>2
<1> QED BY <1>1, <1>3

(* A set of numbers sorted into classes of at most n has at most n for each *)
(* class.                                                                   *)
LEMMA ClassesBound ==
    ASSUME NEW S \in SUBSET Nat, IsFiniteSet(S), NEW T, IsFiniteSet(T), NEW f \in [S -> T],
           NEW n \in Nat, \A t \in T : Cardinality({s \in S : f[s] = t}) <= n
    PROVE  Cardinality(S) <= n * Cardinality(T)
<1> DEFINE class(t) == {s \in S : f[s] = t}
           place == [s \in S |-> <<f[s], Cardinality(Before(class(f[s]), s))>>]
           Places == T \X (0..n - 1)
<1>1. ASSUME NEW s \in S
      PROVE  /\ Cardinality(Before(class(f[s]), s)) \in 0..n - 1
             /\ \A r \in S : f[r] = f[s] /\ Cardinality(Before(class(f[s]), r))
                                            = Cardinality(Before(class(f[s]), s)) => r = s
  <2>1. class(f[s]) \in SUBSET Nat /\ IsFiniteSet(class(f[s])) /\ s \in class(f[s])
    BY FS_Subset
  <2>2. Cardinality(class(f[s])) \in Nat /\ Cardinality(class(f[s])) <= n
    BY <2>1, FS_CardinalityType
  <2>3. \A r \in S : f[r] = f[s] => r \in class(f[s])
    OBVIOUS
  <2> HIDE DEF class
  <2>4. /\ Cardinality(Before(class(f[s]), s)) \in Nat
        /\ Cardinality(Before(class(f[s]), s)) < Cardinality(class(f[s]))
        /\ \A r \in class(f[s]) : Cardinality(Before(class(f[s]), r))
                                    = Cardinality(Before(class(f[s]), s)) => r = s
    BY <2>1, RanksDiffer
  <2> QED BY <2>2, <2>3, <2>4
<1> HIDE DEF class
<1>2. place \in [S -> Places]
  BY <1>1
<1>3. ASSUME NEW r \in S, NEW s \in S, place[r] = place[s] PROVE r = s
  <2>1. f[r] = f[s] /\ Cardinality(Before(class(f[r]), r)) = Cardinality(Before(class(f[s]), s))
    BY <1>3
  <2> QED BY <1>1, <2>1
<1>4. place \in Injection(S, Places)
  BY <1>2, <1>3 DEF Injection, IsInjective
<1>5. IsFiniteSet(0..n - 1) /\ Cardinality(0..n - 1) = n
  BY FS_Interval
<1>6. IsFiniteSet(Places) /\ Cardinality(Places) = Cardinality(T) * n
  BY <1>5, FS_Product
<1>7. Cardinality(S) <= Cardinality(Places)
  BY <1>4, <1>6, FS_Injection
<1>8. Cardinality(T) * n = n * Cardinality(T)
  BY FS_CardinalityType
<1> QED BY <1>6, <1>7, <1>8

-----------------------------------------------------------------------------
(* The reminders.                                                           *)

Claims(t) == {r \in untouched : topicOf[r] = t}
Planning(t) == {e \in Engines : engine[e].at = "planned" /\ t \in engine[e].plan}

\* A reminder nobody has touched is pending, and so is a row not yet given out.
StatusesKept ==
    /\ \A r \in untouched : topicStatus[r] = "pending"
    /\ \A r \in ReminderIds : r > lastReminder => topicStatus[r] = "pending"

\* Every untouched reminder of a topic, and every run that has planned another one,
\* stands for an engine of its own.
Promised == \A t \in Topics : Cardinality(Claims(t)) + Cardinality(Planning(t)) <= Cardinality(Engines)

\* There is an id for every topic and engine, whatever the user has touched.
RoomLeft == lastReminder + Cardinality(Engines) * Cardinality(Topics) <= MaxReminders + Cardinality(untouched)

ReminderInv == ReminderTypeOK /\ StatusesKept /\ Promised /\ RoomLeft

LEMMA ReminderSizes ==
    ASSUME ReminderTypeOK
    PROVE  /\ IsFiniteSet(Engines) /\ Cardinality(Engines) \in Nat
           /\ IsFiniteSet(Topics) /\ Cardinality(Topics) \in Nat
           /\ MaxReminders \in Nat /\ lastReminder \in Nat
           /\ Cardinality(Engines) * Cardinality(Topics) \in Nat
           /\ untouched \in SUBSET Nat /\ IsFiniteSet(untouched) /\ Cardinality(untouched) \in Nat
           /\ \A t : /\ IsFiniteSet(Claims(t)) /\ Cardinality(Claims(t)) \in Nat
                     /\ IsFiniteSet(Planning(t)) /\ Cardinality(Planning(t)) \in Nat
                     /\ Cardinality(Planning(t)) <= Cardinality(Engines)
<1>1. /\ IsFiniteSet(Engines) /\ IsFiniteSet(Topics) /\ MaxReminders \in Nat
      /\ lastReminder \in Nat /\ untouched \in SUBSET (1..lastReminder)
  BY ReminderAssumption DEF ReminderTypeOK
<1>2. Cardinality(Engines) \in Nat /\ Cardinality(Topics) \in Nat
  BY <1>1, FS_CardinalityType
<1>3. IsFiniteSet(untouched) /\ Cardinality(untouched) \in Nat
  <2>1. IsFiniteSet(1..lastReminder)
    BY <1>1, FS_Interval
  <2> QED BY <1>1, <2>1, FS_Subset, FS_CardinalityType
<1>4. untouched \in SUBSET Nat
  <2>1. 1..lastReminder \subseteq Nat
    BY <1>1
  <2> QED BY <1>1, <2>1
<1>5. ASSUME NEW t
      PROVE  /\ IsFiniteSet(Claims(t)) /\ Cardinality(Claims(t)) \in Nat
             /\ IsFiniteSet(Planning(t)) /\ Cardinality(Planning(t)) \in Nat
             /\ Cardinality(Planning(t)) <= Cardinality(Engines)
  <2>1. Claims(t) \in SUBSET untouched /\ Planning(t) \in SUBSET Engines
    BY DEF Claims, Planning
  <2> QED BY <1>1, <1>3, <2>1, FS_Subset, FS_CardinalityType
<1>6. Cardinality(Engines) * Cardinality(Topics) \in Nat
  BY <1>2
<1> QED BY <1>1, <1>2, <1>3, <1>4, <1>5, <1>6

LEMMA ReminderInvStart == ReminderInit => ReminderInv
<1> SUFFICES ASSUME ReminderInit PROVE ReminderInv
  OBVIOUS
<1>1. IdleEngine \in [at : {"idle", "selected", "planned"}, overdue : SUBSET FollowUps,
                      stale : SUBSET Topics, plan : SUBSET Topics] /\ IdleEngine.at = "idle"
  BY DEF IdleEngine
<1>2. ReminderTypeOK
  <2>1. (CHOOSE t \in Topics : TRUE) \in Topics
    BY ReminderAssumption
  <2>2. lastReminder \in 0..MaxReminders /\ engineFailures \in 0..MaxEngineFailures
    BY ReminderAssumption DEF ReminderInit
  <2>3. topicOf \in [ReminderIds -> Topics] /\ topicStatus \in [ReminderIds -> Statuses]
    BY <2>1 DEF ReminderInit, Statuses
  <2>4. /\ followUp \in [FollowUps -> [status : Statuses, due : BOOLEAN, high : BOOLEAN]]
        /\ untouched \subseteq 1..lastReminder /\ inactive \subseteq Topics
    BY DEF ReminderInit, Statuses
  <2>5. engine \in [Engines -> [at : {"idle", "selected", "planned"}, overdue : SUBSET FollowUps,
                                stale : SUBSET Topics, plan : SUBSET Topics]]
    BY <1>1 DEF ReminderInit
  <2> QED BY <2>2, <2>3, <2>4, <2>5 DEF ReminderTypeOK
<1>3. StatusesKept
  BY DEF ReminderInit, StatusesKept
<1>4. ASSUME NEW t \in Topics PROVE Claims(t) = {} /\ Planning(t) = {}
  BY <1>1 DEF ReminderInit, Claims, Planning
<1>5. Promised
  BY <1>2, <1>4, ReminderSizes, FS_EmptySet DEF Promised
<1>6. RoomLeft
  <2>1. Cardinality(untouched) = 0 /\ lastReminder = 0
    BY FS_EmptySet DEF ReminderInit
  <2> QED BY <1>2, <2>1, ReminderSizes, ReminderAssumption DEF RoomLeft
<1> QED BY <1>2, <1>3, <1>5, <1>6 DEF ReminderInv

LEMMA ReminderTyped ==
    ASSUME ReminderTypeOK
    PROVE  /\ lastReminder \in Nat /\ untouched \subseteq 1..lastReminder
           /\ IdleEngine \in [at : {"idle", "selected", "planned"}, overdue : SUBSET FollowUps,
                              stale : SUBSET Topics, plan : SUBSET Topics]
           /\ IdleEngine.at = "idle"
           /\ \A e \in Engines : engine[e].plan \subseteq Topics /\ engine[e].stale \subseteq Topics
BY ReminderAssumption DEF ReminderTypeOK, IdleEngine

\* A step that keeps the rows and plans nothing new.
LEMMA QuietStep ==
    ASSUME ReminderInv, UNCHANGED topicRows, \A t \in Topics : Planning(t)' \subseteq Planning(t)
    PROVE  StatusesKept' /\ Promised' /\ RoomLeft'
<1> USE DEF ReminderInv
<1>1. /\ lastReminder' = lastReminder /\ topicOf' = topicOf /\ topicStatus' = topicStatus
      /\ untouched' = untouched
  BY DEF topicRows
<1>2. ASSUME NEW t \in Topics
      PROVE  Cardinality(Claims(t)') + Cardinality(Planning(t)') <= Cardinality(Engines)
  <2>1. Claims(t)' = Claims(t)
    BY <1>1 DEF Claims
  <2>2. Cardinality(Planning(t)') <= Cardinality(Planning(t)) /\ Cardinality(Planning(t)') \in Nat
    BY ReminderSizes, FS_Subset, FS_CardinalityType
  <2>3. Cardinality(Claims(t)) + Cardinality(Planning(t)) <= Cardinality(Engines)
    BY DEF Promised
  <2> QED BY <2>1, <2>2, <2>3, ReminderSizes
<1> QED BY <1>1, <1>2 DEF StatusesKept, Promised, RoomLeft

LEMMA PatchStep ==
    ASSUME ReminderInv, NEW r \in ReminderIds, NEW s \in Statuses, PatchTopic(r, s)
    PROVE  ReminderInv'
<1> USE DEF ReminderInv
<1>1. /\ r \in 1..lastReminder /\ RoomForMore
      /\ topicStatus' = [topicStatus EXCEPT ![r] = s] /\ untouched' = untouched \ {r}
      /\ UNCHANGED <<inactive, lastReminder, topicOf, followUp, engine, engineFailures>>
  BY DEF PatchTopic, Existing
<1>2. ReminderTypeOK'
  BY <1>1 DEF ReminderTypeOK
<1>3. StatusesKept'
  BY <1>1, ReminderTyped DEF StatusesKept, ReminderTypeOK
<1>4. ASSUME NEW t \in Topics
      PROVE  Cardinality(Claims(t)') + Cardinality(Planning(t)') <= Cardinality(Engines)
  <2>1. Claims(t)' \in SUBSET Claims(t) /\ Planning(t)' = Planning(t)
    BY <1>1 DEF Claims, Planning
  <2>2. Cardinality(Claims(t)') <= Cardinality(Claims(t)) /\ Cardinality(Claims(t)') \in Nat
    BY <2>1, ReminderSizes, FS_Subset, FS_CardinalityType
  <2>3. Cardinality(Claims(t)) + Cardinality(Planning(t)) <= Cardinality(Engines)
    BY DEF Promised
  <2> QED BY <2>1, <2>2, <2>3, ReminderSizes
<1>5. RoomLeft'
  <2>1. lastReminder' = lastReminder /\ Cardinality(untouched') \in Nat
    BY <1>1, ReminderSizes, FS_RemoveElement, FS_CardinalityType
  <2>2. lastReminder + Cardinality(Engines) * Cardinality(Topics) <= MaxReminders
    BY <1>1 DEF RoomForMore
  <2> DEFINE all == Cardinality(Engines) * Cardinality(Topics)
  <2>3. all \in Nat /\ MaxReminders \in Nat /\ lastReminder \in Nat
    BY ReminderSizes
  <2> HIDE DEF all
  <2>4. lastReminder' + all <= MaxReminders + Cardinality(untouched')
    BY <2>1, <2>2, <2>3 DEF all
  <2> QED BY <2>4 DEF RoomLeft, all
<1> QED BY <1>2, <1>3, <1>4, <1>5 DEF Promised

LEMMA PlanStep ==
    ASSUME ReminderInv, NEW e \in Engines, SelectExisting(e)
    PROVE  ReminderInv'
<1> USE DEF ReminderInv
<1> DEFINE plan == {t \in engine[e].stale : PendingFor(t) = {}}
<1>1. /\ engine[e].at = "selected"
      /\ engine' = [engine EXCEPT ![e].at = "planned", ![e].plan = plan]
      /\ UNCHANGED <<inactive, topicRows, followUp, engineFailures>>
  BY DEF SelectExisting
<1>2. plan \subseteq Topics /\ \A t \in plan : Claims(t) = {}
  <2>1. ASSUME NEW r \in untouched, NEW t, topicOf[r] = t PROVE r \in PendingFor(t)
    BY <2>1, ReminderTyped DEF PendingFor, Existing, StatusesKept
  <2> QED BY <2>1, ReminderTyped DEF Claims
<1> HIDE DEF plan
<1>3. /\ lastReminder' = lastReminder /\ topicOf' = topicOf /\ topicStatus' = topicStatus
      /\ untouched' = untouched /\ inactive' = inactive /\ followUp' = followUp
      /\ engineFailures' = engineFailures
  BY <1>1 DEF topicRows
<1>4. ReminderTypeOK'
  <2>1. [engine[e] EXCEPT !.at = "planned", !.plan = plan]
          \in [at : {"idle", "selected", "planned"}, overdue : SUBSET FollowUps,
               stale : SUBSET Topics, plan : SUBSET Topics]
    BY <1>2 DEF ReminderTypeOK
  <2>2. engine' = [engine EXCEPT ![e] = [engine[e] EXCEPT !.at = "planned", !.plan = plan]]
    BY <1>1 DEF ReminderTypeOK
  <2>3. engine' \in [Engines -> [at : {"idle", "selected", "planned"}, overdue : SUBSET FollowUps,
                                 stale : SUBSET Topics, plan : SUBSET Topics]]
    BY <2>1, <2>2 DEF ReminderTypeOK
  <2> QED BY <1>3, <2>3 DEF ReminderTypeOK
<1>5. /\ engine'[e].at = "planned" /\ engine'[e].plan = plan
      /\ \A d \in Engines \ {e} : engine'[d] = engine[d]
  BY <1>1 DEF ReminderTypeOK
<1>6. ASSUME NEW t \in Topics
      PROVE  Cardinality(Claims(t)') + Cardinality(Planning(t)') <= Cardinality(Engines)
  <2>1. Claims(t)' = Claims(t)
    BY <1>3 DEF Claims
  <2>2. CASE t \in plan
    <3>1. Planning(t)' \in SUBSET Engines
      BY DEF Planning
    <3>2. Cardinality(Planning(t)') <= Cardinality(Engines) /\ Cardinality(Planning(t)') \in Nat
      BY <3>1, ReminderSizes, FS_Subset, FS_CardinalityType
    <3>3. Cardinality(Claims(t)') = 0
      BY <1>2, <2>1, <2>2, FS_EmptySet
    <3> QED BY <3>2, <3>3, ReminderSizes
  <2>3. CASE t \notin plan
    <3>1. Planning(t)' = Planning(t)
      BY <1>1, <1>5, <2>3 DEF Planning
    <3> QED BY <2>1, <3>1 DEF Promised
  <2> QED BY <2>2, <2>3
<1> QED BY <1>3, <1>4, <1>6 DEF StatusesKept, Promised, RoomLeft

LEMMA CommitRemindersStep ==
    ASSUME ReminderInv, NEW e \in Engines, CommitReminders(e)
    PROVE  ReminderInv'
<1> USE DEF ReminderInv
<1> DEFINE plan == engine[e].plan
           n == Cardinality(plan)
<1>1. PICK id \in Numbered(plan, lastReminder) :
        /\ topicOf' = [r \in ReminderIds |-> IF \E t \in plan : id[t] = r
                                             THEN CHOOSE t \in plan : id[t] = r ELSE topicOf[r]]
        /\ untouched' = untouched \cup {id[t] : t \in plan}
  BY DEF CommitReminders
<1>2. /\ engine[e].at = "planned" /\ lastReminder' = lastReminder + n
      /\ engine' = [engine EXCEPT ![e] = IdleEngine]
      /\ followUp' = [f \in FollowUps |-> IF f \in engine[e].overdue
                                          THEN [followUp[f] EXCEPT !.high = TRUE] ELSE followUp[f]]
      /\ UNCHANGED <<inactive, topicStatus, engineFailures>>
  BY DEF CommitReminders
<1>3. /\ engine'[e].at = "idle" /\ \A d \in Engines \ {e} : engine'[d] = engine[d]
  BY <1>2, ReminderTyped DEF ReminderTypeOK
<1>4. plan \in SUBSET Topics /\ IsFiniteSet(plan) /\ n \in Nat
  BY ReminderSizes, ReminderTyped, FS_Subset, FS_CardinalityType
<1>5. /\ id \in [plan -> lastReminder + 1 .. lastReminder + n]
      /\ \A s, t \in plan : id[s] = id[t] => s = t
  BY DEF Numbered
<1> DEFINE new == {id[t] : t \in plan}
<1> HIDE DEF n
<1>6. lastReminder \in Nat /\ untouched \in SUBSET (1..lastReminder)
  BY ReminderTyped
<1>7. \A t \in plan : id[t] \in Nat /\ id[t] > lastReminder /\ id[t] <= lastReminder + n
  BY <1>4, <1>5, <1>6
<1>8. IsFiniteSet(new) /\ Cardinality(new) = n
  <2> DEFINE f == [t \in plan |-> id[t]]
  <2>1. f \in Bijection(plan, new)
    BY <1>5 DEF Bijection, Injection, Surjection, IsInjective
  <2>2. ExistsBijection(plan, new)
    BY <2>1 DEF ExistsBijection
  <2> QED BY <1>4, <2>2, FS_Bijection DEF n
<1>9. new \cap untouched = {} /\ \A r \in new : r > lastReminder
  BY <1>6, <1>7
<1>10. /\ IsFiniteSet(untouched') /\ Cardinality(untouched') = Cardinality(untouched) + n
       /\ untouched' \in SUBSET Nat
  <2>1. /\ IsFiniteSet(untouched \cup new)
        /\ Cardinality(untouched \cup new) = Cardinality(untouched) + n
    <3>1. untouched \cap new = {} /\ IsFiniteSet(untouched) /\ Cardinality(untouched) \in Nat
      BY <1>9, ReminderSizes
    <3>2. /\ IsFiniteSet(untouched \cup new)
          /\ Cardinality(untouched \cup new)
               = Cardinality(untouched) + Cardinality(new) - Cardinality(untouched \cap new)
      BY <1>8, <3>1, FS_Union
    <3>3. Cardinality(untouched \cap new) = 0
      BY <3>1, FS_EmptySet
    <3> QED BY <1>4, <1>8, <3>1, <3>2, <3>3
  <2>2. new \subseteq Nat
    BY <1>7
  <2> QED BY <1>1, <1>4, <2>1, <2>2, ReminderSizes
\* The topics of the rows, those past the bound included.
<1> DEFINE topic == [r \in untouched' |-> IF r \in new THEN CHOOSE t \in plan : id[t] = r ELSE topicOf[r]]
           class(t) == {r \in untouched' : topic[r] = t}
<1>11. \A t \in plan : id[t] \in new /\ topic[id[t]] = t
  <2>1. ASSUME NEW t \in plan PROVE (CHOOSE s \in plan : id[s] = id[t]) = t
    BY <1>5
  <2> QED BY <1>1, <2>1
<1>12. \A r \in untouched : r \in ReminderIds /\ topic[r] = topicOf[r] /\ r \notin new
  <2>1. untouched \subseteq ReminderIds
    <3>1. lastReminder <= MaxReminders /\ MaxReminders \in Nat
      BY ReminderSizes DEF ReminderTypeOK
    <3>2. 1..lastReminder \subseteq 1..MaxReminders
      BY <1>6, <3>1
    <3> QED BY <1>6, <3>2 DEF ReminderIds
  <2> QED BY <1>1, <1>9, <2>1
<1>13. topic \in [untouched' -> Topics]
  <2>1. \A r \in new : topic[r] \in Topics
    BY <1>4, <1>11
  <2>2. \A r \in untouched : topic[r] \in Topics
    BY <1>12 DEF ReminderTypeOK
  <2> QED BY <1>1, <2>1, <2>2
<1> HIDE DEF topic
<1>14. ASSUME NEW t \in Topics
       PROVE  /\ IsFiniteSet(class(t))
              /\ Cardinality(class(t)) + Cardinality(Planning(t)') <= Cardinality(Engines)
              /\ Cardinality(Planning(t)') \in Nat
  <2>1. Cardinality(Claims(t)) + Cardinality(Planning(t)) <= Cardinality(Engines)
    BY DEF Promised
  <2>2. CASE t \in plan
    <3>1. class(t) = Claims(t) \cup {id[t]} /\ id[t] \notin Claims(t)
      BY <1>1, <1>9, <1>11, <1>12, <2>2 DEF Claims
    <3>2. Planning(t)' = Planning(t) \ {e} /\ e \in Planning(t)
      BY <1>2, <1>3, <2>2 DEF Planning
    <3>3. IsFiniteSet(class(t)) /\ Cardinality(class(t)) = Cardinality(Claims(t)) + 1
      <4> HIDE DEF class
      <4>1. IsFiniteSet(Claims(t))
        BY ReminderSizes
      <4> QED BY <3>1, <4>1, FS_AddElement
    <3>4. /\ IsFiniteSet(Planning(t)') /\ Cardinality(Planning(t)') = Cardinality(Planning(t)) - 1
      BY <3>2, ReminderSizes, FS_RemoveElement
    <3>5. Cardinality(Planning(t)') \in Nat
      BY <3>4, FS_CardinalityType
    <3> HIDE DEF class
    <3> QED BY <2>1, <3>3, <3>4, <3>5, ReminderSizes
  <2>3. CASE t \notin plan
    <3>1. class(t) = Claims(t)
      BY <1>1, <1>11, <1>12, <2>3 DEF Claims
    <3>2. Planning(t)' = Planning(t)
      BY <1>2, <1>3, <2>3 DEF Planning
    <3> QED BY <2>1, <3>1, <3>2, ReminderSizes
  <2> QED BY <2>2, <2>3
<1>15. Cardinality(untouched') <= Cardinality(Engines) * Cardinality(Topics)
  <2>1. \A t \in Topics : Cardinality(class(t)) <= Cardinality(Engines)
    <3>1. \A t \in Topics : Cardinality(class(t)) \in Nat
      BY <1>14, FS_CardinalityType
    <3> HIDE DEF class
    <3> QED BY <1>14, <3>1, ReminderSizes
  <2> QED BY <1>10, <1>13, <2>1, ReminderSizes, ClassesBound
<1> DEFINE all == Cardinality(Engines) * Cardinality(Topics)
<1>16. all \in Nat /\ MaxReminders \in Nat /\ Cardinality(untouched) \in Nat
  BY ReminderSizes
<1>17. lastReminder' \in Nat /\ lastReminder' <= MaxReminders /\ RoomLeft'
  <2>1. lastReminder + all <= MaxReminders + Cardinality(untouched)
    BY DEF RoomLeft
  <2>2. Cardinality(untouched') <= all
    BY <1>15
  <2> HIDE DEF all
  <2>3. lastReminder' \in Nat /\ lastReminder' <= MaxReminders
    BY <1>2, <1>4, <1>6, <1>10, <1>16, <2>1, <2>2
  <2>4. lastReminder' + all <= MaxReminders + Cardinality(untouched')
    BY <1>2, <1>4, <1>6, <1>10, <1>16, <2>1
  <2> QED BY <2>3, <2>4 DEF RoomLeft, all
<1>18. untouched' \subseteq 1..lastReminder'
  <2>1. \A r \in untouched : r \in Nat /\ 1 <= r /\ r <= lastReminder'
    BY <1>2, <1>4, <1>6
  <2>2. \A r \in new : r \in Nat /\ 1 <= r /\ r <= lastReminder'
    BY <1>2, <1>4, <1>6, <1>7
  <2> QED BY <1>1, <1>17, <2>1, <2>2
<1>19. untouched' \subseteq ReminderIds
  BY <1>17, <1>18, <1>16 DEF ReminderIds
<1>20. \A r \in untouched' : topicOf'[r] = topic[r]
  BY <1>1, <1>19 DEF topic
<1>21. topicOf' \in [ReminderIds -> Topics]
  <2>1. ASSUME NEW r \in ReminderIds PROVE topicOf'[r] \in Topics
    <3>1. CASE \E t \in plan : id[t] = r
      <4>1. (CHOOSE t \in plan : id[t] = r) \in plan
        BY <3>1
      <4> QED BY <1>1, <1>4, <3>1, <4>1
    <3>2. CASE ~\E t \in plan : id[t] = r
      BY <1>1, <3>2 DEF ReminderTypeOK
    <3> QED BY <3>1, <3>2
  <2> QED BY <1>1, <2>1
<1>22. ReminderTypeOK'
  <2>1. followUp' \in [FollowUps -> [status : Statuses, due : BOOLEAN, high : BOOLEAN]]
    BY <1>2 DEF ReminderTypeOK
  <2>2. engine' \in [Engines -> [at : {"idle", "selected", "planned"}, overdue : SUBSET FollowUps,
                                 stale : SUBSET Topics, plan : SUBSET Topics]]
    BY <1>2, ReminderTyped DEF ReminderTypeOK
  <2>3. lastReminder' \in 0..MaxReminders
    BY <1>16, <1>17
  <2> QED BY <1>2, <1>18, <1>21, <2>1, <2>2, <2>3 DEF ReminderTypeOK
<1>23. StatusesKept'
  <2>1. \A r \in untouched' : topicStatus[r] = "pending"
    BY <1>1, <1>9, <1>19 DEF StatusesKept
  <2>2. \A r \in ReminderIds : r > lastReminder' => topicStatus[r] = "pending"
    <3>1. \A r \in ReminderIds : r \in Nat
      BY <1>16 DEF ReminderIds
    <3>2. \A r \in ReminderIds : r > lastReminder' => r > lastReminder
      BY <1>2, <1>4, <1>6, <3>1
    <3> QED BY <3>2 DEF StatusesKept
  <2> QED BY <1>2, <2>1, <2>2 DEF StatusesKept
<1>24. Promised'
  <2>1. ASSUME NEW t \in Topics PROVE Claims(t)' = class(t)
    BY <1>20 DEF Claims
  <2> QED BY <1>14, <2>1 DEF Promised
<1> QED BY <1>17, <1>22, <1>23, <1>24

LEMMA ReminderInvStep == ReminderInv /\ [ReminderNext]_reminderVars => ReminderInv'
<1> SUFFICES ASSUME ReminderInv, [ReminderNext]_reminderVars PROVE ReminderInv'
  OBVIOUS
<1>1. ReminderTypeOK
  BY DEF ReminderInv
<1>2. ASSUME UNCHANGED <<topicRows, engine>>, ReminderTypeOK'
      PROVE  ReminderInv'
  <2>1. \A t \in Topics : Planning(t)' = Planning(t)
    BY <1>2 DEF Planning
  <2> QED BY <1>2, <2>1, QuietStep DEF ReminderInv
<1>3. ASSUME NEW e \in Engines, UNCHANGED topicRows, ReminderTypeOK', engine'[e].at # "planned",
             \A d \in Engines \ {e} : engine'[d] = engine[d]
      PROVE  ReminderInv'
  <2>1. \A t \in Topics : Planning(t)' \subseteq Planning(t)
    BY <1>3 DEF Planning
  <2> QED BY <1>3, <2>1, QuietStep DEF ReminderInv
<1>4. ASSUME NEW t \in Topics, TopicChanges(t) PROVE ReminderInv'
  <2>1. ReminderTypeOK'
    BY <1>1, <1>4 DEF TopicChanges, ReminderTypeOK, topicRows
  <2> QED BY <1>2, <1>4, <2>1 DEF TopicChanges
<1>5. ASSUME NEW f \in FollowUps, FallsDue(f) PROVE ReminderInv'
  <2>1. ReminderTypeOK'
    BY <1>1, <1>5 DEF FallsDue, ReminderTypeOK, topicRows
  <2> QED BY <1>2, <1>5, <2>1 DEF FallsDue
<1>6. ASSUME NEW f \in FollowUps, NEW s \in Statuses, PatchFollowUp(f, s) PROVE ReminderInv'
  <2>1. ReminderTypeOK'
    BY <1>1, <1>6 DEF PatchFollowUp, ReminderTypeOK, topicRows
  <2> QED BY <1>2, <1>6, <2>1 DEF PatchFollowUp
<1>7. ASSUME NEW r \in ReminderIds, NEW s \in Statuses, PatchTopic(r, s) PROVE ReminderInv'
  BY <1>7, PatchStep
<1>8. ASSUME NEW e \in Engines, SelectDue(e) PROVE ReminderInv'
  <2> DEFINE late == {f \in FollowUps : Overdue(f)}
             run == [IdleEngine EXCEPT !.at = "selected", !.overdue = late, !.stale = inactive]
  <2>1. /\ engine' = [engine EXCEPT ![e] = run]
        /\ UNCHANGED <<inactive, topicRows, followUp, engineFailures>>
    BY <1>8 DEF SelectDue
  <2>2. late \in SUBSET FollowUps
    OBVIOUS
  <2> HIDE DEF late
  <2>3. run \in [at : {"idle", "selected", "planned"}, overdue : SUBSET FollowUps,
                 stale : SUBSET Topics, plan : SUBSET Topics] /\ run.at = "selected"
    BY <1>1, <2>2, ReminderTyped DEF ReminderTypeOK
  <2> HIDE DEF run
  <2>4. ReminderTypeOK'
    BY <1>1, <2>1, <2>3 DEF ReminderTypeOK, topicRows
  <2>5. engine'[e].at # "planned" /\ \A d \in Engines \ {e} : engine'[d] = engine[d]
    BY <1>1, <2>1, <2>3 DEF ReminderTypeOK
  <2> QED BY <1>3, <2>1, <2>4, <2>5
<1>9. ASSUME NEW e \in Engines, SelectExisting(e) PROVE ReminderInv'
  BY <1>9, PlanStep
<1>10. ASSUME NEW e \in Engines, CommitReminders(e) PROVE ReminderInv'
  BY <1>10, CommitRemindersStep
<1>11. ASSUME NEW e \in Engines, EngineFails(e) PROVE ReminderInv'
  <2>1. /\ engine' = [engine EXCEPT ![e] = IdleEngine] /\ engineFailures' \in 0..MaxEngineFailures
        /\ UNCHANGED <<inactive, topicRows, followUp>>
    <3>1. engineFailures \in 0..MaxEngineFailures /\ MaxEngineFailures \in Nat
      BY <1>1, ReminderAssumption DEF ReminderTypeOK
    <3> QED BY <1>11, <3>1 DEF EngineFails
  <2>2. ReminderTypeOK'
    BY <1>1, <2>1, ReminderTyped DEF ReminderTypeOK, topicRows
  <2>3. engine'[e].at # "planned" /\ \A d \in Engines \ {e} : engine'[d] = engine[d]
    BY <1>1, <2>1, ReminderTyped DEF ReminderTypeOK
  <2> QED BY <1>3, <2>1, <2>2, <2>3
<1>12. CASE UNCHANGED reminderVars
  <2>1. ReminderTypeOK'
    BY <1>1, <1>12 DEF reminderVars, topicRows, ReminderTypeOK
  <2> QED BY <1>2, <1>12, <2>1 DEF reminderVars
<1> QED BY <1>4, <1>5, <1>6, <1>7, <1>8, <1>9, <1>10, <1>11, <1>12 DEF ReminderNext, RunEngine

(* Overlapping runs remind of a topic at most once each (PendingBounded).   *)
THEOREM PendingIsBounded == ReminderSpec => []PendingBounded
<1>1. ReminderInv => PendingBounded
  <2> SUFFICES ASSUME ReminderInv PROVE PendingBounded
    OBVIOUS
  <2>1. ReminderTypeOK /\ Promised
    BY DEF ReminderInv
  <2>2. \A t \in Topics : Cardinality(Claims(t)) <= Cardinality(Engines)
    BY <2>1, ReminderSizes DEF Promised
  <2> QED BY <2>2 DEF PendingBounded, Claims
<1> QED BY <1>1, ReminderInvStart, ReminderInvStep, PTL DEF ReminderSpec

-----------------------------------------------------------------------------
(* The oldest n rows of S are n rows, or all of them.                       *)
LEMMA OldestCounted ==
    ASSUME NEW S \in SUBSET Nat, IsFiniteSet(S), NEW n \in Nat
    PROVE  /\ Oldest(S, n) \subseteq S /\ IsFiniteSet(Oldest(S, n))
           /\ Cardinality(Oldest(S, n)) = IF n <= Cardinality(S) THEN n ELSE Cardinality(S)
<1> DEFINE size == Cardinality(S)
           rank == [i \in S |-> Cardinality(Before(S, i))]
           few == IF n <= size THEN n ELSE size
           old == Oldest(S, n)
<1>1. size \in Nat
  BY FS_CardinalityType
<1>2. \A i \in S : rank[i] = Cardinality(Before(S, i)) /\ rank[i] \in Nat /\ rank[i] < size
  BY RanksDiffer
<1>3. \A i, j \in S : rank[i] = rank[j] => i = j
  BY RanksDiffer
<1>4. rank \in [S -> 0..size - 1]
  <2>1. ASSUME NEW i \in S PROVE Cardinality(Before(S, i)) \in 0..size - 1
    <3>1. Cardinality(Before(S, i)) \in Nat /\ Cardinality(Before(S, i)) < size
      BY <1>2
    <3> HIDE DEF size
    <3> QED BY <1>1, <3>1
  <2> QED BY <2>1
<1>5. old = {i \in S : rank[i] < n}
  BY <1>2 DEF Oldest, Before
<1> HIDE DEF rank, size, old
<1>6. rank \in Injection(S, 0..size - 1)
  BY <1>3, <1>4 DEF Injection, IsInjective
<1>7. IsFiniteSet(0..size - 1) /\ Cardinality(0..size - 1) = size
  BY <1>1, FS_Interval
<1>8. rank \in Surjection(S, 0..size - 1)
  <2>1. Cardinality(S) = Cardinality(0..size - 1)
    BY <1>7 DEF size
  <2> QED BY <1>6, <1>7, <2>1, FS_Injection
<1>9. old \subseteq S /\ IsFiniteSet(old)
  BY <1>5, FS_Subset
<1> DEFINE r == [i \in old |-> rank[i]]
<1>10. few \in Nat /\ few <= size /\ few <= n /\ (few = size \/ few = n)
  BY <1>1
<1> HIDE DEF few
<1>11. r \in Bijection(old, 0..few - 1)
  <2>1. r \in [old -> 0..few - 1]
    <3>1. \A i \in old : rank[i] \in Nat /\ rank[i] < few
      BY <1>1, <1>2, <1>5, <1>10
    <3> QED BY <1>10, <3>1
  <2>2. r \in Injection(old, 0..few - 1)
    BY <1>3, <1>9, <2>1 DEF Injection, IsInjective
  <2>3. ASSUME NEW k \in 0..few - 1 PROVE \E i \in old : r[i] = k
    <3>1. k \in 0..size - 1 /\ k < n
      BY <1>1, <1>10
    <3>2. PICK i \in S : rank[i] = k
      BY <1>8, <3>1 DEF Surjection
    <3>3. i \in old
      BY <1>5, <3>1, <3>2
    <3> QED BY <3>2, <3>3
  <2> QED BY <2>1, <2>2, <2>3 DEF Bijection, Surjection
<1>12. Cardinality(0..few - 1) = few
  BY <1>10, FS_Interval
<1>13. Cardinality(old) = few
  <2>1. ExistsBijection(old, 0..few - 1)
    BY <1>11 DEF ExistsBijection
  <2> QED BY <1>9, <1>12, <2>1, FS_Bijection
<1> QED BY <1>9, <1>13 DEF few, old, size

-----------------------------------------------------------------------------
(* The window of snapshots.                                                 *)

NumCaptures == Cardinality(Captures)

\* A capture that has counted acts on what it saw, whatever is committed since.
Busy(c) == capture[c].at \in {"counted", "selected"}

\* The rows that would be left if the capture committed now.
Remaining(c) == IF capture[c].at = "selected" THEN Visible(c) \ capture[c].oldest ELSE Visible(c)
Left(c) == Cardinality(Remaining(c)) - IF capture[c].at = "selected" THEN 0 ELSE Excess(c)

RowsFresh ==
    \A c \in Captures : capture[c].at # "idle" =>
        /\ capture[c].id \in 1..lastSnapshot /\ capture[c].id \notin snapshots
        /\ capture[c].oldest \subseteq 1..lastSnapshot
        /\ \A d \in Captures \ {c} : capture[d].at # "idle" =>
             capture[c].id # capture[d].id /\ capture[c].id \notin capture[d].oldest

CountsBounded ==
    \A c \in Captures :
        /\ Busy(c) => capture[c].total <= WindowSize + NumCaptures
        /\ capture[c].at = "selected" => Cardinality(capture[c].oldest) <= Excess(c)

\* F[c] holds the captures that have committed since c counted.  Each of them puts
\* what c leaves off by one row upwards, or by one row less than there are captures
\* downwards, and only once: one that commits again has counted after its own row.
Tracks(F) ==
    /\ \A c \in Captures : Busy(c) =>
         /\ c \notin F[c]
         /\ Left(c) <= WindowSize + Cardinality(F[c])
         /\ ~userDeleted /\ Excess(c) > 0 =>
              WindowSize <= Left(c) + Cardinality(F[c]) * (NumCaptures - 1)
    /\ \A c, d \in Captures : Busy(c) /\ Busy(d) /\ d \in F[c] => F[d] \subseteq F[c]

SnapshotSane == SnapshotTypeOK /\ RowsFresh /\ CountsBounded /\ WindowBounded

SnapshotInv == SnapshotSane /\ \E F \in [Captures -> SUBSET Captures] : Tracks(F)

LEMMA SnapshotSizes ==
    ASSUME SnapshotTypeOK, NEW c \in Captures
    PROVE  /\ IsFiniteSet(snapshots) /\ Cardinality(snapshots) \in Nat
           /\ snapshots \subseteq Nat
           /\ NumCaptures \in Nat \ {0} /\ WindowSize \in Nat \ {0}
           /\ capture[c].id \in Nat /\ capture[c].total \in Nat
           /\ IsFiniteSet(Visible(c)) /\ Cardinality(Visible(c)) \in Nat
           /\ Visible(c) \subseteq Nat
           /\ Cardinality(Visible(c)) <= Cardinality(snapshots) + 1
           /\ IsFiniteSet(capture[c].oldest) /\ Cardinality(capture[c].oldest) \in Nat
           /\ IsFiniteSet(Remaining(c)) /\ Cardinality(Remaining(c)) \in Nat
           /\ Excess(c) \in Nat /\ Left(c) \in Int
           /\ capture[c].total <= Excess(c) + WindowSize
           /\ Excess(c) > 0 => capture[c].total = Excess(c) + WindowSize
<1>1. /\ lastSnapshot \in Nat /\ snapshots \subseteq 1..lastSnapshot
      /\ MaxSnapshots \in Nat /\ WindowSize \in Nat \ {0} /\ IsFiniteSet(Captures)
  BY SnapshotAssumption DEF SnapshotTypeOK
<1>2. IsFiniteSet(snapshots) /\ Cardinality(snapshots) \in Nat /\ snapshots \subseteq Nat
  <2>1. IsFiniteSet(1..lastSnapshot)
    BY <1>1, FS_Interval
  <2>2. IsFiniteSet(snapshots) /\ Cardinality(snapshots) \in Nat
    BY <1>1, <2>1, FS_Subset, FS_CardinalityType
  <2>3. 1..lastSnapshot \subseteq Nat
    BY <1>1
  <2> QED BY <1>1, <2>2, <2>3
<1>3. /\ capture[c] \in [at : {"idle", "inserted", "counted", "selected"}, id : 0..MaxSnapshots,
                         total : 0..MaxSnapshots, oldest : SUBSET SnapshotIds]
  BY DEF SnapshotTypeOK
<1>4. capture[c].id \in Nat /\ capture[c].total \in Nat /\ capture[c].oldest \subseteq 1..MaxSnapshots
  BY <1>1, <1>3 DEF SnapshotIds
<1>5. IsFiniteSet(capture[c].oldest) /\ Cardinality(capture[c].oldest) \in Nat
  <2>1. IsFiniteSet(1..MaxSnapshots)
    BY <1>1, FS_Interval
  <2> QED BY <1>4, <2>1, FS_Subset, FS_CardinalityType
<1>6. /\ IsFiniteSet(Visible(c)) /\ Cardinality(Visible(c)) \in Nat
      /\ Visible(c) \subseteq Nat /\ Cardinality(Visible(c)) <= Cardinality(snapshots) + 1
  <2>1. IsFiniteSet(Visible(c)) /\ Cardinality(Visible(c)) =
          IF capture[c].id \in snapshots THEN Cardinality(snapshots) ELSE Cardinality(snapshots) + 1
    BY <1>2, FS_AddElement DEF Visible
  <2>2. Visible(c) \subseteq Nat
    BY <1>2, <1>4 DEF Visible
  <2>3. Cardinality(Visible(c)) \in Nat
    BY <2>1, FS_CardinalityType
  <2> QED BY <1>2, <2>1, <2>2, <2>3
<1>7. IsFiniteSet(Remaining(c)) /\ Cardinality(Remaining(c)) \in Nat
  <2>1. Remaining(c) \subseteq Visible(c)
    BY DEF Remaining
  <2> QED BY <1>6, <2>1, FS_Subset, FS_CardinalityType
<1>8. /\ Excess(c) \in Nat /\ capture[c].total <= Excess(c) + WindowSize
      /\ Excess(c) > 0 => capture[c].total = Excess(c) + WindowSize
  BY <1>1, <1>4 DEF Excess
<1>9. NumCaptures \in Nat \ {0}
  <2>1. Captures # {}
    OBVIOUS
  <2> QED BY <1>1, <2>1, FS_EmptySet, FS_CardinalityType DEF NumCaptures
<1> QED BY <1>1, <1>2, <1>4, <1>5, <1>6, <1>7, <1>8, <1>9 DEF Left

(* Taking rows away leaves at least the difference.                           *)
LEMMA CutSize ==
    ASSUME NEW S, NEW T, IsFiniteSet(S), IsFiniteSet(T)
    PROVE  /\ IsFiniteSet(S \ T) /\ Cardinality(S \ T) \in Nat
           /\ Cardinality(S) - Cardinality(T) <= Cardinality(S \ T)
           /\ T \subseteq S => Cardinality(S \ T) = Cardinality(S) - Cardinality(T)
<1>1. /\ IsFiniteSet(S \ T) /\ Cardinality(S \ T) = Cardinality(S) - Cardinality(S \cap T)
      /\ Cardinality(S) \in Nat /\ Cardinality(T) \in Nat /\ Cardinality(S \ T) \in Nat
  BY FS_Difference, FS_CardinalityType
<1>2. Cardinality(S \cap T) <= Cardinality(T) /\ Cardinality(S \cap T) \in Nat
  BY FS_Intersection, FS_CardinalityType
<1>3. T \subseteq S => Cardinality(S \cap T) = Cardinality(T)
  <2>1. T \subseteq S => S \cap T = T
    OBVIOUS
  <2> QED BY <2>1
<1> QED BY <1>1, <1>2, <1>3

(* The set of a capture's predecessors has fewer members than there are     *)
(* captures, and grows by one.                                              *)
LEMMA TrackSizes ==
    ASSUME NEW S \in SUBSET Captures, NEW c \in Captures
    PROVE  /\ IsFiniteSet(S) /\ Cardinality(S) \in Nat
           /\ c \notin S => Cardinality(S) <= NumCaptures - 1
           /\ Cardinality(S \cup {c}) = IF c \in S THEN Cardinality(S) ELSE Cardinality(S) + 1
           /\ \A T \in SUBSET S : c \in S /\ c \notin T => Cardinality(T) <= Cardinality(S) - 1
<1>1. IsFiniteSet(Captures) /\ NumCaptures \in Nat
  BY SnapshotAssumption, FS_CardinalityType DEF NumCaptures
<1>2. IsFiniteSet(S) /\ Cardinality(S) \in Nat
  BY <1>1, FS_Subset, FS_CardinalityType
<1>3. /\ IsFiniteSet(S \cup {c})
      /\ Cardinality(S \cup {c}) = IF c \in S THEN Cardinality(S) ELSE Cardinality(S) + 1
  BY <1>2, FS_AddElement
<1>4. Cardinality(S \cup {c}) <= NumCaptures
  <2>1. S \cup {c} \in SUBSET Captures
    OBVIOUS
  <2> QED BY <1>1, <2>1, FS_Subset DEF NumCaptures
<1>5. ASSUME NEW T \in SUBSET S, c \in S, c \notin T
      PROVE  Cardinality(T) <= Cardinality(S) - 1
  <2>1. IsFiniteSet(T) /\ Cardinality(T) \in Nat
    BY <1>2, FS_Subset, FS_CardinalityType
  <2>2. Cardinality(T \cup {c}) = Cardinality(T) + 1
    BY <1>5, <2>1, FS_AddElement
  <2>3. T \cup {c} \in SUBSET S
    BY <1>5
  <2>4. Cardinality(T \cup {c}) <= Cardinality(S)
    BY <1>2, <2>3, FS_Subset
  <2> QED BY <1>2, <2>1, <2>2, <2>4
<1> QED BY <1>1, <1>2, <1>3, <1>4, <1>5

(* What a commit of c does to what another capture d would leave.           *)
LEMMA CommitShifts ==
    ASSUME SnapshotSane, NEW c \in Captures, DeleteAndCommit(c),
           NEW d \in Captures \ {c}, Busy(d)
    PROVE  /\ Left(d)' \in Int /\ Left(d)' <= Left(d) + 1
           /\ Left(d)' <= Cardinality(snapshots') + 1
           /\ Left(d) - (NumCaptures - 1) <= Left(d)'
           /\ Cardinality(snapshots') + 1 - NumCaptures <= Left(d)'
           /\ Excess(c) = 0 => Left(d) <= Left(d)'
<1> USE DEF SnapshotSane
<1> DEFINE new == capture[c].id
           gone == capture[c].oldest
           own == capture[d].id
           cut == IF capture[d].at = "selected" THEN capture[d].oldest ELSE {}
           less == IF capture[d].at = "selected" THEN 0 ELSE Excess(d)
           before == Remaining(d)
           after == Remaining(d)'
<1>1. /\ capture[c].at = "selected" /\ capture'[d] = capture[d]
      /\ snapshots' = (snapshots \cup {new}) \ gone
  BY DEF DeleteAndCommit, Visible, SnapshotTypeOK
<1>2. /\ new \notin snapshots /\ new # own /\ new \notin cut
      /\ own \notin snapshots /\ own \notin gone /\ capture[d].at # "idle"
  BY <1>1 DEF RowsFresh, Busy
<1>3. before = (snapshots \cup {own}) \ cut
  BY DEF Remaining, Visible
<1>4. after = (snapshots' \cup {own}) \ cut
  BY <1>1 DEF Remaining, Visible
<1>5. Left(d) = Cardinality(before) - less /\ Left(d)' = Cardinality(after) - less
  BY <1>1 DEF Left, Excess
<1>6. /\ NumCaptures \in Nat \ {0} /\ less \in Nat /\ less <= NumCaptures
      /\ IsFiniteSet(cut) /\ Cardinality(cut) \in Nat /\ Cardinality(cut) + less <= NumCaptures
  <2>1. /\ NumCaptures \in Nat \ {0} /\ Excess(d) \in Nat /\ capture[d].total \in Nat
        /\ WindowSize \in Nat
        /\ IsFiniteSet(capture[d].oldest) /\ Cardinality(capture[d].oldest) \in Nat
        /\ Excess(d) > 0 => capture[d].total = Excess(d) + WindowSize
    BY SnapshotSizes
  <2>2. Excess(d) <= NumCaptures
    BY <2>1 DEF CountsBounded
  <2>3. capture[d].at = "selected" => Cardinality(capture[d].oldest) <= Excess(d)
    BY DEF CountsBounded
  <2> QED BY <2>1, <2>2, <2>3, FS_EmptySet
<1>7. /\ IsFiniteSet(gone) /\ Cardinality(gone) \in Nat
      /\ Cardinality(gone) <= NumCaptures
      /\ Excess(c) = 0 => gone = {}
  <2>1. /\ NumCaptures \in Nat \ {0} /\ Excess(c) \in Nat /\ capture[c].total \in Nat
        /\ WindowSize \in Nat /\ IsFiniteSet(gone) /\ Cardinality(gone) \in Nat
        /\ Excess(c) > 0 => capture[c].total = Excess(c) + WindowSize
    BY SnapshotSizes
  <2>2. capture[c].total <= WindowSize + NumCaptures /\ Cardinality(gone) <= Excess(c)
    BY <1>1 DEF CountsBounded, Busy
  <2> QED BY <2>1, <2>2, FS_EmptySet
<1>8. /\ IsFiniteSet(snapshots) /\ IsFiniteSet(before) /\ Cardinality(before) \in Nat
  BY SnapshotSizes
<1> HIDE DEF new, gone, own, cut, less, before, after
<1>9. /\ IsFiniteSet(snapshots') /\ IsFiniteSet(after)
      /\ Cardinality(snapshots') \in Nat /\ Cardinality(after) \in Nat
  <2>1. IsFiniteSet(snapshots \cup {new})
    BY <1>8, FS_AddElement
  <2>2. IsFiniteSet(snapshots')
    BY <1>1, <2>1, FS_Difference
  <2>3. IsFiniteSet(snapshots' \cup {own})
    BY <2>2, FS_AddElement
  <2> QED BY <1>4, <2>2, <2>3, FS_Difference, FS_CardinalityType
<1>10. Cardinality(after) <= Cardinality(before) + 1
  <2>1. after \in SUBSET (before \cup {new})
    BY <1>1, <1>3, <1>4
  <2>2. /\ IsFiniteSet(before \cup {new})
        /\ Cardinality(before \cup {new}) <= Cardinality(before) + 1
    <3>1. IsFiniteSet(before \cup {new}) /\ Cardinality(before \cup {new})
            = IF new \in before THEN Cardinality(before) ELSE Cardinality(before) + 1
      BY <1>8, FS_AddElement
    <3> QED BY <1>8, <3>1
  <2> QED BY <1>8, <1>9, <2>1, <2>2, FS_Subset, FS_CardinalityType
<1>11. Cardinality(after) <= Cardinality(snapshots') + 1
  <2>1. after \in SUBSET (snapshots' \cup {own})
    BY <1>4
  <2>2. /\ IsFiniteSet(snapshots' \cup {own})
        /\ Cardinality(snapshots' \cup {own}) <= Cardinality(snapshots') + 1
    <3>1. IsFiniteSet(snapshots' \cup {own}) /\ Cardinality(snapshots' \cup {own})
            = IF own \in snapshots' THEN Cardinality(snapshots') ELSE Cardinality(snapshots') + 1
      BY <1>9, FS_AddElement
    <3> QED BY <1>9, <3>1
  <2> QED BY <1>9, <2>1, <2>2, FS_Subset, FS_CardinalityType
<1>12. Cardinality(snapshots') + 1 - Cardinality(cut) <= Cardinality(after)
  <2>1. own \notin snapshots'
    BY <1>1, <1>2
  <2>2. /\ IsFiniteSet(snapshots' \cup {own})
        /\ Cardinality(snapshots' \cup {own}) = Cardinality(snapshots') + 1
    BY <1>9, <2>1, FS_AddElement
  <2> QED BY <1>4, <1>6, <1>9, <2>2, CutSize
<1>13. Cardinality(before) - (NumCaptures - 1) <= Cardinality(after)
  <2>1. CASE new \in gone
    <3>1. IsFiniteSet(gone \ {new}) /\ Cardinality(gone \ {new}) = Cardinality(gone) - 1
      BY <1>7, <2>1, FS_RemoveElement
    <3>2. before \ (gone \ {new}) \in SUBSET after
      BY <1>1, <1>2, <1>3, <1>4
    <3>3. /\ IsFiniteSet(before \ (gone \ {new})) /\ Cardinality(before \ (gone \ {new})) \in Nat
          /\ Cardinality(before) - Cardinality(gone \ {new}) <= Cardinality(before \ (gone \ {new}))
      BY <1>8, <3>1, CutSize
    <3>4. Cardinality(before \ (gone \ {new})) <= Cardinality(after)
      BY <1>9, <3>2, FS_Subset
    <3> QED BY <1>6, <1>7, <1>8, <1>9, <3>1, <3>3, <3>4
  <2>2. CASE new \notin gone
    <3>1. (before \ gone) \cup {new} \in SUBSET after /\ new \notin before \ gone
      BY <1>1, <1>2, <1>3, <1>4, <2>2
    <3>2. /\ IsFiniteSet(before \ gone) /\ Cardinality(before \ gone) \in Nat
          /\ Cardinality(before) - Cardinality(gone) <= Cardinality(before \ gone)
      BY <1>7, <1>8, CutSize
    <3>3. Cardinality((before \ gone) \cup {new}) = Cardinality(before \ gone) + 1
      BY <3>1, <3>2, FS_AddElement
    <3>4. Cardinality((before \ gone) \cup {new}) <= Cardinality(after)
      BY <1>9, <3>1, FS_Subset
    <3> QED BY <1>6, <1>7, <1>8, <1>9, <3>2, <3>3, <3>4
  <2> QED BY <2>1, <2>2
<1>14. Excess(c) = 0 => Cardinality(before) <= Cardinality(after)
  <2> SUFFICES ASSUME Excess(c) = 0 PROVE Cardinality(before) <= Cardinality(after)
    OBVIOUS
  <2>1. before \in SUBSET after
    BY <1>1, <1>3, <1>4, <1>7
  <2> QED BY <1>9, <2>1, FS_Subset
<1> QED BY <1>5, <1>6, <1>8, <1>9, <1>10, <1>11, <1>12, <1>13, <1>14

(* Types and fresh row numbers; counts and selections are of what is seen.  *)
LEMMA SaneStep ==
    ASSUME SnapshotSane, [SnapshotNext]_snapshotVars
    PROVE  SnapshotTypeOK' /\ RowsFresh' /\ CountsBounded'
<1> USE DEF SnapshotSane
<1>0. /\ lastSnapshot \in 0..MaxSnapshots /\ snapshots \subseteq 1..lastSnapshot
      /\ MaxSnapshots \in Nat /\ WindowSize \in Nat /\ userDeleted \in BOOLEAN
      /\ NoCapture \in [at : {"idle", "inserted", "counted", "selected"}, id : 0..MaxSnapshots,
                        total : 0..MaxSnapshots, oldest : SUBSET SnapshotIds]
  BY SnapshotAssumption DEF SnapshotTypeOK, NoCapture
<1>1. ASSUME NEW c \in Captures, Insert(c)
      PROVE  SnapshotTypeOK' /\ RowsFresh' /\ CountsBounded'
  <2> DEFINE fresh == [NoCapture EXCEPT !.at = "inserted", !.id = lastSnapshot + 1]
  <2>0. fresh.at = "inserted" /\ fresh.id = lastSnapshot + 1 /\ fresh.oldest = {}
    BY DEF NoCapture
  <2>1. /\ lastSnapshot < MaxSnapshots /\ lastSnapshot' = lastSnapshot + 1
        /\ snapshots' = snapshots /\ userDeleted' = userDeleted
        /\ capture' = [capture EXCEPT ![c] = fresh]
    BY <1>1 DEF Insert
  <2>2. SnapshotTypeOK'
    <3>1. fresh \in [at : {"idle", "inserted", "counted", "selected"}, id : 0..MaxSnapshots,
                      total : 0..MaxSnapshots, oldest : SUBSET SnapshotIds]
      <4>1. lastSnapshot + 1 \in 0..MaxSnapshots
        BY <1>0, <2>1
      <4> DEFINE next == lastSnapshot + 1
      <4> HIDE DEF next
      <4>2. [NoCapture EXCEPT !.at = "inserted", !.id = next]
              \in [at : {"idle", "inserted", "counted", "selected"}, id : 0..MaxSnapshots,
                   total : 0..MaxSnapshots, oldest : SUBSET SnapshotIds]
        BY <1>0, <4>1 DEF next
      <4> QED BY <4>2 DEF next
    <3>2. lastSnapshot' \in 0..MaxSnapshots
      BY <1>0, <2>1
    <3>3. snapshots' \subseteq 1..lastSnapshot'
      BY <1>0, <2>1
    <3> HIDE DEF fresh
    <3> QED BY <1>0, <2>1, <3>1, <3>2, <3>3 DEF SnapshotTypeOK
  <2>3. RowsFresh'
    <3>1. capture'[c].at = "inserted" /\ capture'[c].id = lastSnapshot + 1 /\ capture'[c].oldest = {}
      <4>1. capture'[c] = fresh
        BY <2>1 DEF SnapshotTypeOK
      <4> QED BY <2>0, <4>1
    <3>2. \A d \in Captures \ {c} : capture'[d] = capture[d]
      BY <2>1 DEF SnapshotTypeOK
    <3>3. lastSnapshot + 1 \notin 1..lastSnapshot /\ lastSnapshot + 1 \in 1..lastSnapshot'
          /\ 1..lastSnapshot \subseteq 1..lastSnapshot'
      BY <1>0, <2>1
    <3> QED BY <1>0, <2>1, <3>1, <3>2, <3>3 DEF RowsFresh
  <2>4. CountsBounded'
    <3>1. capture'[c].at = "inserted"
      BY <2>0, <2>1 DEF SnapshotTypeOK
    <3>2. \A d \in Captures \ {c} : capture'[d] = capture[d]
      BY <2>1 DEF SnapshotTypeOK
    <3> QED BY <3>1, <3>2 DEF CountsBounded, Busy, Excess
  <2> QED BY <2>2, <2>3, <2>4
<1>2. ASSUME NEW c \in Captures, Count(c)
      PROVE  SnapshotTypeOK' /\ RowsFresh' /\ CountsBounded'
  <2>1. /\ UNCHANGED <<snapshots, lastSnapshot, userDeleted>>
        /\ capture[c].at = "inserted"
        /\ capture' = [capture EXCEPT ![c].at = "counted", ![c].total = Cardinality(Visible(c))]
    BY <1>2 DEF Count
  <2>2. Cardinality(Visible(c)) \in 0..MaxSnapshots
    <3>1. Visible(c) \in SUBSET (1..MaxSnapshots)
      BY <1>0, <2>1 DEF Visible, RowsFresh
    <3>2. IsFiniteSet(1..MaxSnapshots) /\ Cardinality(1..MaxSnapshots) = MaxSnapshots
      BY <1>0, FS_Interval
    <3>3. IsFiniteSet(Visible(c)) /\ Cardinality(Visible(c)) <= MaxSnapshots
      BY <3>1, <3>2, FS_Subset
    <3> QED BY <1>0, <3>3, FS_CardinalityType
  <2>3. Cardinality(Visible(c)) <= WindowSize + NumCaptures
    BY SnapshotSizes DEF WindowBounded, NumCaptures
  <2> HIDE DEF Visible
  <2>4. /\ capture'[c] = [capture[c] EXCEPT !.at = "counted", !.total = Cardinality(Visible(c))]
        /\ \A d \in Captures \ {c} : capture'[d] = capture[d]
    BY <2>1 DEF SnapshotTypeOK
  <2>5. SnapshotTypeOK'
    BY <2>1, <2>2 DEF SnapshotTypeOK
  <2>6. RowsFresh'
    BY <2>1, <2>4 DEF RowsFresh, SnapshotTypeOK
  <2>7. CountsBounded'
    <3>1. capture'[c].at = "counted" /\ capture'[c].total = Cardinality(Visible(c))
      BY <2>4 DEF SnapshotTypeOK
    <3> QED BY <2>3, <2>4, <3>1 DEF CountsBounded, Busy, Excess
  <2> QED BY <2>5, <2>6, <2>7
<1>3. ASSUME NEW c \in Captures, SelectOldest(c)
      PROVE  SnapshotTypeOK' /\ RowsFresh' /\ CountsBounded'
  <2> DEFINE chosen == Oldest(Visible(c), Excess(c))
  <2>1. /\ UNCHANGED <<snapshots, lastSnapshot, userDeleted>>
        /\ capture[c].at = "counted"
        /\ capture' = [capture EXCEPT ![c].at = "selected", ![c].oldest = chosen]
    BY <1>3 DEF SelectOldest
  <2>2. Cardinality(chosen) <= Excess(c) /\ chosen \subseteq Visible(c)
    <3>1. /\ Visible(c) \in SUBSET Nat /\ IsFiniteSet(Visible(c)) /\ Excess(c) \in Nat
          /\ Cardinality(Visible(c)) \in Nat
      BY SnapshotSizes
    <3>2. /\ Oldest(Visible(c), Excess(c)) \subseteq Visible(c)
          /\ Cardinality(chosen) = IF Excess(c) <= Cardinality(Visible(c)) THEN Excess(c)
                                 ELSE Cardinality(Visible(c))
      BY <3>1, OldestCounted
    <3> QED BY <3>1, <3>2
  <2>3. Visible(c) \subseteq 1..lastSnapshot
    BY <1>0, <2>1 DEF Visible, RowsFresh
  <2>4. \A d \in Captures \ {c} : capture[d].at # "idle" => capture[d].id \notin Visible(c)
    BY <2>1 DEF RowsFresh, Visible
  <2> HIDE DEF chosen
  <2>5. /\ capture'[c] = [capture[c] EXCEPT !.at = "selected", !.oldest = chosen]
        /\ \A d \in Captures \ {c} : capture'[d] = capture[d]
    BY <2>1 DEF SnapshotTypeOK
  <2>6. SnapshotTypeOK'
    <3>1. chosen \subseteq SnapshotIds
      BY <1>0, <2>2, <2>3 DEF SnapshotIds
    <3> QED BY <2>1, <3>1 DEF SnapshotTypeOK
  <2>7. RowsFresh'
    <3>1. /\ capture'[c].at = "selected" /\ capture'[c].oldest = chosen
          /\ capture'[c].id = capture[c].id
      BY <2>5 DEF SnapshotTypeOK
    <3>2. \A d \in Captures : /\ capture'[d].id = capture[d].id
                              /\ capture'[d].at # "idle" <=> capture[d].at # "idle"
      BY <2>1, <2>5, <3>1
    <3>3. \A d \in Captures : capture'[d].oldest = IF d = c THEN chosen ELSE capture[d].oldest
      BY <2>5, <3>1
    <3>4. chosen \subseteq 1..lastSnapshot
          /\ \A d \in Captures \ {c} : capture[d].at # "idle" => capture[d].id \notin chosen
      BY <2>2, <2>3, <2>4
    <3>5. ASSUME NEW d \in Captures, capture'[d].at # "idle"
          PROVE  /\ capture'[d].id \in 1..lastSnapshot' /\ capture'[d].id \notin snapshots'
                 /\ capture'[d].oldest \subseteq 1..lastSnapshot'
                 /\ \A e \in Captures \ {d} : capture'[e].at # "idle" =>
                      capture'[d].id # capture'[e].id /\ capture'[d].id \notin capture'[e].oldest
      <4>1. capture[d].at # "idle"
        BY <3>2, <3>5
      <4>2. /\ capture'[d].id \in 1..lastSnapshot' /\ capture'[d].id \notin snapshots'
            /\ capture'[d].oldest \subseteq 1..lastSnapshot'
        <5>1. /\ capture[d].id \in 1..lastSnapshot /\ capture[d].id \notin snapshots
              /\ capture[d].oldest \subseteq 1..lastSnapshot
          BY <4>1 DEF RowsFresh
        <5>2. capture'[d].oldest \subseteq 1..lastSnapshot
          BY <3>3, <3>4, <5>1
        <5>3. capture'[d].id = capture[d].id /\ lastSnapshot' = lastSnapshot /\ snapshots' = snapshots
          BY <2>1, <3>2
        <5>4. capture'[d].id \in 1..lastSnapshot'
          BY <5>1, <5>3
        <5> QED BY <5>1, <5>2, <5>3, <5>4
      <4>3. ASSUME NEW e \in Captures \ {d}, capture'[e].at # "idle"
            PROVE  capture'[d].id # capture'[e].id /\ capture'[d].id \notin capture'[e].oldest
        <5>1. capture[e].at # "idle"
          BY <3>2, <4>3
        <5>2. capture[d].id # capture[e].id /\ capture[d].id \notin capture[e].oldest
          BY <4>1, <5>1 DEF RowsFresh
        <5> QED BY <3>2, <3>3, <3>4, <4>1, <5>2
      <4> QED BY <4>2, <4>3
    <3> QED BY <3>5 DEF RowsFresh
  <2>8. CountsBounded'
    <3>1. /\ capture'[c].at = "selected" /\ capture'[c].oldest = chosen
          /\ capture'[c].total = capture[c].total
      BY <2>5 DEF SnapshotTypeOK
    <3> QED BY <2>1, <2>2, <2>5, <3>1 DEF CountsBounded, Busy, Excess
  <2> QED BY <2>6, <2>7, <2>8
<1>4. ASSUME NEW c \in Captures, DeleteAndCommit(c) \/ CaptureFails(c)
      PROVE  SnapshotTypeOK' /\ RowsFresh' /\ CountsBounded'
  <2>1. /\ capture' = [capture EXCEPT ![c] = NoCapture]
        /\ capture[c].at # "idle" /\ UNCHANGED <<lastSnapshot, userDeleted>>
        /\ snapshots' \subseteq snapshots \cup {capture[c].id}
    BY <1>4 DEF DeleteAndCommit, CaptureFails, Visible
  <2>2. /\ capture'[c] = NoCapture /\ \A d \in Captures \ {c} : capture'[d] = capture[d]
    BY <2>1 DEF SnapshotTypeOK
  <2>3. NoCapture.at = "idle"
    BY DEF NoCapture
  <2>4. SnapshotTypeOK'
    BY <1>0, <2>1 DEF SnapshotTypeOK, RowsFresh
  <2>5. RowsFresh'
    BY <2>1, <2>2, <2>3 DEF RowsFresh
  <2>6. CountsBounded'
    BY <2>2, <2>3 DEF CountsBounded, Busy, Excess
  <2> QED BY <2>4, <2>5, <2>6
<1>5. ASSUME NEW i \in SnapshotIds, UserDeletes(i)
      PROVE  SnapshotTypeOK' /\ RowsFresh' /\ CountsBounded'
  <2>1. /\ snapshots' \subseteq snapshots /\ userDeleted' = TRUE
        /\ UNCHANGED <<lastSnapshot, capture>>
    BY <1>5 DEF UserDeletes
  <2> QED BY <2>1 DEF SnapshotTypeOK, RowsFresh, CountsBounded, Busy, Excess
<1>6. CASE UNCHANGED snapshotVars
  BY <1>6 DEF snapshotVars, SnapshotTypeOK, RowsFresh, CountsBounded, Busy, Excess
<1> QED BY <1>1, <1>2, <1>3, <1>4, <1>5, <1>6 DEF SnapshotNext

(* A step after which c has no count leaves the others as they are.         *)
LEMMA TracksKept ==
    ASSUME NEW F \in [Captures -> SUBSET Captures], Tracks(F), NEW c \in Captures,
           ~Busy(c)', UNCHANGED <<snapshots, userDeleted>>,
           \A d \in Captures \ {c} : capture'[d] = capture[d]
    PROVE  Tracks(F)'
<1>1. \A d \in Captures : Busy(d)' => /\ Busy(d) /\ d # c /\ Left(d)' = Left(d)
                                      /\ Excess(d)' = Excess(d)
  BY DEF Busy, Left, Remaining, Visible, Excess
<1> QED BY <1>1 DEF Tracks

LEMMA CountTracked ==
    ASSUME SnapshotSane, SnapshotTypeOK', NEW F \in [Captures -> SUBSET Captures], Tracks(F),
           NEW c \in Captures, Count(c)
    PROVE  Tracks([F EXCEPT ![c] = {}])'
<1> DEFINE G == [F EXCEPT ![c] = {}]
<1> USE DEF SnapshotSane
<1>1. /\ G \in [Captures -> SUBSET Captures] /\ G[c] = {}
      /\ \A d \in Captures \ {c} : G[d] = F[d]
  OBVIOUS
<1> HIDE DEF G
<1>2. /\ UNCHANGED <<snapshots, lastSnapshot, userDeleted>>
      /\ capture'[c].at = "counted" /\ capture'[c].total = Cardinality(Visible(c))
      /\ capture'[c].id = capture[c].id /\ capture[c].at = "inserted"
      /\ \A d \in Captures \ {c} : capture'[d] = capture[d]
  BY DEF Count, SnapshotTypeOK
<1>3. \A d \in Captures \ {c} :
        /\ Busy(d)' = Busy(d) /\ Left(d)' = Left(d) /\ Excess(d)' = Excess(d)
  BY <1>2 DEF Busy, Left, Remaining, Visible, Excess
<1>4. /\ Left(c)' <= WindowSize
      /\ Excess(c)' > 0 => Left(c)' = WindowSize
  <2>1. Visible(c)' = Visible(c)
    BY <1>2 DEF Visible
  <2>2. Left(c)' = Cardinality(Visible(c)) - Excess(c)'
    BY <1>2, <2>1 DEF Left, Remaining
  <2>3. Excess(c)' = IF Cardinality(Visible(c)) <= WindowSize THEN 0
                     ELSE Cardinality(Visible(c)) - WindowSize
    BY <1>2 DEF Excess
  <2>4. Cardinality(Visible(c)) \in Nat /\ WindowSize \in Nat
    BY SnapshotSizes
  <2> QED BY <2>2, <2>3, <2>4
<1>5. ASSUME NEW d \in Captures, Busy(d)'
      PROVE  /\ d \notin G[d] /\ Left(d)' <= WindowSize + Cardinality(G[d])
             /\ ~userDeleted' /\ Excess(d)' > 0 =>
                  WindowSize <= Left(d)' + Cardinality(G[d]) * (NumCaptures - 1)
  <2>1. CASE d = c
    <3>1. Cardinality(G[d]) = 0 /\ WindowSize \in Nat /\ NumCaptures \in Nat
      BY <1>1, <2>1, FS_EmptySet, SnapshotSizes
    <3>2. 0 * (NumCaptures - 1) = 0
      BY <3>1
    <3> QED BY <1>1, <1>4, <2>1, <3>1, <3>2
  <2>2. CASE d # c
    BY <1>1, <1>2, <1>3, <1>5, <2>2 DEF Tracks
  <2> QED BY <2>1, <2>2
<1>6. ASSUME NEW d \in Captures, NEW e \in Captures, Busy(d)', Busy(e)', e \in G[d]
      PROVE  G[e] \subseteq G[d]
  BY <1>1, <1>3, <1>6 DEF Tracks
<1>7. Tracks(G)'
  BY <1>5, <1>6 DEF Tracks
<1> QED BY <1>7 DEF G

LEMMA SelectTracked ==
    ASSUME SnapshotSane, SnapshotTypeOK', NEW F \in [Captures -> SUBSET Captures], Tracks(F),
           NEW c \in Captures, SelectOldest(c)
    PROVE  Tracks(F)'
<1> USE DEF SnapshotSane
<1>1. /\ UNCHANGED <<snapshots, lastSnapshot, userDeleted>>
      /\ capture'[c].at = "selected" /\ capture'[c].total = capture[c].total
      /\ capture'[c].id = capture[c].id /\ capture[c].at = "counted"
      /\ capture'[c].oldest = Oldest(Visible(c), Excess(c))
      /\ \A d \in Captures \ {c} : capture'[d] = capture[d]
  BY DEF SelectOldest, SnapshotTypeOK
<1>2. \A d \in Captures \ {c} :
        /\ Busy(d)' = Busy(d) /\ Left(d)' = Left(d) /\ Excess(d)' = Excess(d)
  BY <1>1 DEF Busy, Left, Remaining, Visible, Excess
<1>3. /\ Busy(c) /\ Busy(c)' /\ Excess(c)' = Excess(c)
      /\ Left(c)' \in Int /\ Left(c) \in Int
      /\ Left(c) <= Left(c)' /\ (Left(c)' = Left(c) \/ Left(c)' = 0)
  <2> DEFINE seen == Visible(c)
             chosen == Oldest(seen, Excess(c))
  <2>1. /\ seen \in SUBSET Nat /\ IsFiniteSet(seen) /\ Excess(c) \in Nat
        /\ Cardinality(seen) \in Nat
    BY SnapshotSizes
  <2>2. /\ chosen \subseteq seen /\ IsFiniteSet(chosen)
        /\ Cardinality(chosen) = IF Excess(c) <= Cardinality(seen) THEN Excess(c)
                               ELSE Cardinality(seen)
    BY <2>1, OldestCounted
  <2>3. Left(c)' = Cardinality(seen \ chosen)
    <3>1. Visible(c)' = seen
      BY <1>1 DEF Visible
    <3>2. Remaining(c)' = seen \ chosen
      BY <1>1, <3>1 DEF Remaining
    <3>3. Left(c)' = Cardinality(Remaining(c)') - 0
      BY <1>1 DEF Left
    <3>4. Cardinality(seen \ chosen) \in Nat
      BY <2>1, <2>2, CutSize
    <3> QED BY <3>2, <3>3, <3>4
  <2>4. Left(c) = Cardinality(seen) - Excess(c)
    BY <1>1 DEF Left, Remaining
  <2> HIDE DEF seen, chosen
  <2>5. Cardinality(seen \ chosen) = Cardinality(seen) - Cardinality(chosen)
        /\ Cardinality(seen \ chosen) \in Nat
    BY <2>1, <2>2, CutSize
  <2>6. Busy(c) /\ Busy(c)' /\ Excess(c)' = Excess(c)
    BY <1>1 DEF Busy, Excess
  <2> QED BY <2>1, <2>2, <2>3, <2>4, <2>5, <2>6
<1>4. ASSUME NEW d \in Captures, Busy(d)'
      PROVE  /\ d \notin F[d] /\ Left(d)' <= WindowSize + Cardinality(F[d])
             /\ ~userDeleted' /\ Excess(d)' > 0 =>
                  WindowSize <= Left(d)' + Cardinality(F[d]) * (NumCaptures - 1)
  <2>1. CASE d = c
    <3>1. /\ Cardinality(F[c]) \in Nat /\ WindowSize \in Nat /\ NumCaptures \in Nat
      BY SnapshotSizes, TrackSizes
    <3>2. /\ c \notin F[c] /\ Left(c) <= WindowSize + Cardinality(F[c])
          /\ ~userDeleted /\ Excess(c) > 0 =>
               WindowSize <= Left(c) + Cardinality(F[c]) * (NumCaptures - 1)
      BY <1>3 DEF Tracks
    <3> DEFINE room == Cardinality(F[c]) * (NumCaptures - 1)
    <3>3. room \in Int
      BY <3>1
    <3> HIDE DEF room
    <3>4. /\ Left(c)' <= WindowSize + Cardinality(F[c])
          /\ WindowSize <= Left(c) + room => WindowSize <= Left(c)' + room
      BY <1>3, <3>1, <3>2, <3>3
    <3> QED BY <1>1, <1>3, <2>1, <3>2, <3>4 DEF room
  <2>2. CASE d # c
    BY <1>1, <1>2, <1>4, <2>2 DEF Tracks
  <2> QED BY <2>1, <2>2
<1>5. \A d \in Captures : Busy(d)' => Busy(d)
  BY <1>2, <1>3
<1> QED BY <1>4, <1>5 DEF Tracks

(* A commit joins the predecessors of every capture that has counted.       *)
LEMMA CommitTracked ==
    ASSUME SnapshotSane, SnapshotTypeOK', NEW F \in [Captures -> SUBSET Captures], Tracks(F),
           NEW c \in Captures, DeleteAndCommit(c)
    PROVE  /\ Tracks([x \in Captures |-> F[x] \cup {c}])' /\ WindowBounded'
           /\ ~userDeleted' /\ Cardinality(snapshots) >= LowestWindow
                => Cardinality(snapshots') >= LowestWindow
<1> DEFINE G == [x \in Captures |-> F[x] \cup {c}]
           k == NumCaptures
           n == Cardinality(snapshots')
<1> USE DEF SnapshotSane
<1>1. /\ capture[c].at = "selected" /\ snapshots' = Visible(c) \ capture[c].oldest
      /\ capture' = [capture EXCEPT ![c] = NoCapture] /\ userDeleted' = userDeleted
  BY DEF DeleteAndCommit
<1>2. /\ capture'[c].at = "idle" /\ \A d \in Captures \ {c} : capture'[d] = capture[d]
  BY <1>1 DEF SnapshotTypeOK, NoCapture
<1>3. n = Left(c) /\ n \in Nat
  <2>1. Remaining(c) = snapshots' /\ Cardinality(Remaining(c)) \in Nat
    BY <1>1, SnapshotSizes DEF Remaining
  <2>2. Left(c) = Cardinality(Remaining(c)) - 0
    BY <1>1 DEF Left
  <2> QED BY <2>1, <2>2
<1>4. k \in Nat \ {0} /\ WindowSize \in Nat \ {0}
  BY SnapshotSizes
<1>5. /\ c \notin F[c] /\ Left(c) <= WindowSize + Cardinality(F[c])
      /\ ~userDeleted /\ Excess(c) > 0 => WindowSize <= Left(c) + Cardinality(F[c]) * (k - 1)
  BY <1>1 DEF Tracks, Busy
<1>6. Cardinality(F[c]) \in Nat /\ Cardinality(F[c]) <= k - 1
  BY <1>5, TrackSizes
<1>7. WindowBounded'
  BY <1>3, <1>4, <1>5, <1>6 DEF WindowBounded, NumCaptures
<1>8. ~userDeleted' /\ Cardinality(snapshots) >= LowestWindow => n >= LowestWindow
  <2> SUFFICES ASSUME ~userDeleted, Cardinality(snapshots) >= LowestWindow
               PROVE  n >= LowestWindow
    BY <1>1
  <2> DEFINE low == (k - 1) * (k - 1)
             room == Cardinality(F[c]) * (k - 1)
  <2>1. low \in Int /\ room \in Int /\ room <= low
    BY <1>4, <1>6
  <2>2. LowestWindow = WindowSize - low
    BY DEF LowestWindow, NumCaptures
  <2>3. CASE Excess(c) = 0
    <3>1. IsFiniteSet(capture[c].oldest) /\ Cardinality(capture[c].oldest) = 0
      BY <1>1, <2>3, SnapshotSizes DEF CountsBounded
    <3>2. capture[c].oldest = {}
      BY <3>1, FS_EmptySet
    <3>3. snapshots \in SUBSET snapshots'
      BY <1>1, <3>2 DEF Visible
    <3>4. IsFiniteSet(snapshots')
      BY <1>1, SnapshotSizes, FS_Difference
    <3>5. Cardinality(snapshots) <= n /\ Cardinality(snapshots) \in Nat
      BY <3>3, <3>4, FS_Subset, SnapshotSizes
    <3> HIDE DEF n, low
    <3> QED BY <1>3, <1>4, <2>1, <2>2, <3>5
  <2>4. CASE Excess(c) > 0
    <3>1. WindowSize <= n + room
      BY <1>3, <1>5, <2>4
    <3> HIDE DEF n, low, room
    <3> QED BY <1>3, <1>4, <2>1, <2>2, <3>1
  <2> QED BY <2>3, <2>4, SnapshotSizes
<1>9. ASSUME NEW d \in Captures, Busy(d)'
      PROVE  d # c /\ Busy(d) /\ Excess(d)' = Excess(d)
  BY <1>2, <1>9 DEF Busy, Excess
<1>10. G \in [Captures -> SUBSET Captures] /\ \A d \in Captures : G[d] = F[d] \cup {c}
  OBVIOUS
<1> HIDE DEF G
<1>11. ASSUME NEW d \in Captures, Busy(d)'
       PROVE  /\ d \notin G[d] /\ Left(d)' <= WindowSize + Cardinality(G[d])
              /\ ~userDeleted' /\ Excess(d)' > 0 =>
                   WindowSize <= Left(d)' + Cardinality(G[d]) * (k - 1)
  <2>1. d \in Captures \ {c} /\ Busy(d) /\ Excess(d)' = Excess(d)
    BY <1>9, <1>11
  <2>2. /\ d \notin F[d] /\ Left(d) <= WindowSize + Cardinality(F[d])
        /\ ~userDeleted /\ Excess(d) > 0 => WindowSize <= Left(d) + Cardinality(F[d]) * (k - 1)
    BY <2>1 DEF Tracks
  <2>3. /\ Left(d)' <= Left(d) + 1 /\ Left(d)' <= n + 1
        /\ Left(d) - (k - 1) <= Left(d)' /\ n + 1 - k <= Left(d)'
        /\ Excess(c) = 0 => Left(d) <= Left(d)'
    BY <2>1, CommitShifts
  <2>4. Left(d) \in Int /\ Left(d)' \in Int /\ Excess(c) \in Nat
    <3>1. Left(d) \in Int /\ Excess(c) \in Nat
      BY SnapshotSizes
    <3>2. Left(d)' \in Int
      BY <2>1, CommitShifts
    <3> QED BY <3>1, <3>2
  <2> DEFINE m == Cardinality(F[d])
             l == Cardinality(F[c])
             roomd == m * (k - 1)
             roomc == l * (k - 1)
             roomg == Cardinality(G[d]) * (k - 1)
  <2>5. /\ m \in Nat /\ Cardinality(G[d]) = IF c \in F[d] THEN m ELSE m + 1
    BY <1>10, TrackSizes
  <2>6. roomd \in Int /\ roomc \in Int /\ roomg \in Int
    BY <1>4, <1>6, <2>5
  <2>7. CASE c \notin F[d]
    <3>1. Cardinality(G[d]) = m + 1
      BY <2>5, <2>7
    <3>2. roomg = roomd + (k - 1)
      BY <1>4, <2>5, <3>1
    <3>3. d \notin G[d]
      BY <1>10, <2>1, <2>2
    <3> HIDE DEF m, roomd, roomg, k, n
    <3>4. Left(d)' <= WindowSize + Cardinality(G[d])
      BY <1>4, <2>2, <2>3, <2>4, <2>5, <3>1 DEF m
    <3>5. WindowSize <= Left(d) + roomd => WindowSize <= Left(d)' + roomg
      BY <1>4, <2>3, <2>4, <2>6, <3>2
    <3> QED BY <1>1, <2>1, <2>2, <3>3, <3>4, <3>5 DEF roomd, roomg, m
  <2>8. CASE c \in F[d]
    <3>1. Cardinality(G[d]) = m /\ roomg = roomd
      BY <2>5, <2>8
    <3>2. F[c] \in SUBSET F[d]
      BY <1>1, <2>1, <2>8 DEF Tracks, Busy
    <3>3. l <= m - 1
      BY <1>5, <2>8, <3>2, TrackSizes
    <3>4. roomc <= roomd - (k - 1)
      <4>1. l + 1 <= m
        BY <1>6, <2>5, <3>3
      <4>2. k - 1 \in Nat
        BY <1>4
      <4> DEFINE j == k - 1
      <4>3. (l + 1) * j <= m * j
        BY <1>6, <2>5, <4>1, <4>2
      <4>4. (l + 1) * j = l * j + j
        BY <1>6, <4>2
      <4> QED BY <1>6, <2>5, <2>6, <4>2, <4>3, <4>4
    <3>5. d \notin G[d]
      BY <1>10, <2>1, <2>2
    <3> HIDE DEF m, l, roomd, roomg, roomc, k, n
    <3>6. Left(d)' <= WindowSize + Cardinality(G[d])
      BY <1>3, <1>4, <1>5, <1>6, <2>3, <2>4, <2>5, <3>1, <3>3 DEF l
    <3>7. Excess(c) = 0 /\ WindowSize <= Left(d) + roomd => WindowSize <= Left(d)' + roomg
      BY <1>4, <2>3, <2>4, <2>6, <3>1
    <3>8. WindowSize <= n + roomc => WindowSize <= Left(d)' + roomg
      BY <1>3, <1>4, <2>3, <2>4, <2>6, <3>1, <3>4
    <3>9. ~userDeleted /\ Excess(c) > 0 => WindowSize <= n + roomc
      BY <1>3, <1>5 DEF roomc, l
    <3>10. Excess(c) = 0 \/ Excess(c) > 0
      BY <2>4
    <3> QED BY <1>1, <2>1, <2>2, <3>5, <3>6, <3>7, <3>8, <3>9, <3>10 DEF roomd, roomg, m
  <2> QED BY <2>7, <2>8
<1>12. ASSUME NEW d \in Captures, NEW e \in Captures, Busy(d)', Busy(e)', e \in G[d]
       PROVE  G[e] \subseteq G[d]
  BY <1>9, <1>10, <1>12 DEF Tracks
<1>13. Tracks(G)'
  BY <1>11, <1>12 DEF Tracks
<1> QED BY <1>7, <1>8, <1>13 DEF G

LEMMA SnapshotInvStart == SnapshotInit => SnapshotInv
<1> SUFFICES ASSUME SnapshotInit PROVE SnapshotInv
  OBVIOUS
<1>1. /\ snapshots = {} /\ lastSnapshot = 0 /\ userDeleted = FALSE
      /\ capture = [c \in Captures |-> NoCapture] /\ MaxSnapshots \in Nat
      /\ NoCapture \in [at : {"idle", "inserted", "counted", "selected"}, id : 0..MaxSnapshots,
                        total : 0..MaxSnapshots, oldest : SUBSET SnapshotIds]
      /\ NoCapture.at = "idle"
  BY SnapshotAssumption DEF SnapshotInit, NoCapture
<1>2. SnapshotTypeOK
  <2>1. lastSnapshot \in 0..MaxSnapshots /\ snapshots \subseteq 1..lastSnapshot
        /\ userDeleted \in BOOLEAN
    <3>1. 0 \in 0..MaxSnapshots
      BY <1>1
    <3> QED BY <1>1, <3>1
  <2>2. capture \in [Captures -> [at : {"idle", "inserted", "counted", "selected"}, id : 0..MaxSnapshots,
                                  total : 0..MaxSnapshots, oldest : SUBSET SnapshotIds]]
    BY <1>1
  <2> QED BY <2>1, <2>2 DEF SnapshotTypeOK
<1>3. RowsFresh /\ CountsBounded /\ \A c \in Captures : ~Busy(c)
  BY <1>1 DEF RowsFresh, CountsBounded, Busy
<1>4. WindowBounded
  <2>1. /\ Cardinality(snapshots) = 0 /\ WindowSize \in Nat \ {0}
        /\ Cardinality(Captures) \in Nat
    BY <1>1, FS_EmptySet, FS_CardinalityType, SnapshotAssumption
  <2> QED BY <2>1 DEF WindowBounded
<1>5. Tracks([c \in Captures |-> {}])
  BY <1>3 DEF Tracks
<1> QED BY <1>2, <1>3, <1>4, <1>5 DEF SnapshotInv, SnapshotSane

LEMMA SnapshotInvStep ==
    ASSUME SnapshotInv, [SnapshotNext]_snapshotVars
    PROVE  /\ SnapshotInv'
           /\ ~userDeleted' /\ Cardinality(snapshots) >= LowestWindow
                => Cardinality(snapshots') >= LowestWindow
<1> USE DEF SnapshotInv
<1>1. SnapshotTypeOK' /\ RowsFresh' /\ CountsBounded'
  BY SaneStep
<1>2. PICK F \in [Captures -> SUBSET Captures] : Tracks(F)
  OBVIOUS
<1> DEFINE Held == /\ WindowBounded' /\ \E G \in [Captures -> SUBSET Captures] : Tracks(G)'
                   /\ ~userDeleted' /\ Cardinality(snapshots) >= LowestWindow
                        => Cardinality(snapshots') >= LowestWindow
<1> SUFFICES Held
  BY <1>1 DEF SnapshotSane
<1>3. SnapshotSane /\ WindowBounded
  BY DEF SnapshotSane
<1>4. ASSUME NEW c \in Captures, Insert(c) PROVE Held
  <2>1. /\ UNCHANGED <<snapshots, userDeleted>> /\ capture'[c].at = "inserted"
        /\ \A d \in Captures \ {c} : capture'[d] = capture[d]
    BY <1>3, <1>4 DEF Insert, SnapshotSane, SnapshotTypeOK, NoCapture
  <2>2. Tracks(F)'
    BY <1>2, <2>1, TracksKept DEF Busy
  <2> QED BY <1>3, <2>1, <2>2 DEF WindowBounded
<1>5. ASSUME NEW c \in Captures, Count(c) PROVE Held
  <2>1. Tracks([F EXCEPT ![c] = {}])'
    BY <1>1, <1>2, <1>3, <1>5, CountTracked
  <2>2. [F EXCEPT ![c] = {}] \in [Captures -> SUBSET Captures] /\ snapshots' = snapshots
    BY <1>5 DEF Count
  <2> QED BY <1>3, <2>1, <2>2 DEF WindowBounded
<1>6. ASSUME NEW c \in Captures, SelectOldest(c) PROVE Held
  <2>1. Tracks(F)'
    BY <1>1, <1>2, <1>3, <1>6, SelectTracked
  <2> QED BY <1>3, <1>6, <2>1 DEF SelectOldest, WindowBounded
<1>7. ASSUME NEW c \in Captures, DeleteAndCommit(c) PROVE Held
  <2>1. /\ Tracks([x \in Captures |-> F[x] \cup {c}])' /\ WindowBounded'
        /\ ~userDeleted' /\ Cardinality(snapshots) >= LowestWindow
             => Cardinality(snapshots') >= LowestWindow
    BY <1>1, <1>2, <1>3, <1>7, CommitTracked
  <2>2. [x \in Captures |-> F[x] \cup {c}] \in [Captures -> SUBSET Captures]
    OBVIOUS
  <2> QED BY <2>1, <2>2
<1>8. ASSUME NEW c \in Captures, CaptureFails(c) PROVE Held
  <2>1. /\ UNCHANGED <<snapshots, userDeleted>> /\ capture'[c].at = "idle"
        /\ \A d \in Captures \ {c} : capture'[d] = capture[d]
    BY <1>3, <1>8 DEF CaptureFails, SnapshotSane, SnapshotTypeOK, NoCapture
  <2>2. Tracks(F)'
    BY <1>2, <2>1, TracksKept DEF Busy
  <2> QED BY <1>3, <2>1, <2>2 DEF WindowBounded
<1>9. ASSUME NEW i \in SnapshotIds, UserDeletes(i) PROVE Held
  <2>1. /\ snapshots' = snapshots \ {i} /\ userDeleted' = TRUE /\ UNCHANGED capture
    BY <1>9 DEF UserDeletes
  <2>2. ASSUME NEW d \in Captures, Busy(d)
        PROVE  Busy(d)' /\ Excess(d)' = Excess(d) /\ Left(d)' <= Left(d) /\ Left(d)' \in Int
    <3>1. Remaining(d)' \in SUBSET Remaining(d)
      BY <2>1 DEF Remaining, Visible
    <3>2. IsFiniteSet(Remaining(d)) /\ Cardinality(Remaining(d)) \in Nat /\ Excess(d) \in Nat
      BY <1>3, SnapshotSizes DEF SnapshotSane
    <3>3. Cardinality(Remaining(d)') \in Nat /\ Cardinality(Remaining(d)') <= Cardinality(Remaining(d))
      BY <3>1, <3>2, FS_Subset, FS_CardinalityType
    <3>4. Busy(d)' /\ Excess(d)' = Excess(d)
      BY <2>1, <2>2 DEF Busy, Excess
    <3> DEFINE less == IF capture[d].at = "selected" THEN 0 ELSE Excess(d)
    <3>5. Left(d) = Cardinality(Remaining(d)) - less /\ Left(d)' = Cardinality(Remaining(d)') - less
          /\ less \in Nat
      BY <2>1, <3>2, <3>4 DEF Left
    <3> HIDE DEF less
    <3> QED BY <3>2, <3>3, <3>4, <3>5
  <2>3. \A d \in Captures : Busy(d)' => Busy(d)
    BY <2>1 DEF Busy
  <2>4. \A d \in Captures : Left(d) \in Int /\ Cardinality(F[d]) \in Nat /\ WindowSize \in Nat
    BY <1>3, SnapshotSizes, TrackSizes DEF SnapshotSane
  <2>5. ASSUME NEW d \in Captures, Busy(d)'
        PROVE  d \notin F[d] /\ Left(d)' <= WindowSize + Cardinality(F[d])
    <3>1. d \notin F[d] /\ Left(d) <= WindowSize + Cardinality(F[d])
      BY <1>2, <2>3, <2>5 DEF Tracks
    <3> QED BY <2>2, <2>3, <2>4, <2>5, <3>1
  <2>6. Tracks(F)'
    BY <1>2, <2>1, <2>3, <2>5 DEF Tracks
  <2>7. WindowBounded'
    <3>1. /\ IsFiniteSet(snapshots) /\ Cardinality(snapshots) \in Nat
          /\ WindowSize \in Nat /\ NumCaptures \in Nat
      <4>0. SnapshotTypeOK /\ IsFiniteSet(Captures) /\ WindowSize \in Nat /\ MaxSnapshots \in Nat
        BY <1>3, SnapshotAssumption DEF SnapshotSane
      <4>1. lastSnapshot \in Nat /\ snapshots \in SUBSET (1..lastSnapshot)
        BY <4>0 DEF SnapshotTypeOK
      <4>2. IsFiniteSet(snapshots)
        <5>1. IsFiniteSet(1..lastSnapshot)
          BY <4>1, FS_Interval
        <5> QED BY <4>1, <5>1, FS_Subset
      <4> QED BY <4>0, <4>2, FS_CardinalityType DEF NumCaptures
    <3>2. snapshots' \in SUBSET snapshots
      BY <2>1
    <3>3. Cardinality(snapshots') <= Cardinality(snapshots) /\ Cardinality(snapshots') \in Nat
      BY <3>1, <3>2, FS_Subset, FS_CardinalityType
    <3> QED BY <1>3, <3>1, <3>3 DEF WindowBounded, NumCaptures
  <2> QED BY <2>1, <2>6, <2>7
<1>10. CASE UNCHANGED snapshotVars
  <2>0. \A d \in Captures : /\ Busy(d)' = Busy(d) /\ Left(d)' = Left(d) /\ Excess(d)' = Excess(d)
                            /\ userDeleted' = userDeleted
    BY <1>10 DEF snapshotVars, Busy, Left, Remaining, Visible, Excess
  <2>1. Tracks(F)'
    BY <1>2, <2>0 DEF Tracks
  <2>2. snapshots' = snapshots
    BY <1>10 DEF snapshotVars
  <2>3. WindowBounded'
    BY <1>3, <2>2 DEF WindowBounded
  <2> QED BY <2>1, <2>2, <2>3
<1> HIDE DEF Held
<1>11. CASE SnapshotNext
  <2>1. CASE \E c \in Captures :
               Insert(c) \/ Count(c) \/ SelectOldest(c) \/ DeleteAndCommit(c) \/ CaptureFails(c)
    BY <1>4, <1>5, <1>6, <1>7, <1>8, <2>1
  <2>2. CASE \E i \in SnapshotIds : UserDeletes(i)
    BY <1>9, <2>2
  <2> QED BY <1>11, <2>1, <2>2 DEF SnapshotNext
<1> QED BY <1>10, <1>11

(* The types of the captures and of their window, whatever their order      *)
(* (create_snapshot).                                                       *)
THEOREM SnapshotTypeCorrect == SnapshotSpec => []SnapshotTypeOK
<1>1. SnapshotInv => SnapshotTypeOK
  BY DEF SnapshotInv, SnapshotSane
<1> QED BY <1>1, SnapshotInvStart, SnapshotInvStep, PTL DEF SnapshotSpec

(* Overlapping captures exceed the window by one row for each further       *)
(* capture and no more, for any window and any number of captures           *)
(* (_enforce_rolling_window).                                               *)
THEOREM WindowIsBounded == SnapshotSpec => []WindowBounded
<1>1. SnapshotInv => WindowBounded
  BY DEF SnapshotInv, SnapshotSane
<1> QED BY <1>1, SnapshotInvStart, SnapshotInvStep, PTL DEF SnapshotSpec

(* No commit takes the window below what stale counts explain: each of the  *)
(* other captures removes at most one row too many for each of the others   *)
(* (_enforce_rolling_window).                                               *)
THEOREM ShrinkIsBounded == SnapshotSpec => ShrinkBounded
<1>1. SnapshotInv /\ [SnapshotNext]_snapshotVars
        => [~userDeleted' /\ Cardinality(snapshots) >= LowestWindow
              => Cardinality(snapshots') >= LowestWindow]_snapshotVars
  BY SnapshotInvStep
<1> QED BY <1>1, SnapshotInvStart, SnapshotInvStep, PTL DEF SnapshotSpec, ShrinkBounded

-----------------------------------------------------------------------------
(* The erasure of an account.                                              *)

Jobs == [status : {"absent", "processing", "completed", "failed"},
         job : {"none", "checked", "inserted", "collecting", "written",
                "failing", "failed", "unmarked", "unstarted", "dead"}]

StoresTyped ==
    /\ export \in [Exports -> Jobs] /\ zips \subseteq Exports
    /\ cleanup \in {"idle", "vectors", "nodes", "files", "rows"}

(* A file is named by its row as soon as its job is done, unless that has   *)
(* failed or its process has died.                                          *)
FilesKnown ==
    Alive => /\ \A x \in Exports : JobRuns(x) => export[x].status # "absent"
             /\ \A x \in zips : \/ export[x].status = "completed" \/ export[x].job = "written"
                               \/ export[x].job \in Broken
             /\ \A x \in zips : export[x].job \notin {"checked", "inserted", "collecting"}

(* A clean-up that nothing disturbs has the stores it has cleaned behind it. *)
CleanBehind ==
    /\ cleanup # "idle" => Alive
    /\ ~Alive => rows = {}
    /\ ~disturbed /\ (cleanup # "idle" \/ ~Alive) =>
         /\ embedding = {} /\ deletion = {} /\ \A x \in Exports : ~JobRuns(x)
         /\ cleanup # "vectors" => vectors = {}
         /\ cleanup \notin {"vectors", "nodes"} => nodes = {}
         /\ cleanup \notin {"vectors", "nodes", "files"} =>
              \A x \in zips : export[x].job \in Broken

ErasureInv == StoresTyped /\ FilesKnown /\ CleanBehind

LEMMA ErasureStart == ErasureInit => ErasureInv
BY DEF ErasureInit, ErasureInv, StoresTyped, Jobs, FilesKnown, CleanBehind, Alive, JobRuns

LEMMA ErasureStep == ErasureInv /\ [ErasureNext]_erasureVars => ErasureInv'
<1> SUFFICES ASSUME ErasureInv, [ErasureNext]_erasureVars PROVE ErasureInv'
  OBVIOUS
<1> USE DEF ErasureInv
<1>1. ASSUME Schedule \/ GraceEnds \/ CancelDeletion PROVE ErasureInv'
  BY <1>1 DEF Schedule, GraceEnds, CancelDeletion, erasureStores, erasureTasks, erasureHistory,
              StoresTyped, FilesKnown, CleanBehind, Alive, JobRuns
<1>2. ASSUME NEW d \in Documents,
             StartEmbedding(d) \/ WriteVectors(d) \/ CommitEmbedding(d) \/ ReadChunks(d) \/ FinishDelete(d)
      PROVE  ErasureInv'
  <2>1. UNCHANGED <<account, rows, export, zips, cleanup>>
    BY <1>2 DEF StartEmbedding, WriteVectors, CommitEmbedding, ReadChunks, FinishDelete, erasureStores
  <2>2. StoresTyped' /\ FilesKnown'
    BY <2>1 DEF StoresTyped, FilesKnown, Alive, JobRuns
  <2>3. CleanBehind'
    <3>1. CASE StartEmbedding(d) \/ ReadChunks(d)
      BY <2>1, <3>1 DEF StartEmbedding, ReadChunks, Disturb, erasureStores, CleanBehind, Alive, JobRuns
    <3>2. CASE WriteVectors(d) \/ CommitEmbedding(d) \/ FinishDelete(d)
      BY <2>1, <3>2 DEF WriteVectors, CommitEmbedding, FinishDelete, erasureStores, erasureTasks,
                        erasureHistory, CleanBehind, Alive, JobRuns
    <3> QED BY <1>2, <3>1, <3>2
  <2> QED BY <2>2, <2>3
<1>3. ASSUME NEW x \in Exports,
             \/ CheckExport(x) \/ InsertExport(x) \/ RunExport(x)
             \/ AbandonExport(x) \/ FailExport(x) \/ LoseExport(x)
      PROVE  ErasureInv'
  <2>1. /\ \A y \in Exports \ {x} : export'[y] = export[y]
        /\ export[x] \in Jobs /\ export'[x] \in Jobs /\ export' \in [Exports -> Jobs]
    <3>1. /\ export \in [Exports -> Jobs] /\ export[x] \in Jobs
          /\ \A job \in {"checked", "collecting", "written", "failing", "failed", "unmarked", "unstarted",
                        "dead"} :
               [export[x] EXCEPT !.job = job] \in Jobs
          /\ \A job \in {"none", "failed", "inserted"},
                status \in {"absent", "processing", "completed", "failed"} :
               [job |-> job, status |-> status] \in Jobs
      BY DEF StoresTyped, Jobs
    <3>2. CASE CheckExport(x) \/ StartExport(x) \/ WriteZip(x)
      BY <3>1, <3>2 DEF CheckExport, StartExport, WriteZip
    <3>3. CASE InsertExport(x)
      BY <3>1, <3>3 DEF InsertExport
    <3>4. CASE CompleteExport(x)
      BY <3>1, <3>4 DEF CompleteExport
    <3>5. CASE MarkFailed(x)
      BY <3>1, <3>5 DEF MarkFailed
    <3>6. CASE AbandonExport(x) \/ FailExport(x) \/ LeaveUnmarked(x) \/ LoseExport(x)
      BY <3>1, <3>6 DEF AbandonExport, FailExport, LeaveUnmarked, LoseExport
    <3> QED BY <1>3, <3>2, <3>3, <3>4, <3>5, <3>6 DEF RunExport
  <2>2. UNCHANGED <<account, rows, vectors, nodes, embedding, deletion, cleanup>>
    <3>1. CASE CheckExport(x) \/ InsertExport(x) \/ AbandonExport(x) \/ FailExport(x) \/ LoseExport(x)
      BY <3>1 DEF CheckExport, InsertExport, AbandonExport, FailExport, LoseExport, erasureStores,
                  erasureTasks
    <3>2. CASE RunExport(x)
      BY <3>2 DEF RunExport, StartExport, WriteZip, CompleteExport, MarkFailed, LeaveUnmarked,
                  erasureStores, erasureTasks
    <3> QED BY <1>3, <3>1, <3>2
  <2>3. CASE CheckExport(x)
    <3>1. /\ zips' = zips /\ disturbed' = disturbed /\ Alive
          /\ export[x].status = "absent" /\ export[x].job = "none"
          /\ export'[x].status = "absent" /\ export'[x].job = "checked"
      BY <2>1, <2>3 DEF CheckExport, erasureHistory, StoresTyped, Jobs
    <3>2. x \notin zips
      BY <3>1 DEF FilesKnown, Broken
    <3> QED BY <2>1, <2>2, <3>1, <3>2 DEF StoresTyped, FilesKnown, CleanBehind, Alive, JobRuns
  <2>4. CASE InsertExport(x)
    <3>1. /\ zips' = zips /\ disturbed' = (disturbed \/ cleanup # "idle") /\ Alive
          /\ export[x].job = "checked"
          /\ export'[x].status = "processing" /\ export'[x].job = "inserted"
      BY <2>1, <2>4 DEF InsertExport, Disturb, StoresTyped, Jobs
    <3>2. x \notin zips
      BY <3>1 DEF FilesKnown
    <3> QED BY <2>1, <2>2, <3>1, <3>2 DEF StoresTyped, FilesKnown, CleanBehind, Alive, JobRuns
  <2>5. CASE StartExport(x)
    <3>1. /\ zips' = zips /\ disturbed' = disturbed /\ JobRuns(x) /\ export[x].job = "inserted"
          /\ export'[x].status = export[x].status /\ export'[x].job = "collecting"
      BY <2>1, <2>5 DEF StartExport, JobRuns, erasureHistory, StoresTyped, Jobs
    <3>2. Alive => x \notin zips
      BY <3>1 DEF FilesKnown
    <3> QED BY <2>1, <2>2, <3>1, <3>2 DEF StoresTyped, FilesKnown, CleanBehind, Alive, JobRuns, Broken
  <2>6. CASE WriteZip(x)
    <3>1. /\ zips' = zips \cup {x} /\ disturbed' = disturbed /\ JobRuns(x)
          /\ export'[x].status = export[x].status /\ export'[x].job = "written"
      BY <2>1, <2>6 DEF WriteZip, JobRuns, erasureHistory, StoresTyped, Jobs
    <3> QED BY <2>1, <2>2, <3>1 DEF StoresTyped, FilesKnown, CleanBehind, Alive, JobRuns
  <2>7. CASE CompleteExport(x)
    <3>1. /\ zips' = zips /\ disturbed' = disturbed /\ JobRuns(x)
          /\ export[x].status # "absent" => export'[x].status = "completed"
          /\ export'[x].job \in {"none", "failed"}
      BY <2>1, <2>7 DEF CompleteExport, JobRuns, erasureHistory, StoresTyped, Jobs
    <3> QED BY <2>1, <2>2, <3>1 DEF StoresTyped, FilesKnown, CleanBehind, Alive, JobRuns, Broken
  <2>8. CASE AbandonExport(x)
    <3>1. /\ zips' = zips /\ disturbed' = disturbed /\ JobRuns(x) /\ export[x].job = "inserted"
          /\ export'[x].status = export[x].status /\ export'[x].job = "unstarted"
      BY <2>1, <2>8 DEF AbandonExport, JobRuns, StoresTyped, Jobs
    <3>2. Alive => x \notin zips
      BY <3>1 DEF FilesKnown
    <3> QED BY <2>1, <2>2, <3>1, <3>2 DEF StoresTyped, FilesKnown, CleanBehind, Alive, JobRuns
  <2>9. CASE FailExport(x) \/ MarkFailed(x) \/ LeaveUnmarked(x) \/ LoseExport(x)
    <3>1. zips' = zips /\ disturbed' = disturbed /\ export'[x].job \in Broken
      BY <2>1, <2>9 DEF FailExport, MarkFailed, LeaveUnmarked, LoseExport, erasureHistory, StoresTyped,
                        Jobs, Broken
    <3>2. ~JobRuns(x)'
      BY <3>1 DEF JobRuns, Broken
    <3> QED BY <2>1, <2>2, <3>1, <3>2 DEF StoresTyped, FilesKnown, CleanBehind, Alive, JobRuns, Broken
  <2> QED BY <1>3, <2>3, <2>4, <2>5, <2>6, <2>7, <2>8, <2>9 DEF RunExport
<1>4. CASE SelectExpired
  <2>1. UNCHANGED <<account, rows, vectors, nodes, embedding, deletion, export, zips>>
    BY <1>4 DEF SelectExpired, erasureStores, erasureTasks
  <2>2. cleanup' = "vectors" /\ Alive /\ (disturbed' \/ ~TaskRuns)
    BY <1>4 DEF SelectExpired, Alive
  <2> QED BY <2>1, <2>2 DEF StoresTyped, FilesKnown, CleanBehind, Alive, JobRuns, TaskRuns
<1>5. CASE CleanVectors \/ CleanNodes \/ CleanFiles
  <2>1. UNCHANGED <<account, rows, embedding, deletion, export>>
    BY <1>5 DEF CleanVectors, CleanNodes, CleanFiles, erasureStores, erasureTasks
  <2>2. zips' \subseteq zips /\ (~disturbed' => ~disturbed)
    BY <1>5 DEF CleanVectors, CleanNodes, CleanFiles
  <2>3. StoresTyped' /\ FilesKnown'
    BY <1>5, <2>1, <2>2 DEF CleanVectors, CleanNodes, CleanFiles, StoresTyped, FilesKnown, Alive, JobRuns
  <2>4. CASE CleanVectors
    BY <2>1, <2>2, <2>3, <2>4 DEF CleanVectors, CleanBehind, Alive, JobRuns
  <2>5. CASE CleanNodes
    BY <2>1, <2>2, <2>3, <2>5 DEF CleanNodes, CleanBehind, Alive, JobRuns
  <2>6. CASE CleanFiles
    <3>1. cleanup = "files" /\ cleanup' = "rows" /\ UNCHANGED <<vectors, nodes>> /\ Alive
      BY <2>6 DEF CleanFiles, CleanBehind, erasureStores
    <3>2. ~disturbed' => ~disturbed /\ zips' = zips \ Linked
      BY <2>6 DEF CleanFiles
    <3>3. ~disturbed' => \A x \in zips' : export[x].job \in Broken
      BY <3>1, <3>2 DEF Linked, FilesKnown, CleanBehind, JobRuns, StoresTyped
    <3> QED BY <2>1, <2>3, <3>1, <3>2, <3>3 DEF CleanBehind, Alive, JobRuns
  <2> QED BY <1>5, <2>3, <2>4, <2>5, <2>6
<1>6. CASE DeleteRows
  <2>1. /\ cleanup = "rows" /\ cleanup' = "idle" /\ ~Alive' /\ rows' = {}
        /\ UNCHANGED <<vectors, nodes, embedding, deletion, zips, disturbed>>
    BY <1>6 DEF DeleteRows, Alive, erasureTasks, erasureHistory
  <2>2. /\ \A x \in Exports : export'[x].job = export[x].job
        /\ export' \in [Exports -> Jobs]
    <3>1. \A x \in Exports : /\ [export[x] EXCEPT !.status = "absent"] \in Jobs
                            /\ [export[x] EXCEPT !.status = "absent"].job = export[x].job
      BY DEF StoresTyped, Jobs
    <3> QED BY <1>6, <3>1 DEF DeleteRows
  <2> QED BY <2>1, <2>2 DEF StoresTyped, FilesKnown, CleanBehind, Alive, JobRuns
<1>7. CASE CleanupFails \/ UNCHANGED erasureVars
  BY <1>7 DEF CleanupFails, erasureVars, erasureStores, erasureTasks, erasureHistory,
              StoresTyped, FilesKnown, CleanBehind, Alive, JobRuns
<1> QED BY <1>1, <1>2, <1>3, <1>4, <1>5, <1>6, <1>7 DEF ErasureNext

(* Once an account is gone, no store holds anything of it and only files of *)
(* broken exports are left, unless a store failed or a task of the user ran *)
(* during the clean-up (_cascade_delete_user).                              *)
THEOREM ErasureIsComplete == ErasureSpec => []ErasureComplete
<1>1. ErasureInv => ErasureComplete
  <2> SUFFICES ASSUME ErasureInv, account = "deleted", ~disturbed
               PROVE  vectors = {} /\ nodes = {} /\ \A x \in zips : export[x].job \in Broken
    BY DEF ErasureComplete
  <2>1. ~Alive /\ cleanup = "idle"
    BY DEF ErasureInv, CleanBehind, Alive
  <2> QED BY <2>1 DEF ErasureInv, CleanBehind
<1> QED BY <1>1, ErasureStart, ErasureStep, PTL DEF ErasureSpec

LEMMA ErasureTypeStart == ErasureInit => ErasureTypeOK
<1>1. 0 \in 0..MaxErasureFaults
  BY ErasureAssumption
<1>2. ErasureInit => export \in [Exports -> Jobs]
  BY DEF ErasureInit, Jobs
<1>3. ErasureInit => /\ rows = Documents /\ vectors = {} /\ nodes = {} /\ embedded = {} /\ embedding = {}
                     /\ deletion = {} /\ claimed = {} /\ zips = {} /\ cleanup = "idle"
                     /\ account = "active" /\ disturbed = FALSE /\ erasureFaults = 0
  BY DEF ErasureInit
<1> QED BY <1>1, <1>2, <1>3 DEF ErasureTypeOK, Jobs

LEMMA ErasureTypeStep == ErasureInv /\ ErasureTypeOK /\ [ErasureNext]_erasureVars => ErasureTypeOK'
<1> SUFFICES ASSUME ErasureInv, ErasureTypeOK, [ErasureNext]_erasureVars PROVE ErasureTypeOK'
  OBVIOUS
<1>1. StoresTyped'
  BY ErasureStep DEF ErasureInv
<1> DEFINE Tables == /\ rows' \subseteq Documents /\ vectors' \subseteq Documents /\ nodes' \subseteq Documents
                     /\ embedded' \subseteq rows' /\ embedding' \subseteq Documents
                     /\ deletion' \subseteq Documents /\ claimed' \subseteq Documents
           Flags == /\ account' \in {"active", "scheduled", "due", "deleted"}
                    /\ disturbed' \in BOOLEAN /\ erasureFaults' \in 0..MaxErasureFaults
<1> SUFFICES Tables /\ Flags
  BY <1>1 DEF ErasureTypeOK, StoresTyped, Jobs
<1> USE DEF ErasureTypeOK, erasureStores, erasureTasks, erasureHistory
<1>0. Fault => erasureFaults' \in 0..MaxErasureFaults
  BY ErasureAssumption DEF Fault
<1>2. ASSUME Schedule \/ GraceEnds \/ CancelDeletion PROVE Tables /\ Flags
  BY <1>2 DEF Schedule, GraceEnds, CancelDeletion
<1>3. ASSUME NEW d \in Documents, StartEmbedding(d) \/ WriteVectors(d) \/ CommitEmbedding(d)
                                  \/ ReadChunks(d) \/ FinishDelete(d)
      PROVE  Tables /\ Flags
  BY <1>3 DEF StartEmbedding, WriteVectors, CommitEmbedding, ReadChunks, FinishDelete, Disturb
<1>4. ASSUME NEW x \in Exports, \/ CheckExport(x) \/ InsertExport(x) \/ RunExport(x)
                                 \/ AbandonExport(x) \/ FailExport(x) \/ LoseExport(x)
      PROVE  Tables /\ Flags
  <2>1. CASE CheckExport(x) \/ InsertExport(x) \/ AbandonExport(x) \/ FailExport(x) \/ LoseExport(x)
    BY <1>0, <2>1 DEF CheckExport, InsertExport, AbandonExport, FailExport, LoseExport, Disturb
  <2>2. CASE RunExport(x)
    BY <2>2 DEF RunExport, StartExport, WriteZip, CompleteExport, MarkFailed, LeaveUnmarked
  <2> QED BY <1>4, <2>1, <2>2
<1>5. CASE SelectExpired \/ DeleteRows \/ CleanupFails
  BY <1>0, <1>5 DEF SelectExpired, DeleteRows, CleanupFails, TaskRuns
<1>6. CASE CleanVectors \/ CleanNodes \/ CleanFiles
  BY <1>0, <1>6 DEF CleanVectors, CleanNodes, CleanFiles
<1>7. CASE UNCHANGED erasureVars
  BY <1>7 DEF erasureVars
<1> QED BY <1>2, <1>3, <1>4, <1>5, <1>6, <1>7 DEF ErasureNext

-----------------------------------------------------------------------------
(* The composition: whatever is in focus, the whole is a behaviour of every *)
(* component, so that what is proved of a component holds of the run.       *)
THEOREM BackgroundIsEach ==
    BackgroundSpec => BriefingSpec /\ ReminderSpec /\ SnapshotSpec /\ ErasureSpec
<1>1. BackgroundInit => BriefingInit /\ ReminderInit /\ SnapshotInit /\ ErasureInit
  BY DEF BackgroundInit
<1>2. [BackgroundNext]_backgroundVars
        => /\ [BriefingNext]_briefingVars /\ [ReminderNext]_reminderVars
           /\ [SnapshotNext]_snapshotVars /\ [ErasureNext]_erasureVars
  <2> SUFFICES ASSUME [BackgroundNext]_backgroundVars
               PROVE  /\ [BriefingNext]_briefingVars /\ [ReminderNext]_reminderVars
                      /\ [SnapshotNext]_snapshotVars /\ [ErasureNext]_erasureVars
    OBVIOUS
  <2>1. CASE UNCHANGED backgroundVars
    BY <2>1 DEF backgroundVars
  <2>2. CASE BackgroundNext
    BY <2>2 DEF BackgroundNext, noBriefing, noReminder, noSnapshot, noErasure
  <2> QED BY <2>1, <2>2
<1> QED BY <1>1, <1>2, PTL DEF BackgroundSpec, BriefingSpec, ReminderSpec, SnapshotSpec, ErasureSpec

(* Every table and every task of the background work has its type           *)
(* (BackgroundTypeOK).                                                      *)
THEOREM BackgroundTyped == BackgroundSpec => []BackgroundTypeOK
<1>1. ReminderSpec => []ReminderTypeOK
  <2>1. ReminderInv => ReminderTypeOK
    BY DEF ReminderInv
  <2> QED BY <2>1, ReminderInvStart, ReminderInvStep, PTL DEF ReminderSpec
<1>2. ErasureSpec => []ErasureTypeOK
  BY ErasureStart, ErasureStep, ErasureTypeStart, ErasureTypeStep, PTL DEF ErasureSpec
<1>3. BriefingTypeOK /\ ReminderTypeOK /\ SnapshotTypeOK /\ ErasureTypeOK => BackgroundTypeOK
  BY DEF BackgroundTypeOK
<1> QED BY <1>1, <1>2, <1>3, BackgroundIsEach, BriefingsTyped, SnapshotTypeCorrect, PTL
=============================================================================
