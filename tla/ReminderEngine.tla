---------------------------- MODULE ReminderEngine ----------------------------
(***************************************************************************)
(* The reminders of one user: run_trigger_engine, run daily by the worker  *)
(* and on demand by POST /reminders/trigger, and the status changes of the *)
(* user.  An engine run is one transaction of several statements; each     *)
(* statement sees what is committed when it runs.                          *)
(***************************************************************************)
EXTENDS Naturals, FiniteSets

CONSTANTS
    Topics,       \* entities that may become inactive
    FollowUps,    \* reminders of type follow_up
    Engines,      \* engine runs that may overlap
    MaxReminders, \* bound: topic reminders ever created
    MaxEngineFailures \* bound: engine runs that raise or whose process dies

ASSUME ReminderAssumption ==
    /\ IsFiniteSet(Topics) /\ Topics # {} /\ IsFiniteSet(Engines) /\ MaxReminders \in Nat
    /\ MaxReminders >= Cardinality(Engines) * Cardinality(Topics)   \* see RoomForMore
    /\ MaxEngineFailures \in Nat

ReminderIds == 1..MaxReminders
Statuses == {"pending", "snoozed", "closed"}   \* closed: acknowledged or dismissed

VARIABLES
    inactive,    \* topics last seen more than thirty days ago
    lastReminder,
    topicOf,     \* topic reminders: metadata.entity_id
    topicStatus, \* and their status
    untouched,   \* history: topic reminders whose status nobody has changed
    followUp,    \* the follow-ups: status, whether due, urgency
    engine,
    engineFailures

topicRows == <<lastReminder, topicOf, topicStatus, untouched>>
reminderVars == <<inactive, topicRows, followUp, engine, engineFailures>>

IdleEngine == [at |-> "idle", overdue |-> {}, stale |-> {}, plan |-> {}]

ReminderTypeOK ==
    /\ inactive \subseteq Topics
    /\ lastReminder \in 0..MaxReminders
    /\ topicOf \in [ReminderIds -> Topics]
    /\ topicStatus \in [ReminderIds -> Statuses]
    /\ untouched \subseteq 1..lastReminder
    /\ followUp \in [FollowUps -> [status : Statuses, due : BOOLEAN, high : BOOLEAN]]
    /\ engine \in [Engines -> [at : {"idle", "selected", "planned"}, overdue : SUBSET FollowUps,
                               stale : SUBSET Topics, plan : SUBSET Topics]]
    /\ engineFailures \in 0..MaxEngineFailures

ReminderInit ==
    /\ inactive = {} /\ lastReminder = 0
    /\ topicOf = [r \in ReminderIds |-> CHOOSE t \in Topics : TRUE]
    /\ topicStatus = [r \in ReminderIds |-> "pending"]
    /\ untouched = {}
    /\ followUp = [f \in FollowUps |-> [status |-> "pending", due |-> FALSE, high |-> FALSE]]
    /\ engine = [e \in Engines |-> IdleEngine] /\ engineFailures = 0

-----------------------------------------------------------------------------
\* Thirty days pass without a mention, or the topic is mentioned again.
TopicChanges(t) ==
    /\ inactive' = IF t \in inactive THEN inactive \ {t} ELSE inactive \cup {t}
    /\ UNCHANGED <<topicRows, followUp, engine, engineFailures>>

FallsDue(f) ==
    /\ ~followUp[f].due
    /\ followUp' = [followUp EXCEPT ![f].due = TRUE]
    /\ UNCHANGED <<inactive, topicRows, engine, engineFailures>>

Existing == 1..lastReminder

\* Mutant: the reminders the engine itself has created are not found.
PendingFor_Untouched(t) == {r \in Existing \ untouched : topicOf[r] = t /\ topicStatus[r] = "pending"}

PendingFor(t) == {r \in Existing : topicOf[r] = t /\ topicStatus[r] = "pending"}

\* Mutant: the comparison of due_at is turned around.
Overdue_NotDue(f) == followUp[f].status = "pending" /\ ~followUp[f].due

Overdue(f) == followUp[f].status = "pending" /\ followUp[f].due

\* The first two SELECTs: overdue follow-ups and inactive entities.
SelectDue(e) ==
    /\ engine[e].at = "idle"
    /\ engine' = [engine EXCEPT ![e] = [IdleEngine EXCEPT !.at = "selected",
                                          !.overdue = {f \in FollowUps : Overdue(f)},
                                          !.stale = inactive]]
    /\ UNCHANGED <<inactive, topicRows, followUp, engineFailures>>

\* The third: topics with a pending reminder are left out.
SelectExisting(e) ==
    /\ engine[e].at = "selected"
    /\ engine' = [engine EXCEPT ![e].at = "planned",
                                ![e].plan = {t \in engine[e].stale : PendingFor(t) = {}}]
    /\ UNCHANGED <<inactive, topicRows, followUp, engineFailures>>

\* The rows are inserted in any order; create_reminder starts them as pending.
Numbered(S, n) == {f \in [S -> n + 1 .. n + Cardinality(S)] :
                    \A s, t \in S : f[s] = f[t] => s = t}

CommitReminders(e) ==
    /\ engine[e].at = "planned"
    /\ lastReminder' = lastReminder + Cardinality(engine[e].plan)
    /\ \E id \in Numbered(engine[e].plan, lastReminder) :
         /\ topicOf' = [r \in ReminderIds |->
                          IF \E t \in engine[e].plan : id[t] = r
                          THEN CHOOSE t \in engine[e].plan : id[t] = r
                          ELSE topicOf[r]]
         /\ untouched' = untouched \cup {id[t] : t \in engine[e].plan}
    /\ followUp' = [f \in FollowUps |-> IF f \in engine[e].overdue
                                        THEN [followUp[f] EXCEPT !.high = TRUE]
                                        ELSE followUp[f]]
    /\ engine' = [engine EXCEPT ![e] = IdleEngine]
    /\ UNCHANGED <<inactive, topicStatus, engineFailures>>

\* An exception or a crash before the commit.
EngineFails(e) ==
    /\ engine[e].at # "idle"
    /\ engineFailures < MaxEngineFailures /\ engineFailures' = engineFailures + 1
    /\ engine' = [engine EXCEPT ![e] = IdleEngine]
    /\ UNCHANGED <<inactive, topicRows, followUp>>

\* Bound: the user stops changing topic reminders before the engine runs out of ids.
RoomForMore == lastReminder + Cardinality(Engines) * Cardinality(Topics) <= MaxReminders

\* PATCH /reminders/{id}: any status may be set, snoozing moves the due date.
PatchTopic(r, s) ==
    /\ r \in Existing /\ RoomForMore
    /\ topicStatus' = [topicStatus EXCEPT ![r] = s]
    /\ untouched' = untouched \ {r}
    /\ UNCHANGED <<inactive, lastReminder, topicOf, followUp, engine, engineFailures>>

PatchFollowUp(f, s) ==
    /\ followUp' = [followUp EXCEPT ![f].status = s, ![f].due = @ /\ s # "snoozed"]
    /\ UNCHANGED <<inactive, topicRows, engine, engineFailures>>

RunEngine(e) == SelectDue(e) \/ SelectExisting(e) \/ CommitReminders(e)

ReminderNext ==
    \/ \E t \in Topics : TopicChanges(t)
    \/ \E f \in FollowUps : FallsDue(f) \/ \E s \in Statuses : PatchFollowUp(f, s)
    \/ \E r \in ReminderIds, s \in Statuses : PatchTopic(r, s)
    \/ \E e \in Engines : RunEngine(e) \/ EngineFails(e)

ReminderSpec == ReminderInit /\ [][ReminderNext]_reminderVars

\* Beat starts the engine every day, and a run that is not killed goes on.
ReminderFairness == \A e \in Engines : WF_reminderVars(RunEngine(e))

-----------------------------------------------------------------------------
(* Properties.                                                             *)

\* The check for a pending reminder and the INSERT are two statements: overlapping
\* runs may remind of one topic several times, but never more often than there
\* are runs (run_trigger_engine).
PendingBounded ==
    \A t \in Topics :
        Cardinality({r \in untouched : topicOf[r] = t}) <= Cardinality(Engines)

\* A follow-up that is overdue is escalated, unless the user deals with it or
\* snoozes it, even if runs fail in between.
Waiting(f) == followUp[f].due /\ followUp[f].status = "pending" /\ ~followUp[f].high
OverdueEscalates == \A f \in FollowUps : Waiting(f) ~> ~Waiting(f)
=============================================================================
