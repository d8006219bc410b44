----------------------------- MODULE MCBackground -----------------------------
(***************************************************************************)
(* The background work that shares no table with another: the briefing     *)
(* queue, the reminders, the snapshots and the erasure of an account.  A   *)
(* behaviour is about the component in focus; the others rest in their     *)
(* initial state, so one run checks each of them on its own state space.   *)
(***************************************************************************)
EXTENDS BriefingQueue, ReminderEngine, SnapshotWindow, AccountErasure

VARIABLE focus

noBriefing == <<reminderVars, snapshotVars, erasureVars>>
noReminder == <<briefingVars, snapshotVars, erasureVars>>
noSnapshot == <<briefingVars, reminderVars, erasureVars>>
noErasure == <<briefingVars, reminderVars, snapshotVars>>
backgroundVars == <<focus, briefingVars, reminderVars, snapshotVars, erasureVars>>

BackgroundInit ==
    /\ focus \in {"briefing", "reminder", "snapshot", "erasure"}
    /\ BriefingInit /\ ReminderInit /\ SnapshotInit /\ ErasureInit

BackgroundNext ==
    /\ UNCHANGED focus
    /\ \/ focus = "briefing" /\ BriefingNext /\ UNCHANGED noBriefing
       \/ focus = "reminder" /\ ReminderNext /\ UNCHANGED noReminder
       \/ focus = "snapshot" /\ SnapshotNext /\ UNCHANGED noSnapshot
       \/ focus = "erasure" /\ ErasureNext /\ UNCHANGED noErasure

\* The fairness of the component in focus (BriefingFairness, ReminderFairness,
\* ErasureFairness), over all the variables.
BackgroundSpec ==
    /\ BackgroundInit /\ [][BackgroundNext]_backgroundVars
    /\ \A w \in BriefingWorkers :
         WF_backgroundVars(focus = "briefing" /\ RunTask(w) /\ UNCHANGED <<focus, noBriefing>>)
    /\ \A e \in Engines :
         WF_backgroundVars(focus = "reminder" /\ RunEngine(e) /\ UNCHANGED <<focus, noReminder>>)
    /\ \A x \in Exports :
         WF_backgroundVars(focus = "erasure" /\ RunExport(x) /\ UNCHANGED <<focus, noErasure>>)

BackgroundTypeOK == BriefingTypeOK /\ ReminderTypeOK /\ SnapshotTypeOK /\ ErasureTypeOK
=============================================================================
