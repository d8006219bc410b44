----------------------------- MODULE VaultWatcher -----------------------------
(***************************************************************************)
(* The local mode of the Obsidian connector: the observer thread appends   *)
(* file events under a lock, process_watcher_events drains them and keeps  *)
(* the set of deleted paths, fetch_since scans the vault by modification   *)
(* time and reports the deleted paths.  The caller that alternates the two *)
(* is external; the user changes files at any time.                        *)
(***************************************************************************)
EXTENDS Naturals, Sequences, SequencesExt

CONSTANTS
    Files,          \* Markdown files, by their path in the vault
    MaxFileChanges  \* bound: changes the user makes

ASSUME WatcherAssumption == MaxFileChanges \in Nat

Events == [path : Files, type : {"created", "modified", "deleted"}]

VARIABLES
    vault,        \* files on disk
    changed,      \* files modified since the watermark
    observed,     \* events the operating system has yet to deliver
    watching,     \* the observer thread runs
    draining,     \* drain_events holds the lock: copied, not cleared
    events,       \* the handler's list
    drained,      \* the copy process_watcher_events works on
    deletedPaths, \* _deleted_paths
    scanning,     \* fetch_since has listed the files and not yet the deleted paths
    lastDoc,      \* per path: what the last document said
    missed,       \* history: deletions that gave no event, or whose event was discarded
    fileChanges

vaultFiles == <<vault, changed, observed, missed, fileChanges>>
watcherVars == <<vaultFiles, watching, draining, events, drained, deletedPaths, scanning, lastDoc>>

WatcherTypeOK ==
    /\ vault \subseteq Files /\ changed \subseteq Files /\ missed \subseteq Files
    /\ observed \in Seq(Events) /\ events \in Seq(Events) /\ drained \in Seq(Events)
    /\ watching \in BOOLEAN /\ scanning \in BOOLEAN
    /\ draining \in BOOLEAN
    /\ deletedPaths \subseteq Files
    /\ lastDoc \in [Files -> {"none", "present", "deleted"}]
    /\ fileChanges \in 0..MaxFileChanges

WatcherInit ==
    /\ vault = {} /\ changed = {} /\ observed = <<>> /\ watching = FALSE /\ draining = FALSE
    /\ events = <<>> /\ drained = <<>> /\ deletedPaths = {} /\ scanning = FALSE
    /\ lastDoc = [f \in Files |-> "none"] /\ missed = {} /\ fileChanges = 0

-----------------------------------------------------------------------------
(* The user.                                                               *)

Notify(f, type) ==
    observed' = IF watching THEN Append(observed, [path |-> f, type |-> type]) ELSE observed

\* A file that is moved here keeps its modification time.
Write(f) ==
    /\ fileChanges < MaxFileChanges /\ fileChanges' = fileChanges + 1
    /\ vault' = vault \cup {f}
    /\ changed' \in {changed \cup {f}} \cup (IF f \in vault THEN {} ELSE {changed})
    /\ Notify(f, IF f \in vault THEN "modified" ELSE "created")
    /\ missed' = missed \ {f}
    /\ UNCHANGED <<watching, draining, events, drained, deletedPaths, scanning, lastDoc>>

\* A move is a deletion of one path and a creation of another.
Delete(f) ==
    /\ f \in vault
    /\ fileChanges < MaxFileChanges /\ fileChanges' = fileChanges + 1
    /\ vault' = vault \ {f} /\ changed' = changed \ {f}
    /\ Notify(f, "deleted")
    /\ missed' = IF watching THEN missed ELSE missed \cup {f}
    /\ UNCHANGED <<watching, draining, events, drained, deletedPaths, scanning, lastDoc>>

\* A folder is moved out of the vault with its files: the operating system tells of
\* the folder alone, and the handler returns on the event of a directory.
MoveFolderOut(S) ==
    /\ S # {} /\ S \subseteq vault
    /\ fileChanges < MaxFileChanges /\ fileChanges' = fileChanges + 1
    /\ vault' = vault \ S /\ changed' = changed \ S
    /\ missed' = missed \cup S
    /\ UNCHANGED <<observed, watching, draining, events, drained, deletedPaths, scanning, lastDoc>>

-----------------------------------------------------------------------------
(* The observer thread.                                                    *)

\* Mutant: the lock is ignored.
LockFree_Ignored == TRUE

LockFree == ~draining

AppendEvent ==
    /\ LockFree /\ observed # <<>>
    /\ events' = Append(events, Head(observed))
    /\ observed' = Tail(observed)
    /\ UNCHANGED <<vault, changed, missed, fileChanges, watching, draining, drained, deletedPaths,
                   scanning, lastDoc>>

-----------------------------------------------------------------------------
(* The thread of the event loop.                                           *)

Between == ~draining /\ drained = <<>> /\ ~scanning

StartWatcher ==
    /\ Between /\ ~watching /\ watching' = TRUE
    /\ UNCHANGED <<vaultFiles, draining, events, drained, deletedPaths, scanning, lastDoc>>

\* stop joins the thread; the events of the discarded handler are lost.
Lost == {f \in Files : \E e \in ToSet(events \o observed) : e.path = f /\ e.type = "deleted"}

StopWatcher ==
    /\ Between /\ watching
    /\ watching' = FALSE
    /\ missed' = missed \cup (Lost \ vault)
    /\ events' = <<>> /\ observed' = <<>>
    /\ UNCHANGED <<vault, changed, fileChanges, draining, drained, deletedPaths, scanning, lastDoc>>

\* drain_events: copy and clear under the lock.
CopyEvents ==
    /\ Between /\ events # <<>>
    /\ draining' = TRUE /\ drained' = events
    /\ UNCHANGED <<vaultFiles, watching, events, deletedPaths, scanning, lastDoc>>

ClearEvents ==
    /\ draining /\ draining' = FALSE
    /\ events' = <<>>
    /\ UNCHANGED <<vaultFiles, watching, drained, deletedPaths, scanning, lastDoc>>

\* The set after one event; another type than "deleted" takes the path out.
After(S, e) == IF e.type = "deleted" THEN S \cup {e.path} ELSE S \ {e.path}

ProcessEvents ==
    /\ drained # <<>> /\ ~draining
    /\ deletedPaths' = FoldLeft(After, deletedPaths, drained)
    /\ drained' = <<>>
    /\ UNCHANGED <<vaultFiles, watching, draining, events, scanning, lastDoc>>

\* fetch_since: first the files newer than the watermark, then the deleted paths.
ScanVault ==
    /\ Between
    /\ lastDoc' = [f \in Files |-> IF f \in changed THEN "present" ELSE lastDoc[f]]
    /\ changed' = {} /\ scanning' = TRUE
    /\ UNCHANGED <<vault, observed, missed, fileChanges, watching, draining, events, drained, deletedPaths>>

ReportDeleted ==
    /\ scanning /\ scanning' = FALSE
    /\ lastDoc' = [f \in Files |-> IF f \in deletedPaths THEN "deleted" ELSE lastDoc[f]]
    /\ deletedPaths' = {}
    /\ UNCHANGED <<vaultFiles, watching, draining, events, drained>>

WatcherNext ==
    \/ \E f \in Files : Write(f) \/ Delete(f)
    \/ \E S \in SUBSET Files : MoveFolderOut(S)
    \/ AppendEvent
    \/ StartWatcher \/ StopWatcher
    \/ CopyEvents \/ ClearEvents \/ ProcessEvents \/ ScanVault \/ ReportDeleted

WatcherSpec == WatcherInit /\ [][WatcherNext]_watcherVars

-----------------------------------------------------------------------------
(* Properties.                                                             *)

\* Everything still on its way, oldest first, applied to the deleted paths.  The
\* copy and the list are the same events until the list is cleared.
Pending ==
    FoldLeft(After, deletedPaths,
             (IF draining THEN events ELSE drained \o events) \o observed)

\* A file that was reported and is gone from the disk is on its way to be reported
\* as deleted, however its events, the drain and the scan interleave, unless its
\* deletion fell into a time without watcher, its event was discarded with a stopped
\* watcher, or it left with its folder (_handle, drain_events, fetch_since).
DeletionAccounted ==
    \A f \in Files : lastDoc[f] = "present" /\ f \notin vault => f \in Pending \cup missed
=============================================================================
