---------------------------- MODULE SnapshotWindow ----------------------------
(***************************************************************************)
(* The knowledge snapshots of one user: capture_snapshot with its rolling  *)
(* window, called weekly by the worker and by POST /snapshots, and the     *)
(* user's DELETE.  A capture is one transaction: INSERT, count, select the *)
(* oldest, DELETE, commit.  A second capture that deletes the same rows    *)
(* waits for the first one, so the DELETE and the commit are one step.     *)
(***************************************************************************)
EXTENDS Naturals, FiniteSets

CONSTANTS
    Captures,     \* captures that may overlap
    WindowSize,   \* MAX_SNAPSHOTS_PER_USER
    MaxSnapshots  \* bound: snapshots ever taken

ASSUME SnapshotAssumption ==
    /\ IsFiniteSet(Captures) /\ WindowSize \in Nat \ {0} /\ MaxSnapshots \in Nat

SnapshotIds == 1..MaxSnapshots   \* in the order of captured_at

VARIABLES
    snapshots,     \* committed rows
    lastSnapshot,  \* ids handed out
    capture,       \* per transaction: its row and the rows it will delete
    userDeleted    \* history: the user has deleted a snapshot

snapshotVars == <<snapshots, lastSnapshot, capture, userDeleted>>

NoCapture == [at |-> "idle", id |-> 0, total |-> 0, oldest |-> {}]

SnapshotTypeOK ==
    /\ lastSnapshot \in 0..MaxSnapshots
    /\ snapshots \subseteq 1..lastSnapshot
    /\ capture \in [Captures -> [at : {"idle", "inserted", "counted", "selected"}, id : 0..MaxSnapshots,
                                 total : 0..MaxSnapshots, oldest : SUBSET SnapshotIds]]
    /\ userDeleted \in BOOLEAN

SnapshotInit ==
    /\ snapshots = {} /\ lastSnapshot = 0 /\ userDeleted = FALSE
    /\ capture = [c \in Captures |-> NoCapture]

Visible(c) == snapshots \cup {capture[c].id}

\* Mutant: the new row is not counted.
Excess_BeforeInsert(c) ==
    IF capture[c].total <= WindowSize + 1 THEN 0 ELSE capture[c].total - WindowSize - 1

\* Mutant: the limit of the selection is the count itself.
Excess_Total(c) == IF capture[c].total <= WindowSize THEN 0 ELSE capture[c].total

\* The rows a capture finds beyond the window, oldest first.
Excess(c) == IF capture[c].total <= WindowSize THEN 0 ELSE capture[c].total - WindowSize

Oldest(S, n) == {i \in S : Cardinality({j \in S : j < i}) < n}

Insert(c) ==
    /\ capture[c].at = "idle" /\ lastSnapshot < MaxSnapshots
    /\ lastSnapshot' = lastSnapshot + 1
    /\ capture' = [capture EXCEPT ![c] = [NoCapture EXCEPT !.at = "inserted", !.id = lastSnapshot']]
    /\ UNCHANGED <<snapshots, userDeleted>>

Count(c) ==
    /\ capture[c].at = "inserted"
    /\ capture' = [capture EXCEPT ![c].at = "counted", ![c].total = Cardinality(Visible(c))]
    /\ UNCHANGED <<snapshots, lastSnapshot, userDeleted>>

SelectOldest(c) ==
    /\ capture[c].at = "counted"
    /\ capture' = [capture EXCEPT ![c].at = "selected", ![c].oldest = Oldest(Visible(c), Excess(c))]
    /\ UNCHANGED <<snapshots, lastSnapshot, userDeleted>>

DeleteAndCommit(c) ==
    /\ capture[c].at = "selected"
    /\ snapshots' = Visible(c) \ capture[c].oldest
    /\ capture' = [capture EXCEPT ![c] = NoCapture]
    /\ UNCHANGED <<lastSnapshot, userDeleted>>

CaptureFails(c) ==
    /\ capture[c].at # "idle"
    /\ capture' = [capture EXCEPT ![c] = NoCapture]
    /\ UNCHANGED <<snapshots, lastSnapshot, userDeleted>>

\* DELETE /snapshots/{id}.
UserDeletes(i) ==
    /\ i \in snapshots
    /\ snapshots' = snapshots \ {i} /\ userDeleted' = TRUE
    /\ UNCHANGED <<lastSnapshot, capture>>

SnapshotNext ==
    \/ \E c \in Captures :
         Insert(c) \/ Count(c) \/ SelectOldest(c) \/ DeleteAndCommit(c) \/ CaptureFails(c)
    \/ \E i \in SnapshotIds : UserDeletes(i)

SnapshotSpec == SnapshotInit /\ [][SnapshotNext]_snapshotVars

-----------------------------------------------------------------------------
(* Properties.                                                             *)

\* Captures that overlap do not see each other's row; the window may be exceeded
\* by one row for each further capture and no more (_enforce_rolling_window).
WindowBounded == Cardinality(snapshots) <= WindowSize + Cardinality(Captures) - 1

\* A capture that deletes with a count that is out of date takes too many rows.
\* Two overlapping captures take the window one row too far down; more of them may
\* all hold a stale count, and each takes as many rows too many as the others have
\* added, so that three captures can empty a window of three
\* (_enforce_rolling_window).  Nothing takes it down further than this.
LowestWindow == WindowSize - (Cardinality(Captures) - 1) * (Cardinality(Captures) - 1)

ShrinkBounded ==
    [][~userDeleted' /\ Cardinality(snapshots) >= LowestWindow
         => Cardinality(snapshots') >= LowestWindow]_snapshotVars
=============================================================================
