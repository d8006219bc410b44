---------------------------- MODULE BriefingQueue ----------------------------
(***************************************************************************)
(* The tasks of the queue briefing.generate that write and mail briefings: *)
(* generate_morning_briefings and generate_weekly_briefings (one session   *)
(* per user, then a message for send_briefing_emails), generate_initial_   *)
(* briefing (sent by the processing pipeline) and send_briefing_emails.    *)
(* All are acks_late: a task whose worker dies is delivered again from the *)
(* start.  task_reject_on_worker_lost is not set: when only the child that *)
(* runs the task is killed (out of memory, hard time limit), the worker    *)
(* acknowledges the message and the task is lost.  A step is what a task   *)
(* does between two round trips that another worker can overtake.          *)
(***************************************************************************)
EXTENDS Naturals, FiniteSets

CONSTANTS
    Users,           \* rows of the users table
    EmailUsers,      \* users with email_briefing_enabled
    Schedules,       \* types beat schedules: "morning" (also of the initial one) and "weekly"
    BriefingWorkers, \* processes of the worker (celery worker -Q briefing.generate -c 2)
    MaxBriefings,    \* bound: briefings ever written
    MaxRequests,     \* bound: tasks sent by beat and by the processing pipeline
    MaxTaskFaults,   \* bound: dead workers and refusals, together
    MaxTaskRetries   \* max_retries

ASSUME BriefingAssumption ==
    /\ IsFiniteSet(Users) /\ Users # {} /\ EmailUsers \subseteq Users
    /\ "morning" \in Schedules /\ IsFiniteSet(BriefingWorkers)
    /\ MaxBriefings \in Nat /\ MaxRequests \in Nat
    /\ MaxTaskFaults \in Nat /\ MaxTaskRetries \in Nat

Ids == 1..MaxBriefings                 \* in the order of generated_at

Messages ==
    [task : {"generate"}, type : Schedules, for : {Users}, retries : 0..MaxTaskRetries]
        \cup [task : {"email"}, type : Schedules, for : {EmailUsers}, retries : 0..MaxTaskRetries]
        \cup [task : {"initial"}, type : {"morning"}, for : {{u} : u \in Users},
              retries : 0..MaxTaskRetries]
Rows == [user : Users, type : Schedules, by : {"generate", "initial"}]

NoBriefing == [user |-> CHOOSE u \in Users : TRUE, type |-> "morning", by |-> "generate"]

VARIABLES
    briefings,   \* ids of the committed rows
    row,         \* what the row of an id holds
    sentAt,      \* ids with email_sent_at set
    lastId,      \* ids handed out
    queue,       \* messages waiting, with their number
    worker,      \* the task each process runs
    mails,       \* history: how often the mail service accepted a briefing
    requests,
    lost,        \* history: messages acknowledged for a killed child
    crashes,     \* worker processes that died in a task
    refusals     \* refused mails, failed generations, broker and database errors

briefingTables == <<briefings, row, sentAt, lastId>>
briefingVars == <<briefingTables, queue, worker, mails, requests, lost, crashes, refusals>>

NoTask == [at |-> "free", msg |-> CHOOSE m \in Messages : TRUE, todo |-> {}, id |-> 0]
Runs ==
    [at : {"free", "looping", "writing", "sending", "marking", "unacked"},
     msg : Messages, todo : SUBSET Users, id : 0..MaxBriefings]

BriefingTypeOK ==
    /\ lastId \in 0..MaxBriefings
    /\ briefings \subseteq 1..lastId /\ sentAt \subseteq briefings
    /\ row \in [Ids -> Rows]
    /\ queue \in [Messages -> Nat]
    /\ worker \in [BriefingWorkers -> Runs]
    /\ mails \in [Ids -> Nat]
    /\ requests \in 0..MaxRequests /\ lost \subseteq Messages
    /\ crashes \in Nat /\ refusals \in Nat
    /\ crashes + refusals <= MaxTaskFaults

BriefingInit ==
    /\ briefings = {} /\ row = [i \in Ids |-> NoBriefing] /\ sentAt = {} /\ lastId = 0
    /\ queue = [m \in Messages |-> 0]
    /\ worker = [w \in BriefingWorkers |-> NoTask]
    /\ mails = [i \in Ids |-> 0]
    /\ requests = 0 /\ lost = {} /\ crashes = 0 /\ refusals = 0

Refusal == crashes + refusals < MaxTaskFaults /\ refusals' = refusals + 1

-----------------------------------------------------------------------------
(* Messages.                                                               *)

Message(task, type, S) == [task |-> task, type |-> type, for |-> S, retries |-> 0]

Enqueued(m) == [queue EXCEPT ![m] = @ + 1]

\* self.retry: the same arguments and one more retry, until max_retries.
Retried(m) ==
    IF m.retries < MaxTaskRetries
    THEN Enqueued([m EXCEPT !.retries = @ + 1])
    ELSE queue

\* Celery beat fires a schedule.
Beat(type) ==
    /\ requests < MaxRequests /\ requests' = requests + 1
    /\ queue' = Enqueued(Message("generate", type, Users))
    /\ UNCHANGED <<briefingTables, worker, mails, lost, crashes, refusals>>

\* A processing batch has been dispatched for this user's documents.
RequestInitial(u) ==
    /\ requests < MaxRequests /\ requests' = requests + 1
    /\ queue' = Enqueued(Message("initial", "morning", {u}))
    /\ UNCHANGED <<briefingTables, worker, mails, lost, crashes, refusals>>

Step(w, run) == worker' = [worker EXCEPT ![w] = run]
Continue(w, u) == Step(w, [worker[w] EXCEPT !.at = "looping", !.todo = @ \ {u}, !.id = 0])

\* Mutant: only mailed briefings count.
HasBriefing_OfSchedule(u) == \E i \in sentAt : row[i].user = u

HasBriefing(u) == \E i \in briefings : row[i].user = u

\* A process takes a message.  The bulk tasks load their users; the initial one
\* returns at once when its user has any briefing.
Take(w, m) ==
    /\ worker[w].at = "free" /\ queue[m] > 0
    /\ queue' = [queue EXCEPT ![m] = @ - 1]
    /\ Step(w, [NoTask EXCEPT
                  !.msg = m,
                  !.at = "looping",
                  !.todo = IF m.task = "initial" /\ \E u \in m.for : HasBriefing(u)
                           THEN {} ELSE m.for])
    /\ UNCHANGED <<briefingTables, mails, requests, lost, crashes, refusals>>

-----------------------------------------------------------------------------
(* Generation.                                                             *)

Generating(w) == worker[w].at = "looping" /\ worker[w].msg.task \in {"generate", "initial"}
UserOf(w) == row[worker[w].id].user

\* The LLM has answered and the row is flushed in the task's own session.
Generate(w, u) ==
    /\ Generating(w) /\ u \in worker[w].todo
    /\ lastId < MaxBriefings
    /\ lastId' = lastId + 1
    /\ row' = [row EXCEPT ![lastId'] =
                 [user |-> u, type |-> worker[w].msg.type, by |-> worker[w].msg.task]]
    /\ Step(w, [worker[w] EXCEPT !.at = "writing", !.id = lastId'])
    /\ UNCHANGED <<briefings, sentAt, queue, mails, requests, lost, crashes, refusals>>

CommitBriefing(w) ==
    /\ worker[w].at = "writing"
    /\ briefings' = briefings \cup {worker[w].id}
    /\ Continue(w, UserOf(w))
    /\ UNCHANGED <<row, sentAt, lastId, queue, mails, requests, lost, crashes, refusals>>

\* An exception in the body: the bulk tasks count it and go on with the next
\* user; the initial task is retried as a whole.
GenerationFails(w) ==
    /\ Refusal
    /\ \/ /\ Generating(w)
          /\ \E u \in worker[w].todo :
                IF worker[w].msg.task = "generate"
                THEN Continue(w, u) /\ UNCHANGED queue
                ELSE Step(w, NoTask) /\ queue' = Retried(worker[w].msg)
       \/ /\ worker[w].at = "writing"
          /\ IF worker[w].msg.task = "generate"
             THEN Continue(w, UserOf(w)) /\ UNCHANGED queue
             ELSE Step(w, NoTask) /\ queue' = Retried(worker[w].msg)
    /\ UNCHANGED <<briefingTables, mails, requests, lost, crashes>>

\* All users done: send_briefing_emails.delay, inside the same try.
Finish(w) ==
    /\ worker[w].at = "looping" /\ worker[w].todo = {}
    /\ Step(w, [worker[w] EXCEPT !.at = "unacked"])
    /\ queue' = IF worker[w].msg.task = "generate"
                THEN Enqueued(Message("email", worker[w].msg.type, EmailUsers))
                ELSE queue
    /\ UNCHANGED <<briefingTables, mails, requests, lost, crashes, refusals>>

\* The broker refuses the message: the generation is retried from the start.
DispatchFails(w) ==
    /\ worker[w].at = "looping" /\ worker[w].todo = {} /\ worker[w].msg.task = "generate"
    /\ Refusal
    /\ Step(w, NoTask)
    /\ queue' = Retried(worker[w].msg)
    /\ UNCHANGED <<briefingTables, mails, requests, lost, crashes>>

Acknowledge(w) ==
    /\ worker[w].at = "unacked"
    /\ Step(w, NoTask)
    /\ UNCHANGED <<briefingTables, queue, mails, requests, lost, crashes, refusals>>

-----------------------------------------------------------------------------
(* Mail.                                                                   *)

\* Mutant: the filter on email_sent_at is lost.
Unsent_AnyBriefing(u, type) == {i \in briefings : row[i].user = u /\ row[i].type = type}

Unsent(u, type) == {i \in briefings \ sentAt : row[i].user = u /\ row[i].type = type}

\* Mutant: ordered by generated_at ascending.
Newest_Oldest(S) == {i \in S : \A j \in S : i <= j}

Newest(S) == {i \in S : \A j \in S : j <= i}

\* The latest unsent briefing of one user, read in a session of its own.
ReadUnsent(w, u) ==
    /\ worker[w].at = "looping" /\ worker[w].msg.task = "email" /\ u \in worker[w].todo
    /\ LET found == Unsent(u, worker[w].msg.type)
       IN IF found = {}
          THEN Continue(w, u)
          ELSE \E i \in Newest(found) : Step(w, [worker[w] EXCEPT !.at = "sending", !.id = i])
    /\ UNCHANGED <<briefingTables, queue, mails, requests, lost, crashes, refusals>>

SendMail(w) ==
    /\ worker[w].at = "sending"
    /\ mails' = [mails EXCEPT ![worker[w].id] = @ + 1]
    /\ Step(w, [worker[w] EXCEPT !.at = "marking"])
    /\ UNCHANGED <<briefingTables, queue, requests, lost, crashes, refusals>>

\* Mutant: the mark is set on the next row.
MarkSent_NextRow(w) ==
    /\ worker[w].at = "marking"
    /\ sentAt' = sentAt \cup {worker[w].id + 1}
    /\ Continue(w, UserOf(w))
    /\ UNCHANGED <<briefings, row, lastId, queue, mails, requests, lost, crashes, refusals>>

\* email_sent_at is set in another session.
MarkSent(w) ==
    /\ worker[w].at = "marking"
    /\ sentAt' = sentAt \cup {worker[w].id}
    /\ Continue(w, UserOf(w))
    /\ UNCHANGED <<briefings, row, lastId, queue, mails, requests, lost, crashes, refusals>>

\* The mail service refuses, or the mark is not stored: on to the next user.
MailFails(w) ==
    /\ worker[w].at \in {"sending", "marking"}
    /\ Refusal
    /\ Continue(w, UserOf(w))
    /\ UNCHANGED <<briefingTables, queue, mails, requests, lost, crashes>>

-----------------------------------------------------------------------------
\* A process dies and its session is rolled back.  The broker delivers the
\* unacknowledged message again if the whole worker is gone; if only the child is,
\* the worker acknowledges it.
Crash(w) ==
    /\ worker[w].at # "free"
    /\ crashes + refusals < MaxTaskFaults /\ crashes' = crashes + 1
    /\ Step(w, NoTask)
    /\ \/ queue' = Enqueued(worker[w].msg) /\ UNCHANGED lost
       \/ lost' = lost \cup {worker[w].msg} /\ UNCHANGED queue
    /\ UNCHANGED <<briefingTables, mails, requests, refusals>>

RunTask(w) ==
    \/ \E m \in Messages : Take(w, m)
    \/ \E u \in Users : Generate(w, u) \/ ReadUnsent(w, u)
    \/ CommitBriefing(w) \/ SendMail(w) \/ MarkSent(w) \/ Finish(w) \/ Acknowledge(w)

BriefingNext ==
    \/ \E type \in Schedules : Beat(type)
    \/ \E u \in Users : RequestInitial(u)
    \/ \E w \in BriefingWorkers :
         RunTask(w) \/ GenerationFails(w) \/ DispatchFails(w) \/ MailFails(w) \/ Crash(w)

BriefingSpec == BriefingInit /\ [][BriefingNext]_briefingVars

\* Celery runs what is queued and a task goes on; users, beat and failures are free.
BriefingFairness == \A w \in BriefingWorkers : WF_briefingVars(RunTask(w))
BriefingFairSpec == BriefingSpec /\ BriefingFairness

-----------------------------------------------------------------------------
(* Properties.                                                             *)

\* email_sent_at is read, the mail is sent and the mark is set in three steps.
\* Overlapping tasks and tasks that are delivered again may mail a briefing more
\* than once, but each extra mail needs a process of its own that read the
\* briefing before the mark, or a failure (_send_briefing_emails_async).
MailsBounded ==
    \A i \in Ids : mails[i] <= Cardinality(BriefingWorkers) + crashes + refusals

\* generate_initial_briefing counts the user's briefings and inserts one later:
\* however many batches ask for it and however often it is retried, there are
\* never more initial briefings than processes that can be past the check.
InitialBounded ==
    \A u \in Users :
        Cardinality({i \in briefings : row[i].user = u /\ row[i].by = "initial"})
            <= Cardinality(BriefingWorkers)

\* The latest briefing of a type, if a schedule has written it, does not stay unsent
\* where the user wants mail, unless something refused or a generating or mailing
\* task of that type was lost with its child; a worker that dies as a whole is no
\* excuse (generate_morning_briefings, send_briefing_emails).
OfType(u, type) == {i \in briefings : row[i].user = u /\ row[i].type = type}
LatestUnsent(u, type) ==
    \E i \in OfType(u, type) \ sentAt :
        row[i].by = "generate" /\ \A j \in OfType(u, type) : j <= i
ScheduledIsMailed ==
    \A u \in EmailUsers, type \in Schedules :
        LatestUnsent(u, type) ~>
            \/ ~LatestUnsent(u, type) \/ refusals > 0
            \/ \E m \in lost : m.type = type /\ m.task # "initial"
=============================================================================
