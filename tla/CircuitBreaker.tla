--------------------------- MODULE CircuitBreaker ---------------------------
(***************************************************************************)
(* The in-memory circuit breaker of pwbs/connectors/resilience.py, shared  *)
(* by several coroutines of one event loop.  A step is what runs between   *)
(* two awaits: entering `call`, the completion of the wrapped function, or *)
(* the end of a back-off sleep.                                            *)
(*                                                                         *)
(* Time is abstracted to one bit: `recovered` says that at least           *)
(* recovery_timeout seconds have passed since _opened_at.  The failure     *)
(* counter is only ever incremented, zeroed and compared with the          *)
(* threshold, so it saturates at FailureThreshold.                         *)
(***************************************************************************)
EXTENDS Naturals

CONSTANTS
    Callers,           \* coroutines that share the breaker
    FailureThreshold,  \* failure_threshold
    MaxRetries,        \* len(retry_delays)
    CanReset           \* whether an operator may call reset()

ASSUME BreakerAssumption ==
    /\ FailureThreshold \in Nat \ {0}
    /\ MaxRetries \in Nat
    /\ CanReset \in BOOLEAN

VARIABLES
    state,         \* _state
    failureCount,  \* _failure_count, saturating
    recovered,     \* monotonic() - _opened_at >= _recovery_timeout
    pc,            \* where each coroutine is
    attempt,       \* loop variable of _closed_call
    result         \* how each coroutine's last call ended

vars == <<state, failureCount, recovered, pc, attempt, result>>
breaker == <<state, failureCount, recovered>>

States == {"closed", "open", "half_open"}
Results == {"none", "value", "circuit_open", "exhausted", "passed_through"}

TypeOK ==
    /\ state \in States
    /\ failureCount \in 0..FailureThreshold
    /\ recovered \in BOOLEAN
    /\ pc \in [Callers -> {"idle", "calling", "sleeping", "probing"}]
    /\ attempt \in [Callers -> 0..MaxRetries]
    /\ result \in [Callers -> Results]

Init ==
    /\ state = "closed"
    /\ failureCount = 0
    /\ recovered = FALSE
    /\ pc = [c \in Callers |-> "idle"]
    /\ attempt = [c \in Callers |-> 0]
    /\ result = [c \in Callers |-> "none"]

-----------------------------------------------------------------------------
(* The breaker's own operations on its three fields.                       *)

\* The `state` property: reading it moves an expired OPEN to HALF_OPEN.
EffectiveState == IF state = "open" /\ recovered THEN "half_open" ELSE state

\* The next value of _failure_count.
Incremented == IF failureCount < FailureThreshold
               THEN failureCount + 1 ELSE failureCount

OpenCircuit == state' = "open" /\ recovered' = FALSE

\* Mutant: a success closes the circuit but forgets to zero the counter.
RecordSuccess_KeepsCount == state' = "closed" /\ UNCHANGED <<failureCount, recovered>>

RecordSuccess == failureCount' = 0 /\ state' = "closed" /\ UNCHANGED recovered

RecordFailure ==
    /\ failureCount' = Incremented
    /\ IF Incremented >= FailureThreshold
       THEN OpenCircuit
       ELSE UNCHANGED <<state, recovered>>

Return(c, r) ==
    /\ pc' = [pc EXCEPT ![c] = "idle"]
    /\ result' = [result EXCEPT ![c] = r]

-----------------------------------------------------------------------------
(* call()                                                                  *)

Reject(c) ==
    /\ pc[c] = "idle"
    /\ EffectiveState = "open"
    /\ Return(c, "circuit_open")
    /\ UNCHANGED <<state, failureCount, recovered, attempt>>

Enter(c) ==
    /\ pc[c] = "idle"
    /\ EffectiveState # "open"
    /\ state' = EffectiveState
    /\ pc' = [pc EXCEPT ![c] = IF EffectiveState = "closed"
                               THEN "calling" ELSE "probing"]
    /\ attempt' = [attempt EXCEPT ![c] = 0]
    /\ result' = [result EXCEPT ![c] = "none"]
    /\ UNCHANGED <<failureCount, recovered>>

(* _closed_call: the function, its retries and the back-off between them.  *)

CallSucceeds(c) ==
    /\ pc[c] = "calling"
    /\ RecordSuccess
    /\ Return(c, "value")
    /\ UNCHANGED attempt

\* Mutant: the retry loop runs once more than there are delays.
CallFails_OneRetryTooMany(c) ==
    /\ pc[c] = "calling"
    /\ RecordFailure
    /\ CASE state' = "open" ->
              Return(c, "circuit_open")
         [] state' # "open" /\ attempt[c] <= MaxRetries ->
              pc' = [pc EXCEPT ![c] = "sleeping"] /\ UNCHANGED result
         [] OTHER ->
              Return(c, "exhausted")
    /\ UNCHANGED attempt

\* A tracked exception: count it, then stop, sleep or give up.
CallFails(c) ==
    /\ pc[c] = "calling"
    /\ RecordFailure
    /\ CASE state' = "open" ->
              Return(c, "circuit_open")
         [] state' # "open" /\ attempt[c] < MaxRetries ->
              pc' = [pc EXCEPT ![c] = "sleeping"] /\ UNCHANGED result
         [] OTHER ->
              Return(c, "exhausted")
    /\ UNCHANGED attempt

\* Mutant: the loop goes round without counting the attempt.
WakeUp_Uncounted(c) ==
    /\ pc[c] = "sleeping"
    /\ pc' = [pc EXCEPT ![c] = "calling"]
    /\ UNCHANGED <<state, failureCount, recovered, attempt, result>>

WakeUp(c) ==
    /\ pc[c] = "sleeping"
    /\ pc' = [pc EXCEPT ![c] = "calling"]
    /\ attempt' = [attempt EXCEPT ![c] = @ + 1]
    /\ UNCHANGED <<state, failureCount, recovered, result>>

(* _probe_call                                                             *)

ProbeSucceeds(c) ==
    /\ pc[c] = "probing"
    /\ RecordSuccess
    /\ Return(c, "value")
    /\ UNCHANGED attempt

ProbeFails(c) ==
    /\ pc[c] = "probing"
    /\ failureCount' = Incremented
    /\ OpenCircuit
    /\ Return(c, "circuit_open")
    /\ UNCHANGED attempt

\* An exception outside exc_types, or the cancellation of the coroutine,
\* leaves the breaker untouched.
PassThrough(c) ==
    /\ pc[c] # "idle"
    /\ Return(c, "passed_through")
    /\ UNCHANGED <<state, failureCount, recovered, attempt>>

-----------------------------------------------------------------------------
(* The environment.                                                        *)

RecoveryElapses ==
    /\ state = "open" /\ ~recovered
    /\ recovered' = TRUE
    /\ UNCHANGED <<state, failureCount, pc, attempt, result>>

\* Somebody reads the `state` property without calling.
ReadState ==
    /\ state' = EffectiveState
    /\ UNCHANGED <<failureCount, recovered, pc, attempt, result>>

\* Mutant: reset() closes the circuit and keeps the failures.
Reset_KeepsCount ==
    /\ CanReset
    /\ state' = "closed"
    /\ UNCHANGED <<failureCount, recovered, pc, attempt, result>>

\* _opened_at = 0.0 is read again only after the next _open_circuit.
Reset ==
    /\ CanReset
    /\ state' = "closed"
    /\ failureCount' = 0
    /\ UNCHANGED <<recovered, pc, attempt, result>>

Complete(c) == CallSucceeds(c) \/ CallFails(c) \/ ProbeSucceeds(c) \/ ProbeFails(c)

Next ==
    \/ \E c \in Callers : \/ Reject(c)
                          \/ Enter(c)
                          \/ CallSucceeds(c)
                          \/ CallFails(c)
                          \/ WakeUp(c)
                          \/ ProbeSucceeds(c)
                          \/ ProbeFails(c)
                          \/ PassThrough(c)
    \/ RecoveryElapses
    \/ ReadState
    \/ Reset

Spec == Init /\ [][Next]_vars

\* The wrapped function answers or raises and the event loop fires its timers;
\* nobody is obliged to call.
FairSpec ==
    /\ Spec
    /\ \A c \in Callers : WF_vars(Complete(c)) /\ WF_vars(WakeUp(c))

-----------------------------------------------------------------------------
(* Properties                                                              *)

\* A closed breaker has fewer than failure_threshold consecutive failures on
\* its books, and one that is open or half-open has at least one, whatever the
\* interleaving of stale answers, probes and resets.
CountFitsState ==
    /\ state = "closed" => failureCount < FailureThreshold
    /\ state # "closed" => failureCount > 0

\* With a single caller the books are exact: the breaker is open or half-open
\* only after failure_threshold consecutive failures.
OpenOnlyAtThreshold == state # "closed" => failureCount = FailureThreshold

\* Every call through the breaker ends: the retry loop of _closed_call is
\* bounded whatever other coroutines do to the breaker meanwhile.
CallsEnd == \A c \in Callers : pc[c] # "idle" ~> pc[c] = "idle"
=============================================================================
