------------------------ MODULE CircuitBreakerProofs ------------------------
(* TLAPS proofs about CircuitBreaker, for any set of callers, any threshold *)
(* and any number of retries.                                               *)
EXTENDS MCCircuitBreaker, TLAPS

(* A coroutine sleeps only when it still has a retry left, so the attempt   *)
(* counter of _closed_call never leaves its range.                          *)
SleepersMayRetry == \A c \in Callers : pc[c] = "sleeping" => attempt[c] < MaxRetries

Inv == TypeOK /\ SleepersMayRetry

(* The saturating counter stays in range, and reaching the threshold is the *)
(* only way not to be below it.                                             *)
LEMMA IncrementedRange ==
    ASSUME TypeOK
    PROVE  /\ Incremented \in 0..FailureThreshold
           /\ Incremented > 0
BY BreakerAssumption DEF TypeOK, Incremented

(* The inductive invariant: types, and the sleepers' budget.                *)
THEOREM Invariance == Spec => []Inv
<1>1. Init => Inv
  <2> SUFFICES ASSUME Init
               PROVE  Inv
    OBVIOUS
  <2>1. failureCount \in 0..FailureThreshold /\ 0 \in 0..MaxRetries
    BY BreakerAssumption DEF Init
  <2>2. /\ pc \in [Callers -> {"idle", "calling", "sleeping", "probing"}]
        /\ attempt \in [Callers -> 0..MaxRetries]
        /\ result \in [Callers -> Results]
    BY <2>1, Zenon DEF Init, Results
  <2>3. TypeOK
    BY <2>1, <2>2 DEF Init, TypeOK, States
  <2>4. SleepersMayRetry
    BY DEF Init, SleepersMayRetry
  <2> QED BY <2>3, <2>4 DEF Inv
<1>2. Inv /\ [Next]_vars => Inv'
  <2> SUFFICES ASSUME Inv, [Next]_vars
               PROVE  Inv'
    OBVIOUS
  <2> USE BreakerAssumption DEF Inv, TypeOK, States, Results, SleepersMayRetry
  <2>1. ASSUME NEW c \in Callers, Reject(c)
        PROVE  Inv'
    BY <2>1 DEF Reject, Return
  <2>2. ASSUME NEW c \in Callers, Enter(c)
        PROVE  Inv'
    BY <2>2 DEF Enter, EffectiveState
  <2>3. ASSUME NEW c \in Callers, CallSucceeds(c)
        PROVE  Inv'
    BY <2>3 DEF CallSucceeds, RecordSuccess, Return
  <2>4. ASSUME NEW c \in Callers, CallFails(c)
        PROVE  Inv'
    <3>1. /\ state' \in States
          /\ failureCount' \in 0..FailureThreshold
          /\ recovered' \in BOOLEAN
          /\ attempt' = attempt
      BY <2>4, IncrementedRange DEF CallFails, RecordFailure, OpenCircuit
    <3>2. CASE state' = "open"
      BY <2>4, <3>1, <3>2 DEF CallFails, Return
    <3>3. CASE state' # "open" /\ attempt[c] < MaxRetries
      BY <2>4, <3>1, <3>3 DEF CallFails
    <3>4. CASE state' # "open" /\ ~(attempt[c] < MaxRetries)
      BY <2>4, <3>1, <3>4 DEF CallFails, Return
    <3> QED BY <3>2, <3>3, <3>4
  <2>5. ASSUME NEW c \in Callers, WakeUp(c)
        PROVE  Inv'
    BY <2>5 DEF WakeUp
  <2>6. ASSUME NEW c \in Callers, ProbeSucceeds(c)
        PROVE  Inv'
    BY <2>6 DEF ProbeSucceeds, RecordSuccess, Return
  <2>7. ASSUME NEW c \in Callers, ProbeFails(c)
        PROVE  Inv'
    BY <2>7, IncrementedRange DEF ProbeFails, OpenCircuit, Return
  <2>8. ASSUME NEW c \in Callers, PassThrough(c)
        PROVE  Inv'
    BY <2>8 DEF PassThrough, Return
  <2>9. CASE RecoveryElapses
    BY <2>9 DEF RecoveryElapses
  <2>10. CASE ReadState
    BY <2>10 DEF ReadState, EffectiveState
  <2>11. CASE Reset
    BY <2>11 DEF Reset
  <2>12. CASE UNCHANGED vars
    BY <2>12 DEF vars
  <2> QED
    BY <2>1, <2>2, <2>3, <2>4, <2>5, <2>6, <2>7, <2>8, <2>9, <2>10, <2>11,
       <2>12 DEF Next
<1> QED BY <1>1, <1>2, PTL DEF Spec

(* Every variable keeps its type.                                           *)
THEOREM TypeCorrect == Spec => []TypeOK
<1>1. Inv => TypeOK
  BY DEF Inv
<1> QED BY <1>1, Invariance, PTL

(* Closed means fewer than failure_threshold consecutive failures; open or  *)
(* half-open means at least one: for any number of coroutines interleaving  *)
(* calls, probes, stale answers and resets.                                 *)
THEOREM BooksBalance == Spec => []CountFitsState
<1>1. Init => CountFitsState
  BY BreakerAssumption DEF Init, CountFitsState
<1>2. Inv /\ CountFitsState /\ [Next]_vars => CountFitsState'
  <2> SUFFICES ASSUME Inv, CountFitsState, [Next]_vars
               PROVE  CountFitsState'
    OBVIOUS
  <2>1. TypeOK /\ failureCount \in Nat /\ FailureThreshold > 0
    BY BreakerAssumption DEF Inv, TypeOK
  <2>2. ASSUME NEW c \in Callers, Reject(c) \/ WakeUp(c) \/ PassThrough(c)
        PROVE  CountFitsState'
    BY <2>2 DEF Reject, WakeUp, PassThrough, CountFitsState
  <2>3. ASSUME NEW c \in Callers, Enter(c)
        PROVE  CountFitsState'
    BY <2>3 DEF Enter, EffectiveState, CountFitsState
  <2>4. ASSUME NEW c \in Callers, CallSucceeds(c) \/ ProbeSucceeds(c)
        PROVE  CountFitsState'
    BY <2>1, <2>4 DEF CallSucceeds, ProbeSucceeds, RecordSuccess, CountFitsState
  <2>5. ASSUME NEW c \in Callers, CallFails(c)
        PROVE  CountFitsState'
    <3>1. CASE Incremented >= FailureThreshold
      BY <2>1, <2>5, <3>1, IncrementedRange
         DEF CallFails, RecordFailure, OpenCircuit, CountFitsState
    <3>2. CASE ~(Incremented >= FailureThreshold)
      BY <2>1, <2>5, <3>2, IncrementedRange, BreakerAssumption
         DEF CallFails, RecordFailure, CountFitsState
    <3> QED BY <3>1, <3>2
  <2>6. ASSUME NEW c \in Callers, ProbeFails(c)
        PROVE  CountFitsState'
    BY <2>1, <2>6, IncrementedRange DEF ProbeFails, OpenCircuit, CountFitsState
  <2>7. CASE RecoveryElapses \/ ReadState
    BY <2>7 DEF RecoveryElapses, ReadState, EffectiveState, CountFitsState
  <2>8. CASE Reset
    BY <2>1, <2>8 DEF Reset, CountFitsState
  <2>9. CASE UNCHANGED vars
    BY <2>9 DEF vars, CountFitsState
  <2> QED
    BY <2>2, <2>3, <2>4, <2>5, <2>6, <2>7, <2>8, <2>9 DEF Next
<1> QED BY <1>1, <1>2, Invariance, PTL DEF Spec
-----------------------------------------------------------------------------
(* One caller, nobody resetting: the breaker keeps its contract.            *)
OneCaller == ~CanReset /\ \A a, b \in Callers : a = b

(* Nobody but the caller moves the breaker, so what it was admitted to is   *)
(* what it still finds when its answer arrives.                             *)
FindsWhatItEntered ==
    \A c \in Callers : /\ pc[c] \in {"calling", "sleeping"} => state = "closed"
                       /\ pc[c] = "probing" => state = "half_open"

Exact == OpenOnlyAtThreshold /\ FindsWhatItEntered

(* A tracked failure of a call that finds the circuit closed.               *)
LEMMA FailureOfClosedCall ==
    ASSUME Inv, CountFitsState, state = "closed", NEW c \in Callers, CallFails(c)
    PROVE  /\ failureCount + 1 <= FailureThreshold /\ failureCount' = failureCount + 1
           /\ \/ /\ failureCount + 1 = FailureThreshold
                 /\ state' = "open" /\ recovered' = FALSE /\ pc'[c] = "idle"
              \/ /\ failureCount + 1 < FailureThreshold
                 /\ state' = "closed" /\ recovered' = recovered
           /\ \A b \in Callers \ {c} : pc'[b] = pc[b]
           /\ pc'[c] \in {"idle", "sleeping"}
<1>1. /\ failureCount \in Nat /\ failureCount < FailureThreshold
      /\ pc \in [Callers -> {"idle", "calling", "sleeping", "probing"}]
      /\ FailureThreshold \in Nat
  BY BreakerAssumption DEF Inv, TypeOK, CountFitsState
<1>2. Incremented = failureCount + 1
  BY <1>1 DEF Incremented
<1>3. /\ failureCount' = failureCount + 1
      /\ IF failureCount + 1 >= FailureThreshold
         THEN state' = "open" /\ recovered' = FALSE
         ELSE state' = "closed" /\ recovered' = recovered
  BY <1>2 DEF CallFails, RecordFailure, OpenCircuit
<1>4. /\ state' = "open" => pc' = [pc EXCEPT ![c] = "idle"]
      /\ \/ pc' = [pc EXCEPT ![c] = "idle"]
         \/ pc' = [pc EXCEPT ![c] = "sleeping"]
  <2>1. CASE state' = "open"
    BY <2>1 DEF CallFails, Return
  <2>2. CASE state' # "open" /\ attempt[c] < MaxRetries
    BY <2>2 DEF CallFails
  <2>3. CASE state' # "open" /\ ~(attempt[c] < MaxRetries)
    BY <2>3 DEF CallFails, Return
  <2> QED BY <2>1, <2>2, <2>3
<1> QED BY <1>1, <1>3, <1>4

(* Every step of the breaker is a step of the contract or leaves its three  *)
(* fields alone, and keeps the books exact.                                 *)
LEMMA RefinementStep ==
    ASSUME OneCaller, Inv, CountFitsState, Exact, [Next]_vars
    PROVE  Exact' /\ [Promise!Step]_(Promise!contract)
<1> USE DEF Exact, OpenOnlyAtThreshold, FindsWhatItEntered
<1>0. /\ failureCount \in 0..FailureThreshold /\ recovered \in BOOLEAN /\ state \in States
      /\ pc \in [Callers -> {"idle", "calling", "sleeping", "probing"}]
      /\ FailureThreshold \in Nat \ {0}
  BY BreakerAssumption DEF Inv, TypeOK
<1>1. ASSUME NEW c \in Callers, Reject(c) \/ WakeUp(c) \/ PassThrough(c)
      PROVE  Exact' /\ UNCHANGED breaker
  BY <1>0, <1>1 DEF Reject, WakeUp, PassThrough, Return, breaker
<1>2. ASSUME NEW c \in Callers, Enter(c)
      PROVE  Exact' /\ (Promise!AdmitProbe \/ UNCHANGED breaker)
  <2>1. \A b \in Callers : b = c
    BY DEF OneCaller
  <2>2. /\ pc'[c] = "calling" => state' = "closed"
        /\ pc'[c] = "probing" => state' = "half_open"
        /\ pc'[c] \in {"calling", "probing"}
    BY <1>0, <1>2 DEF Enter, EffectiveState, States
  <2>3. OpenOnlyAtThreshold'
    BY <1>2 DEF Enter, EffectiveState
  <2>4. Promise!AdmitProbe \/ UNCHANGED breaker
    BY <1>0, <1>2 DEF Enter, EffectiveState, Promise!AdmitProbe, breaker
  <2> QED BY <2>1, <2>2, <2>3, <2>4
<1>3. ASSUME NEW c \in Callers, CallSucceeds(c) \/ ProbeSucceeds(c)
      PROVE  Exact' /\ Promise!Success
  <2>1. \A b \in Callers : b = c
    BY DEF OneCaller
  <2>2. state \in {"closed", "half_open"} /\ pc'[c] = "idle"
    BY <1>0, <1>3 DEF CallSucceeds, ProbeSucceeds, Return
  <2>3. state' = "closed" /\ failureCount' = 0 /\ recovered' = recovered
    BY <1>3 DEF CallSucceeds, ProbeSucceeds, RecordSuccess
  <2> QED BY <2>1, <2>2, <2>3 DEF Promise!Success
<1>4. ASSUME NEW c \in Callers, CallFails(c)
      PROVE  Exact' /\ (Promise!Trip \/ Promise!Failure)
  <2>1. \A b \in Callers : b = c
    BY DEF OneCaller
  <2>2. state = "closed"
    BY <1>4 DEF CallFails
  <2> QED BY <2>1, <2>2, <1>4, <1>0, FailureOfClosedCall DEF Promise!Trip, Promise!Failure
<1>5. ASSUME NEW c \in Callers, ProbeFails(c)
      PROVE  Exact' /\ Promise!ProbeFailure
  <2>1. \A b \in Callers : b = c
    BY DEF OneCaller
  <2>2. state = "half_open" /\ failureCount = FailureThreshold /\ pc'[c] = "idle"
    BY <1>0, <1>5 DEF ProbeFails, Return
  <2>3. failureCount' = failureCount /\ state' = "open" /\ recovered' = FALSE
    BY <1>0, <1>5, <2>2 DEF ProbeFails, Incremented, OpenCircuit
  <2> QED BY <2>1, <2>2, <2>3 DEF Promise!ProbeFailure
<1>6. CASE RecoveryElapses
  BY <1>6 DEF RecoveryElapses, Promise!Step, Promise!TimerExpires
<1>7. CASE ReadState
  BY <1>0, <1>7 DEF ReadState, EffectiveState, Promise!Step, Promise!AdmitProbe,
                   Promise!contract, States
<1>8. ~Reset
  BY DEF Reset, OneCaller
<1>9. CASE UNCHANGED vars
  BY <1>9 DEF vars, Promise!contract
<1>10. UNCHANGED breaker => UNCHANGED Promise!contract
  BY DEF breaker, Promise!contract
<1> QED
  BY <1>1, <1>2, <1>3, <1>4, <1>5, <1>6, <1>7, <1>8, <1>9, <1>10 DEF Next, Promise!Step

(* For one coroutine at a time the breaker is the three-state machine of    *)
(* its docstring, whatever the threshold and the number of retries.         *)
THEOREM OneCallerKeepsContract == OneCaller /\ Spec => ImplementsContract
<1> SUFFICES ASSUME OneCaller
             PROVE  Spec => ImplementsContract
  OBVIOUS
<1>1. Init => Exact /\ Promise!Start
  BY DEF Init, Exact, OpenOnlyAtThreshold, FindsWhatItEntered, Promise!Start
<1>2. Inv /\ CountFitsState /\ Exact /\ [Next]_vars
        => Exact' /\ [Promise!Step]_(Promise!contract)
  BY RefinementStep
<1> QED
  BY <1>1, <1>2, Invariance, BooksBalance, PTL DEF Spec, ImplementsContract, Promise!Contract

(* For one coroutine at a time the circuit opens exactly at the threshold.  *)
THEOREM OpensExactlyAtThreshold == OneCaller /\ Spec => []OpenOnlyAtThreshold
<1> SUFFICES ASSUME OneCaller
             PROVE  Spec => []OpenOnlyAtThreshold
  OBVIOUS
<1>1. Init => Exact
  BY DEF Init, Exact, OpenOnlyAtThreshold, FindsWhatItEntered
<1>2. Inv /\ CountFitsState /\ Exact /\ [Next]_vars => Exact'
  BY RefinementStep
<1>3. Exact => OpenOnlyAtThreshold
  BY DEF Exact
<1> QED
  BY <1>1, <1>2, <1>3, Invariance, BooksBalance, PTL DEF Spec
=============================================================================
