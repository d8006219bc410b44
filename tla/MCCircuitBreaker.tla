--------------------------- MODULE MCCircuitBreaker ---------------------------
(* Instances of CircuitBreaker for TLC, and its refinement of BreakerContract.  *)
EXTENDS CircuitBreaker

\* The breaker's fields are the contract's variables: only who calls, retries
\* and sleeps is hidden.
Promise == INSTANCE BreakerContract
    WITH Threshold <- FailureThreshold,
         status <- state, streak <- failureCount, due <- recovered

\* One coroutine at a time, the breaker is the documented three-state machine.
ImplementsContract == Promise!Contract
===============================================================================
