\* Three coroutines share the breaker, an operator may reset it.
SPECIFICATION FairSpec
CONSTANTS
  Callers = {c1, c2, c3}
  FailureThreshold = 3
  MaxRetries = 2
  CanReset = TRUE
INVARIANTS
  TypeOK
  CountFitsState
PROPERTIES
  CallsEnd
