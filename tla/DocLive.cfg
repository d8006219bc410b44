\* Two items, one writer on every route, disconnects and reconnections, partial uploads,
\* retries, no faults.
SPECIFICATION FairSpec
CONSTANTS
  Sources = {a, b}
  Writers = {w1}
  Jobs = {j1}
  Routes = {"sync", "upload", "transcript"}
  Cursorless = TRUE
  EmbedWorkers = 1
  MaxVersion = 1
  MaxRows = 1
  MaxConns = 2
  MaxFaults = 0
  MaxRetries = 1
INVARIANT
  WorkAccounted
PROPERTY
  PendingEnds
  ErasedStaysErased
