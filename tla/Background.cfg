\* Two workers and overlapping runs and captures, one user, one document, one export.
SPECIFICATION BackgroundSpec
CONSTANTS
  Users = {u1}
  EmailUsers = {u1}
  Schedules = {"morning"}
  BriefingWorkers = {w1, w2}
  MaxBriefings = 4
  MaxRequests = 3
  MaxTaskFaults = 1
  MaxTaskRetries = 1
  Topics = {t1}
  FollowUps = {f1}
  Engines = {e1, e2}
  MaxReminders = 3
  MaxEngineFailures = 1
  Captures = {c1, c2}
  WindowSize = 2
  MaxSnapshots = 6
  Documents = {d1}
  Exports = {x1}
  MaxErasureFaults = 1
INVARIANTS
  BackgroundTypeOK
  MailsBounded
  InitialBounded
  PendingBounded
  WindowBounded
  ErasureComplete
PROPERTIES
  ScheduledIsMailed
  OverdueEscalates
  ShrinkBounded
  ExportEnds
\* Every component may run out of its bounds.
CHECK_DEADLOCK FALSE
