\* Each connector: two overlapping runs, pages of one, one flaky item,
\* one recording without a transcript.
SPECIFICATION Spec
CONSTANTS
  Items = {a, b}
  Workers = {w1, w2}
  Kinds = {"notion", "obsidian", "zoom", "google_calendar"}
  PageSize = 1
  Flaky = {a}
  Untranscribed = {b}
  LookBack = 1
  DayOf <- HalfDays
  LastTick = 4
  MaxAborts = 1
  EditsDuringRuns = TRUE
SYMMETRY WorkerSymmetry
INVARIANTS
  TypeOK
  LossesExplained
PROPERTIES
  GoesBackOnlyByOverlap
