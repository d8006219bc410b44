\* Obsidian vault, one run at a time, no edit between fetch and persistence.
SPECIFICATION FairSpec
CONSTANTS
  Items = {a, b, c}
  Workers = {w1}
  Kinds = {"obsidian"}
  PageSize = 1
  Flaky = {}
  Untranscribed = {}
  LookBack = 1
  DayOf <- HalfDays
  LastTick = 4
  MaxAborts = 2
  EditsDuringRuns = FALSE
INVARIANTS
  NoLoss
PROPERTIES
  CatchesUp
