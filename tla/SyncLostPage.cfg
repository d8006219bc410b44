\* Notion, one run at a time, two items and pages of one.
SPECIFICATION Spec
CONSTANTS
  Items = {a, b}
  Workers = {w1}
  Kinds = {"notion"}
  PageSize = 1
  Flaky = {}
  Untranscribed = {}
  LookBack = 1
  DayOf <- HalfDays
  LastTick = 4
  MaxAborts = 0
  EditsDuringRuns = FALSE
INVARIANTS
  NoLoss
