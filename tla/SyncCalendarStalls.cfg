\* Google Calendar, one run at a time, nothing fails, one page.
SPECIFICATION FairSpec
CONSTANTS
  Items = {a, b}
  Workers = {w1}
  Kinds = {"google_calendar"}
  PageSize = 2
  Flaky = {}
  Untranscribed = {}
  LookBack = 1
  DayOf <- HalfDays
  LastTick = 4
  MaxAborts = 0
  EditsDuringRuns = FALSE
PROPERTIES
  CatchesUp
