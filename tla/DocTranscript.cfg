\* An uploaded Zoom transcript, no faults.
SPECIFICATION FairSpec
CONSTANTS
  Sources = {a}
  Writers = {w1}
  Jobs = {j1}
  Routes = {"transcript"}
  Cursorless = FALSE
  EmbedWorkers = 1
  MaxVersion = 1
  MaxRows = 1
  MaxConns = 1
  MaxFaults = 0
  MaxRetries = 1
PROPERTY
  TranscriptIsQueued
