\* Two overlapping sync runs, a disconnect, two embedding workers, one fault.
SPECIFICATION Spec
CONSTANTS
  Sources = {a}
  Writers = {w1, w2}
  Jobs = {j1, j2}
  Routes = {"sync"}
  Cursorless = FALSE
  EmbedWorkers = 2
  MaxVersion = 2
  MaxRows = 1
  MaxConns = 1
  MaxFaults = 1
  MaxRetries = 1
SYMMETRY Symmetry
INVARIANTS
  TypeOK
  WorkAccounted
