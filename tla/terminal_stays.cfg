SPECIFICATION Spec
CONSTANTS
  f1 = f1
  f2 = f2
  r0 = r0
  r1 = r1
  r2 = r2
  c1 = c1
  c2 = c2
  Files = {f1}
  Parts = {1}
  Runs = {r0}
  First = r0
  Folder = FALSE
  Controls = {c1}
  MaxWorkers = 1
  None = None
  Faults = FALSE
  Disconnects = FALSE
  MaxCrashes = 0
  Careful = TRUE
CHECK_DEADLOCK FALSE
SYMMETRY Symmetry
PROPERTIES
  TerminalProcessStays
