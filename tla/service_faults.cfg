SPECIFICATION Spec
CONSTANTS
  f1 = f1
  f2 = f2
  r0 = r0
  r1 = r1
  r2 = r2
  c1 = c1
  c2 = c2
  Files = {f1, f2}
  Parts = {1}
  Runs = {r0, r1}
  First = r0
  Folder = TRUE
  Controls = {c1}
  MaxWorkers = 2
  None = None
  Faults = TRUE
  Disconnects = TRUE
  MaxCrashes = 1
  Careful = TRUE
CHECK_DEADLOCK FALSE
SYMMETRY Symmetry
INVARIANTS
  CarefulIInv
  CompletedIsAssembled
  PausedMeansStopped
  CompletedProcessIsComplete
  CancelledProcessIsOver
PROPERTIES
  ImplementsLifecycle
