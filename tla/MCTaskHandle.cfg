CONSTANTS
  w1 = w1
  w2 = w2
  null = null
  Worker = {w1, w2}
  NoWorker = null
  LeaseMs = {1, 2}
  MaxClock = 4
  MaxGeneration = 3
  MaxCalls = 2
SPECIFICATION Spec
SYMMETRY MCSymmetry
INVARIANT OldWorkerCannotCommit
CHECK_DEADLOCK FALSE
