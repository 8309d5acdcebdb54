SPECIFICATION Spec
CONSTANTS
  Workers = {w1}
  Deadline = 1
  MaxTime = 1
  NoWorker = NoWorker
SYMMETRY Symmetry
INVARIANT CleanupIsAccepted
