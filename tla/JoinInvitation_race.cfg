SPECIFICATION Spec
CONSTANTS
  Workers = {w1, w2, w3}
  Deadline = 1
  MaxTime = 1
  NoWorker = NoWorker
SYMMETRY Symmetry
INVARIANTS
  TypeOK
  CertaintyIsEarned
PROPERTIES
  TerminalIsFinal
  KeepsGrant
