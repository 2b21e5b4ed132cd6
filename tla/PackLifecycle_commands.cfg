\* Five commands of any kind that overlap or stop anywhere, one failing statement.
CONSTANTS
  Commands = {p1, p2, p3, p4, p5}
  Candidates = {k1}
  None = none
  MaxFaults = 1
SPECIFICATION Spec
SYMMETRY CommandSymmetry
INVARIANTS
  ActiveUnlessTorn
  RollbackUndoesPublish
  OverridesAreFounded
\* Every command is done.
CHECK_DEADLOCK FALSE
