\* Three commands, one after the other or not: what does a judge baseline name?
CONSTANTS
  Commands = {p1, p2, p3}
  Candidates = {k1}
  None = none
  MaxFaults = 0
SPECIFICATION Spec
SYMMETRY CommandSymmetry
INVARIANTS
  JudgeBaselinesResolve
\* Every command is done.
CHECK_DEADLOCK FALSE
