\* An init, a forced publish and a downstream run: is the override on record?
CONSTANTS
  Commands = {p1, p2, p3}
  Candidates = {k1}
  None = none
  MaxFaults = 0
SPECIFICATION Spec
SYMMETRY CommandSymmetry
INVARIANTS
  ForcedIsNeverSilent
\* Every command is done.
CHECK_DEADLOCK FALSE
