\* A run and a second one that may supersede it between any two of its steps,
\* even before Run of the first has returned.
CONSTANTS
  Requests = {r1, r2}
  Seats = {s1}
  Judge = judge
  None = none
  ViewOutcomes = {"usable", "failed"}
  JudgeOutcomes = {"answer", "error", "invalid"}
  MaxFaults = 0
  MaxCrashes = 0
SPECIFICATION Spec
SYMMETRY RequestSymmetry
INVARIANTS
  CompleteMeansWhole
PROPERTIES
  SupersedeOutlivesJudge
\* Both runs end.
CHECK_DEADLOCK FALSE
