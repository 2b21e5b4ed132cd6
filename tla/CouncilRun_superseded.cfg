\* Two runs of one seat: does a superseded request keep its state?
CONSTANTS
  Requests = {r1, r2}
  Seats = {s1}
  Judge = judge
  None = none
  ViewOutcomes = {"usable", "failed"}
  JudgeOutcomes = {"answer", "error"}
  MaxFaults = 0
  MaxCrashes = 0
SPECIFICATION Spec
PROPERTIES
  SupersededIsFinal
CHECK_DEADLOCK FALSE
