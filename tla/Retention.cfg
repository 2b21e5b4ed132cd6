CONSTANTS
  a = a
  b = b
  first = first
  second = second
  k1 = k1
  k2 = k2
  k3 = k3
  Requests <- RequestsDef
  Commands <- CommandsDef
  Clients <- ClientsDef
  Asks <- AsksDef
  Cutoff <- CutoffDef
  CreatedAt <- CreatedAtDef
  Now = 3
  Children <- ChildrenDef
  Responses <- ResponsesDef
  MaxFaults = 1
SPECIFICATION Spec
INVARIANTS
  NothingDangles
  OkMeansGone
PROPERTY FeedbackKeepsTheRest
