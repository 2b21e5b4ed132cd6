SPECIFICATION Spec
CONSTANTS
  a = a
  b = b
  j1 = j1
  j2 = j2
  incumbent = incumbent
  cand1 = cand1
  cand2 = cand2
  refused = refused
  g1 = g1
  g2 = g2
  f1 = f1
  f2 = f2
  Jobs <- JobsDef
  Commands <- CommandsDef
  Prompts = {incumbent, cand1, cand2, refused}
  Supported = {incumbent, cand1, cand2}
  Answers = {"ok", "timeout"}
  Graders = {g1, g2}
  Flags = {f1, f2}
  Replies <- RepliesDef
  Plans <- PlansDef
  Concurrency = 1
  MaxFaults = 1
INVARIANTS
  EvaluationTypeOK
  NoWastedCall
  FreshIsNew
  GradeIsWhole
  SameGradeForAll
  PositionBiasIsATie
  
PROPERTIES
  CommandsEnd
