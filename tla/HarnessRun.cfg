SPECIFICATION Spec
CONSTANTS
  a = a
  b = b
  Commands <- CommandsDef
  MaxFaults = 1
  Hashes <- HashesDef
  FamilyOf <- FamilyOfDef
  Strict <- StrictDef
  Items = 1
  MaxReversals = 0
  SentinelCount = 3
  ScreenCases = 1
  Seats <- SeatsDef
  IncumbentFamily <- IncumbentFamilyDef
  Plans <- PlansDef
INVARIANTS
  HarnessTypeOK
  GradersEarnedIt
  NoSameFamilyVerdict
  PromotionHasEvidence
  RunsSettle
  OkMeansComplete
  DriftStops
  SentinelIsComplete
PROPERTIES
  HarnessEnds
