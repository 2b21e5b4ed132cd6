\* One client that reads as slowly as it likes; the judge goroutine publishes
\* its start, its verdict and done, and a superseding run its notice.
CONSTANTS
  coordinator = coordinator
  judge = judge
  superseder = superseder
  Writers = {judge, superseder}
  Closer = judge
  Outsiders = {superseder}
  Count <- VerdictCountDef
  Streams = {c1}
  Capacity = 1
  Fragile = {}
  Nobody = nobody
SPECIFICATION FairSpec
INVARIANTS
  NoGaps
PROPERTIES
  WritersFinish
  LiveStreamsEnd
\* Everybody is done.
CHECK_DEADLOCK FALSE
