\* One client that comes after the run has left the registry.
CONSTANTS
  coordinator = coordinator
  judge = judge
  superseder = superseder
  Writers = {coordinator, judge}
  Closer = judge
  Outsiders = {}
  Count <- CountDef
  Streams = {c1}
  Capacity = 1
  Fragile = {}
  Nobody = nobody
SPECIFICATION LeaveSpec
PROPERTIES
  EntriesAreRemoved
\* Everybody is done.
CHECK_DEADLOCK FALSE
