\* Two clients, a channel of one event, the two goroutines of a run that publish:
\* every interleaving of publishing, subscribing, slow reading, leaving and cleaning.
CONSTANTS
  coordinator = coordinator
  judge = judge
  superseder = superseder
  Writers = {coordinator, judge}
  Closer = judge
  Outsiders = {}
  Count <- CountDef
  Streams = {c1, c2}
  Capacity = 1
  Fragile <- FragileDef
  Nobody = nobody
SPECIFICATION Spec
SYMMETRY StreamSymmetry
INVARIANTS
  NothingMissed
  NoSendOnClosed
  DoneEndsStream
\* Everybody is done.
CHECK_DEADLOCK FALSE
