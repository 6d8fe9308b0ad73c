CONSTANTS
  UnitsPerSec = 2
  UnitsPerMs = 1
  WindowMs = 1
  InitialRate = 2
  IngestCapacity = 1
  ClientStart = 0
  ServerStart = 4
  MaxTime = 2
  MaxSkew = 1
  MaxPings = 2
  MaxPongs = 2
  MaxReceipts = 2
  MaxRate = 4
  Me = me
  Others = {p1, p2}
  None = None
  TopicCapacity = 2
SPECIFICATION MCSpec
INVARIANTS TripletsBracket ChecksHold EstimateAccurate OffsetIsMine
PROPERTIES InitAndCleanupReturn
CHECK_DEADLOCK FALSE
