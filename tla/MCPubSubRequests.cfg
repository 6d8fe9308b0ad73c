CONSTANTS
  c1 = c1
  c2 = c2
  t1 = t1
  t2 = t2
  b = b
  x = x
  None = None
  Remote = remote
  Topic <- MCOneTopic
  Client <- MCOneClient
  Buffers <- MCNobody
  Items <- MCItem
  Matches <- MCFirst
  FrameCounts = {1}
  Headers = {"new"}
  PubCapacity = 2
  SubCapacity = 2
  BufCapacity = 1
  RecCapacity = 1
  MaxPublish = 1
  MaxClears = 2
  MaxSessions = 1
SPECIFICATION FairSpec
INVARIANTS ClearTakesEffect RecordedOnce
PROPERTIES RequestsTakeEffect CleanupReturns
CHECK_DEADLOCK FALSE
