CONSTANTS
  c1 = c1
  c2 = c2
  t1 = t1
  t2 = t2
  b = b
  x = x
  None = None
  Remote = remote
  Topic <- MCTwoTopics
  Client <- MCOneClient
  Buffers <- MCBuffer
  Items <- MCNobody
  Matches <- MCFirst
  FrameCounts = {0, 1}
  Headers = {"new"}
  PubCapacity = 3
  SubCapacity = 2
  BufCapacity = 1
  RecCapacity = 1
  MaxPublish = 2
  MaxClears = 0
  MaxSessions = 0
SPECIFICATION Spec
INVARIANT PartsRoutedByPrefix
CHECK_DEADLOCK FALSE
