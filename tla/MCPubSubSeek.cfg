CONSTANTS
  c1 = c1
  c2 = c2
  t1 = t1
  t2 = t2
  b = b
  x = x
  None = None
  Remote = remote
  Topic <- MCOneTopic
  Client <- MCOneClient
  Buffers <- MCNobody
  Items <- MCNobody
  Matches <- MCFirst
  FrameCounts = {1}
  Headers = {"logged"}
  PubCapacity = 2
  SubCapacity = 2
  BufCapacity = 1
  RecCapacity = 1
  MaxPublish = 2
  MaxClears = 1
  MaxSessions = 0
SPECIFICATION Spec
PROPERTY LaterRequestsSurvive
CHECK_DEADLOCK FALSE
