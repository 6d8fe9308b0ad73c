CONSTANTS
  c1 = c1
  c2 = c2
  t1 = t1
  t2 = t2
  b = b
  x = x
  None = None
  Types <- MCTypes
  Pairs <- MCPairs
  Values <- MCValues
  Held <- MCHeld
  encode_field <- MCEncode
  decode_field <- MCDecode
  field_size <- MCSize
  estimate_field <- MCEstimate
  FrameSizes <- MCFrameSizes
  Repeats <- MCRepeats
  MaxFrames = 3
  Remote = remote
  Topic <- MCTwoTopics
  Client <- MCOneClient
  Buffers <- MCBuffer
  Items <- MCItem
  Matches <- MCApart
  FrameCounts = {1}
  Headers = {"new"}
  PubCapacity = 2
  SubCapacity = 2
  BufCapacity = 2
  RecCapacity = 1
  MaxPublish = 2
  MaxClears = 0
  MaxSessions = 0
SPECIFICATION MCSpec
INVARIANTS BuffersInOrder ReadAsWritten LogKeepsFrames ReaderKeepsPrefix
PROPERTY ImplementsBus
CHECK_DEADLOCK FALSE
