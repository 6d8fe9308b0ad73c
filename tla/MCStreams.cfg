CONSTANTS
  Serials <- MCSerials
  Packet <- MCPacket
  Motion <- MCMotion
  Capacity = 1
  None = None
  Device <- MCDevice
  Setups <- MCSetups
  RingCapacity <- MCRings
  Period = 2
  BatchSpan = 0
  MaxTime = 2
  MaxFrames = 3
  MaxRuns = 2
  log <- MCLog
  Videos = {"color", "depth"}
  UsPerMs = 2
  KeySpan = 4
  Jump = 1
  SeekJump = 2
  Wrap = 16
  MinMs = 0
  MaxMs = 5
  Precision = 4
  QueueCapacity = 2
  MaxActs = 2
SPECIFICATION MCSpec
INVARIANTS PicturesAreSound SamplesInOrder PlayedInFull
PROPERTIES KeyframeDue NoNeedlessResync PlaysToEnd StopsWhenTold
CHECK_DEADLOCK FALSE
