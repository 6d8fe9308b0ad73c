CONSTANTS
  Jobs = {j1, j2, j3}
  Workers = {w1, w2}
  Nil = Nil
  MaxStarts = 2
  Serials = {s1, s2}
  m = m
  None = None
  Things <- MCThings
  Parts = {head, body}
  Spots <- MCSpots
  CounterWrap = 2
  PickSize = 2
  Poses <- MCPoses
  Counts <- MCCounts
  Mouse <- MCMouse
  MaxPictures = 4
  MaxClicks = 1
  Chosen <- AllKinds
  Reach = 1
SPECIFICATION MCSpec
INVARIANTS WorkerOwnsJob ChecksHold ResultsAreCurrent
INVARIANTS DrawnAsGiven PickIsOfLastFrame ViewerChecksHold
PROPERTIES DestructionEnds ScreenDoesNotJump CloudCatchesUp
CHECK_DEADLOCK FALSE
