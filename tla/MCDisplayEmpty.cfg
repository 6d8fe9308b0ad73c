CONSTANTS
  Jobs = {j1, j2, j3}
  Workers = {w1, w2}
  Nil = Nil
  MaxStarts = 2
  Serials = {s1, s2}
  m = m
  None = None
  Things <- MCThings
  Parts = {head, body}
  Spots <- MCSpots
  CounterWrap = 2
  PickSize = 2
  Poses <- MCPoses
  Counts <- MCCounts
  Mouse <- MCMouse
  MaxPictures = 4
  MaxClicks = 1
  Chosen <- MCLoops
  Reach = 1
SPECIFICATION MCSpec
INVARIANT NoStateTracked
CHECK_DEADLOCK FALSE
