CONSTANTS
  w1 = w1
  w2 = w2
  c1 = c1
  c2 = c2
  sigint = sigint
  sigterm = sigterm
  None = None
  Workers <- MCWorkers
  Callers <- MCOneCaller
  Signals <- MCOneSignal
SPECIFICATION FairSpec
PROPERTY StopReachesWorkers
CHECK_DEADLOCK FALSE
