CONSTANTS
  w1 = w1
  w2 = w2
  c1 = c1
  c2 = c2
  sigint = sigint
  sigterm = sigterm
  None = None
  Workers <- MCWorkers
  Callers <- MCCallers
  Signals <- MCSignals
SPECIFICATION FairSpec
INVARIANTS NoStrandedWorker CallbacksRunOnce
PROPERTY StopReachesWorkersOrDeadlocks
CHECK_DEADLOCK FALSE
