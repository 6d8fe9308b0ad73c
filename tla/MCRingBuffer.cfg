CONSTANTS
  Size = 3
  a = a
  b = b
  s1 = s1
  NoItem = NoItem
  Item <- MCItem
  Stoppers <- MCStoppers
  MaxUpdates = 3
SPECIFICATION FairSpec
INVARIANTS SlotExclusive StoppedReadsFail
PROPERTIES ImplementsFifo OperationReturns
CHECK_DEADLOCK FALSE
