CONSTANTS
  a = a
  b = b
  NoItem = NoItem
  NoRead = NoRead
  Item <- MCItem
  MaxUpdates = 2
SPECIFICATION FairSpec
INVARIANT SlotExclusive
PROPERTIES ImplementsLatestItem ReadReturns
CHECK_DEADLOCK FALSE
