SPECIFICATION FairSpec
CONSTANTS
  Boards = {b1, b2}
  MaxChanges = 2
  MaxOrders = 2
  MaxLoops = 2
  MaxMoves = 3
CHECK_DEADLOCK FALSE
INVARIANTS
  TypeOK
  DrawnIsKnown
  NoStuckProgress
PROPERTIES
  KeptUpToDate
  PollingCeases
