SPECIFICATION FairSpec
CONSTANTS
  Devices <- MCDevices
  MaxDevices = 2
  MaxRuns = 3
  Before <- MCBefore
CHECK_DEADLOCK FALSE
INVARIANTS
  TypeOK
  FlushedIsExact
  FlushedInOrder
  FlushedByWholeChain
  NoSilentLoss
PROPERTIES
  NoDuplicateSample
  ProgressGoesAway
