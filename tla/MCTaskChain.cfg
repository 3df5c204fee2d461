SPECIFICATION FairSpec
CONSTANTS
  Tasks = {t1, t2}
  MaxActions = 3
  Waiters = {}
  Worker = worker
  CompletedFirst = TRUE
CHECK_DEADLOCK FALSE
INVARIANTS
  TypeOK
  ChainInOrder
  NoActionLost
  SettledTaskIsQuiet
  ListenerFindsResult
  CompletionIsHeard
  FaultNotHeardAsSuccess
PROPERTIES
  ImplementsPromise
  StartedTaskSettles
