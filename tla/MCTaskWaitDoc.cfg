SPECIFICATION Spec
CONSTANTS
  Tasks = {t1, t2}
  MaxActions = 1
  Waiters = {w1, worker}
  Worker = worker
  CompletedFirst = TRUE
CHECK_DEADLOCK FALSE
INVARIANTS
  TrueWaitMeansSuccess
