SPECIFICATION Spec
CONSTANTS
  Tasks = {t1, t2}
  MaxActions = 2
  Waiters = {}
  Worker = worker
  CompletedFirst = TRUE
CHECK_DEADLOCK FALSE
PROPERTIES
  NoActionBeginsAfterCancel
