SPECIFICATION Spec
CONSTANTS
  Threads = {s1, s2}
  Listeners = {main}
  MaxAds = 2
  MaxRounds = 2
CHECK_DEADLOCK FALSE
INVARIANTS
  OneScanThread
