SPECIFICATION FairSpec
CONSTANTS
  Threads = {s1, s2}
  Mains = {m1, m2}
  Navis = {n1, n2}
  MaxAds = 1
  MaxRounds = 3
  MaxMoves = 3
CHECK_DEADLOCK FALSE
INVARIANTS
  TypeOK
  AdvertInOnePoint
  StartedHasThread
  ThrowsOnlyAfterLateDestroy
PROPERTY
  ShownNaviIsGiven
