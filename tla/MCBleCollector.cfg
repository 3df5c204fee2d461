SPECIFICATION Spec
CONSTANTS
  Threads = {s1, s2}
  Listeners = {main}
  MaxAds = 2
  MaxRounds = 2
SYMMETRY Symmetry
CHECK_DEADLOCK FALSE
INVARIANTS
  TypeOK
  AdvertTakenOnce
  BatchOfOneRound
  OneLateBatch
PROPERTY
  ImplementsScanStream
