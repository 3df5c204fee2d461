SPECIFICATION FairSpec
CONSTANTS
  Threads = {s1, s2}
  Listeners = {main}
  MaxAds = 1
  MaxRounds = 2
CHECK_DEADLOCK FALSE
PROPERTIES
  StoppedSamplingShutsScan
  ThreadsEnd
  SamplingKeepsFiring
