SPECIFICATION Spec
CONSTANTS
  d1 = d1
  d2 = d2
  SamplePoints <- Sampled
  Batches <- Scans
  MaxBatches = 9
CHECK_DEADLOCK FALSE
INVARIANTS
  TypeOK
  NothingWaitsLonger
  SimilarityIsFair
PROPERTY
  HighestIsDrawn
