SPECIFICATION Spec
CONSTANTS
  Devices <- MCDevices
  MaxDevices = 2
  MaxRuns = 3
  Before <- MCBefore
CHECK_DEADLOCK FALSE
INVARIANT FlushedMeansUploaded
