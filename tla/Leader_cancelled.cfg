\* A shutdown while the tasks of a lost lock are being awaited.
CONSTANTS
  Replica = {"r1", "r2"}
  Retry = 1
  Check = 1
  MaxLosses = 1
  MaxStops = 1
SPECIFICATION FairSpec
PROPERTIES
  CancelStops
