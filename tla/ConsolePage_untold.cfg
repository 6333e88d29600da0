\* The network access page alone, with nothing lost and no answer overtaken.
CONSTANTS
  Name = {"network access"}
  MaxChanges = 1
  MaxKeys = 1
  MaxReads = 1
  MaxWrites = 1
  KeyedWrites = 1
  MaxFaults = 0
SPECIFICATION Spec
INVARIANT NeverStale
CHECK_DEADLOCK FALSE
