\* Every page of the console with each of its forms.
CONSTANTS
  Name <- AllPages
  MaxChanges = 1
  MaxKeys = 1
  MaxReads = 2
  MaxWrites = 2
  KeyedWrites = 1
  MaxFaults = 1
SPECIFICATION FairSpec
INVARIANTS
  TypeOK
  StaleForAReason
  OneAtATime
  CarefulShowsItsKey
PROPERTIES
  SettledIsShown
CHECK_DEADLOCK FALSE
