\* Three replicas, connections lost, replicas stopped and killed.
CONSTANTS
  Replica = {"r1", "r2", "r3"}
  Retry = 1
  Check = 2
  MaxLosses = 2
  MaxStops = 2
SPECIFICATION FairSpec
INVARIANTS
  TypeOK
  OneRuns
  StraysStop
PROPERTIES
  OneLeads
