\* Two requests at a time about one role.
CONSTANTS
  m1 = m1
  Machine = {m1}
  Role = {"dhcp"}
  NodeOf <- OneMachine
  Request = {"p", "q"}
  Sleepers = {m1}
  MaxTasks = 3
  MaxFaults = 1
  MaxCuts = 1
SPECIFICATION FairSpec
INVARIANTS
  TypeOK
  InstallingIsWaitedFor
  ActiveIsLastReport
PROPERTIES
  EveryInstallEnds
CHECK_DEADLOCK FALSE
