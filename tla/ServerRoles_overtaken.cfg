\* A removal reported before the row is marked.
CONSTANTS
  m1 = m1
  Machine = {m1}
  Role = {"dhcp"}
  NodeOf <- OneMachine
  Request = {"p"}
  Sleepers = {}
  MaxTasks = 2
  MaxFaults = 0
  MaxCuts = 0
SPECIFICATION Spec
INVARIANTS
  RemovedIsRecorded
CHECK_DEADLOCK FALSE
