\* An apply nobody finishes.
CONSTANTS
  m1 = m1
  Machine = {m1}
  Name = {"share"}
  NodeOf <- OneMachine
  Tunnels = {}
  Request = {"p"}
  Sleepers = {}
  MaxStamps = 1
  MaxTasks = 1
  MaxFaults = 0
  MaxCuts = 0
SPECIFICATION Spec
INVARIANTS
  ReapReleasesRows
CHECK_DEADLOCK FALSE
