\* Two edits of a share at a time.
CONSTANTS
  m1 = m1
  Machine = {m1}
  Name = {"share"}
  NodeOf <- OneMachine
  Tunnels = {}
  Request = {"p", "q"}
  Sleepers = {}
  MaxStamps = 3
  MaxTasks = 3
  MaxFaults = 0
  MaxCuts = 0
SPECIFICATION Spec
INVARIANTS
  ActiveIsServed
CHECK_DEADLOCK FALSE
