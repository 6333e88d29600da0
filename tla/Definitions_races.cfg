\* Two requests at a time about a share or a tunnel, or about both.
CONSTANTS
  m1 = m1
  Machine = {m1}
  Name = {"share", "tunnel"}
  NodeOf <- OneMachine
  Tunnels = {"tunnel"}
  Request = {p, q}
  Sleepers = {m1}
  MaxStamps = 2
  MaxTasks = 3
  MaxFaults = 0
  MaxCuts = 1
SYMMETRY Alike
SPECIFICATION Spec
INVARIANTS
  ApplyingIsWaitedFor
CHECK_DEADLOCK FALSE
