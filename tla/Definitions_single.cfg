\* One request at a time, about a share and a tunnel.
CONSTANTS
  m1 = m1
  Machine = {m1}
  Name = {"share", "tunnel"}
  NodeOf <- OneMachine
  Tunnels = {"tunnel"}
  Request = {"p"}
  Sleepers = {m1}
  MaxStamps = 3
  MaxTasks = 3
  MaxFaults = 1
  MaxCuts = 1
SPECIFICATION Spec
INVARIANTS
  TypeOK
  ActiveIsServed
  WithdrawnIsGone
CHECK_DEADLOCK FALSE
