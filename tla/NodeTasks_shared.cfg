\* Two agent processes of one machine share its queue.
CONSTANTS
  m1 = m1
  m2 = m2
  Machine = {m1}
  Worker = {"w1", "w2"}
  HostOf <- SameHost
  Sleepers = {}
  Kind = {"role-install", "local-user-add"}
  Session = {}
  Secret = {"local-user-add"}
  Timeout <- Limits
  Http = 0
  Pause = 1
  Stale = 3
  MaxTasks = 2
  MaxFaults = 2
SPECIFICATION Spec
INVARIANTS
  TypeOK
  StartedOnce
  HeldIsNotReaped
  DoneMeansRan
  NoSecretOutlives
  InOrder
PROPERTIES
  FinishedIsFinal
