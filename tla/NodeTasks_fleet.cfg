\* A machine that may be suspended beside one that may not.  The one kind that
\* is no session stands for all of them: long, and with a password to set.
CONSTANTS
  m1 = m1
  m2 = m2
  Machine = {m1, m2}
  Worker = {"w1", "w2"}
  HostOf <- TwoHosts
  Sleepers = {"w2"}
  Kind = {"role-install", "shell-session"}
  Session = {"shell-session"}
  Secret = {"role-install"}
  Timeout <- Limits
  Http = 0
  Pause = 1
  Stale = 3
  MaxTasks = 2
  MaxFaults = 1
SPECIFICATION FairSpec
INVARIANTS
  TypeOK
  StartedOnce
  HeldIsNotReaped
  DoneMeansRan
  NoSecretOutlives
  InOrder
PROPERTIES
  FinishedIsFinal
  ImplementsQueue
  EveryTaskSettles
