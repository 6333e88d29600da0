\* Pushes, clicks on Refresh, two schedules, releases taken, pinned and withdrawn,
\* failures and restarts.
CONSTANTS
  Doc = {"a", "b"}
  First = "a"
  Update <- TakeOrPin
  Schedules <- Extremes
  Joined = 2000
  MaxVersion = 2
  MaxQueued = 1
  MaxFaults = 1
SPECIFICATION FairSpec
INVARIANTS
  TypeOK
  WaitIsTheDomains
  NewIsApplied
PROPERTIES
  PolicyArrives
