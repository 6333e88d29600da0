\* A refresh asked for while the policy stays the same.
CONSTANTS
  Doc = {"a"}
  First = "a"
  Update <- Off
  Schedules <- Default
  Joined = 0
  MaxVersion = 1
  MaxQueued = 1
  MaxFaults = 1
SPECIFICATION Spec
INVARIANTS
  UnchangedIsApplied
