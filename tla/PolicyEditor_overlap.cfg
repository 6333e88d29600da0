\* Two saves, or a save and a rollback, of one object at a time.
SPECIFICATION Spec
CONSTANTS
  Chosen = {"updates", "power"}
  MaxWrites = 2
  MaxUnderWay = 2
  MaxFaults = 0
PROPERTY OverwrittenIsKept
