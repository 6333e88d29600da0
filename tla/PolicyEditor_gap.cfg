\* The fonts of an object, whose file nobody waits for.
SPECIFICATION Spec
CONSTANTS
  Chosen = {"fonts"}
  MaxWrites = 1
  MaxUnderWay = 2
  MaxFaults = 0
PROPERTY NoSaveInTheGap
