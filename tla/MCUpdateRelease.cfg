SPECIFICATION Spec
CONSTANTS
  None = None
  Directories <- MCDirectories
  MaxVersion = 2
  MaxData = 2
  MaxRuns = 3
INVARIANTS TypeOK OneWhole AllOrNothing ServiceWhole
CHECK_DEADLOCK FALSE
