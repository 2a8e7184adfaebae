SPECIFICATION RunnerSpec
CONSTANTS
  Instance = {i1, i2}
  None = none
  MaxSignals = 2
INVARIANTS
  OnlyOneInstance
