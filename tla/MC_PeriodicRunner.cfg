SPECIFICATION RunnerSpec
CONSTANTS
  Instance = {i1, i2, i3}
  None = none
  MaxSignals = 2
INVARIANTS
  FileHasOwner
PROPERTIES
  StaysAliveUnlessKilled
