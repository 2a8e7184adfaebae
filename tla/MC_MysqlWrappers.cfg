SPECIFICATION Spec
CONSTANTS
  Conn = {c1, c2}
  Rs = {r1, r2}
  Result = {a1, a2, a3}
  NULL = null
  MaxRows = 1
  MaxQueries = 3
  InitMayFail = TRUE
  Reuse = FALSE
SYMMETRY Symmetry
INVARIANTS
  ResultsHaveOneOwner
  NothingLeaks
PROPERTIES
  ImplementsInterface

