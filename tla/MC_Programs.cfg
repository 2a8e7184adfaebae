SPECIFICATION MCSpec
CONSTANTS
  MaxCount = 4
  Bound = 3
  Modulus = 16
  Width = 5
  CharSize = 16
  MaxTyped = 19
  Chars = {45, 48, 49, 58}
  MaxLength = 5
  LongHalf = 16
  ShortHalf = 4
  conn = conn
  rs1 = rs1
  rs2 = rs2
  Programs = {"n_connection", "f_connection", "u_connection"}
  Result = {a1, a2}
  NULL = null
  MaxRows = 3
  MaxQueries = 2
  MaxImages = 4
  Heights = {4, 5, 6, 7, 8, 9}
  Jobs = {1, 2}
  MaxRegistrations = 2
CHECK_DEADLOCK FALSE
INVARIANTS
  IndexIsFirstBalance
  OneBitChanges
  DigitsAreRead
  DetailedNeverCrashes
  NothingLeaks
  EveryProgramRuns
  MenuFits
  JobsLeaveNothing
PROPERTIES
  ProgramsReturn
