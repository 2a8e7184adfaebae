SPECIFICATION MCSpec
CONSTANTS
  Posts = 2
  Page = {p1, p2}
  None = none
  NL = nl
  Session = {s1, s2}
  Email = {e1, e2}
  Password = {pw1}
  Shape = {"good", "6"}
  Account <- MCAccount
  Hours = 1
  MaxUsers = 2
  MaxTime = 1
  Computer = {c1, c2}
  Address = {i1, i2}
  MaxRows = 3
SYMMETRY Symmetry
CHECK_DEADLOCK FALSE
INVARIANTS
  QueueOfTheOthers
  CodesServeTheirAddress
  OneAccountPerAddress
  MailedCodesWork
  LatestAddressIsShown
PROPERTIES
  MessagesAreShown
