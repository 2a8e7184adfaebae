SPECIFICATION FairSpec
CONSTANTS
  Server = server
  Bad = bad
  Pid = {p1, p2}
  Client = {c1, c2}
  Addresses = 2
CHECK_DEADLOCK FALSE
INVARIANTS
  DescriptorsStayPrivate
  OneListener
  HelperNeverOutlivesChild
PROPERTIES
  EveryZombieIsReaped
  EveryClientIsLetGo
