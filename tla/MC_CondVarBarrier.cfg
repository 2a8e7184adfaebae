SPECIFICATION FairSpec
CONSTANTS
  Workers = {w1, w2, w3, w4}
  Main = main
  NoOwner = none
  Target = 4
INVARIANTS
  OwnersAreInside
  NoLostWakeup
PROPERTIES
  ImplementsRendezvous
  MainReturns
