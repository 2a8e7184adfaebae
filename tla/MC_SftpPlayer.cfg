SPECIFICATION FairSpec
CONSTANTS
  Track = {1, 2, 3}
  Listings <- SortedListings
  Heights = {3, 5, 6}
  MaxInterrupts = 2
CHECK_DEADLOCK FALSE
INVARIANTS
  CursorIsShown
  NoPlayerIsLeft
PROPERTIES
  MarksKeepTheirTrack
  EscStops
