SPECIFICATION Spec
CONSTANTS
  Files <- ShortFiles
  NoFile = NoFile
  chunk_size = 3
  UintRange = 11
  PlainLength = 4
  Buffers = {5, 7}
CHECK_DEADLOCK FALSE
INVARIANTS
  NothingOverrun
  MessageArrivesWhole
  AttachmentArrives
