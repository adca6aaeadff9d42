SPECIFICATION FairSpec
CONSTANTS
  MaxPieces = 6
  Capacity = 2
  MaxCounter = 9
  ReadFails = FALSE
  WriteFails = TRUE
  ReaderPanics = FALSE
PROPERTIES
  Returns
CHECK_DEADLOCK FALSE
