SPECIFICATION FairSpec
CONSTANTS
  a = a
  b = b
  pab = pab
  k1 = k1
  None = None
  Files <- TwoFiles
  OutPath <- SameName
  Keys = {k1}
  MaxEntries = 2
  ClearAnyTime = FALSE
  Logging = FALSE
INVARIANTS
  TypeOK
  
  
PROPERTY
  EventuallyIdle
CHECK_DEADLOCK FALSE
