SPECIFICATION DurabilitySpec
CONSTANTS
  a = a
  b = b
  encrypt = encrypt
  decrypt = decrypt
  Byte <- TwoBytes
  Scrambled = scrambled
  ChunkSize = 2
  Interval = 4
  Sources <- StableSources
  MaxRuns = 4
  MaxFaults = 2
  MaxEdits = 0
  EditPcs <- OnlyIdle
  Release = FALSE
  BareName = FALSE
INVARIANTS
  TypeOK
  CheckpointDurable
  ResumedWell
  
  
  LogHolds
PROPERTIES
  ProgressIsKept
  
CHECK_DEADLOCK FALSE
