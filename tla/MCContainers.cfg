SPECIFICATION Spec
CONSTANTS
  k1 = k1
  k2 = k2
  k3 = k3
  None = None
  Keys <- ThreeKeys
  Variant <- Variants
  Chunk = 2
  MaxChunk = 3
  MaxSize = 4
  Tag = 2
  MaxText = 4
  LastRound = 2
  MaxFaults = 1
INVARIANTS
  OpensAsWritten
  NeverOther
  OnlyItsReaders
  
SYMMETRY Symmetry
CHECK_DEADLOCK FALSE
