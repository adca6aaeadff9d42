SPECIFICATION Spec
CONSTANTS
  p = p
  q = q
  Procs <- Both
  Single = {a}
  Others = {b}
  None = None
  Half = Half
  Lengths = {8, 9}
  Chunk = 4
  EncryptOptions <- SomeEncrypts
  DecryptOptions <- SomeDecrypts
  BareNames = FALSE
  MaxCommands = 2
  MaxFaults = 1
INVARIANTS
  TypeOK
  NeverHalf
  ReportsHold
  ResumedIsSealed
SYMMETRY Symmetry
CHECK_DEADLOCK FALSE
