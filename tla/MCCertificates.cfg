SPECIFICATION Spec
CONSTANTS
  p = p
  q = q
  g = g
  Cli <- Lone
  Gui <- Window1
  None = None
  Half = Half
  CaKeys = {ca, other}
  Subjects = {alice}
  Uses = {encrypt, sign}
  Masks = {{encrypt}}
  Days = {1}
  MaxTime = 2
  MaxIssued = 2
  MaxEntries = 2
  MaxBatch = 2
  MaxCommands = 3
  MaxFaults = 1
INVARIANTS
  TypeOK
  RevokedCertRefused
  AcceptedWasTrusted
SYMMETRY Symmetry
CHECK_DEADLOCK FALSE
