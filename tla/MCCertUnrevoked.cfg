SPECIFICATION Spec
CONSTANTS
  p = p
  q = q
  g = g
  Cli <- Nobody
  Gui <- Window1
  None = None
  Half = Half
  CaKeys = {ca}
  Subjects = {alice, bob, carol}
  Uses = {encrypt, sign}
  Masks = {{encrypt}}
  Days = {1}
  MaxTime = 0
  MaxIssued = 3
  MaxEntries = 3
  MaxBatch = 2
  MaxCommands = 3
  MaxFaults = 0
INVARIANTS
  WindowRevocationsKept
CHECK_DEADLOCK FALSE
