SPECIFICATION RecordsSpec
CONSTANTS
  note = note
  other = other
  aux = aux
  x = x
  y = y
  Zero = Zero
  p = p
  q = q
  g = g
  Cli <- Lone
  Gui <- Window1
  None = None
  Half = Half
  Blocks = {a, b}
  Size = 2
  MaxKeys = 2
  MaxCommands = 2
  MaxEdits = 1
  MaxFaults = 1
INVARIANTS
  RecordsTypeOK
  AcceptedWasSigned
  ReportedOpens
  SigningPairMatches
  ExtractedIsArchived
SYMMETRY Symmetry
CHECK_DEADLOCK FALSE
