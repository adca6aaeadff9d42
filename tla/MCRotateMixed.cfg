SPECIFICATION Spec
CONSTANTS
  old = old
  new = new
  other = other
  p1 = p1
  p2 = p2
  Nobody = Nobody
  Absent = Absent
  Keys <- ThreeKeys
  KemOf <- AllAlike
  Files <- TwoFiles
  Earlier <- Mixed
  Lists <- SomeLists
  NewKeys = {new}
  AddKeys = {old, new}
  Rotators = {p1}
  RekeyKeys = {old}
  MaxRecipients = 4
  Processes <- TwoCommands
  MaxCommands = 0
  MaxFaults = 0
INVARIANT RotateReports
CHECK_DEADLOCK FALSE
