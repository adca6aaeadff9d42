SPECIFICATION LibrarySpec
CONSTANTS
  old = old
  new = new
  other = other
  p1 = p1
  p2 = p2
  Nobody = Nobody
  Absent = Absent
  Keys <- ThreeKeys
  KemOf <- OldApart
  Files <- TwoFiles
  Earlier <- Before
  Lists <- SomeLists
  NewKeys = {new}
  AddKeys = {old, new}
  Rotators = {p1}
  RekeyKeys = {old}
  MaxRecipients = 4
  Processes <- TwoCommands
  MaxCommands = 2
  MaxFaults = 1
INVARIANTS
  LibraryTypeOK
  CallsHold
  OpensForItsRecipients
  AcknowledgedHolds
PROPERTIES
  OneStream
  OneText
  EventuallyReturns
  EventuallyRotated
CHECK_DEADLOCK FALSE
