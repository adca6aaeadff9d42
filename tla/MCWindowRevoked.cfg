SPECIFICATION Spec
CONSTANTS
  p = p
  q = q
  g = g
  Cli <- Lone
  Gui <- Window1
  Dirs = {d}
  None = None
  Half = Half
  Passphrases = {a, b}
  Protections = {None, a}
  Ed25519 = ed25519
  SshFiles = {ed25519, rsa}
  SharedLabels = FALSE
  MaxCommands = 2
  MaxFaults = 1
INVARIANTS
  WindowRefusesRevoked
CHECK_DEADLOCK FALSE
