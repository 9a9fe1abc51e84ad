SPECIFICATION AllSpec
CONSTANTS
  b1 = b1
  w1 = w1
  Broker = {b1}
  Workspace = {w1}
  WorkspaceOf <- OneWorkspace
  Original = Original
  s1 = s1
  s2 = s2
  Session = {s1, s2}
  Busy = {s1}
  MaxActive = 1
  MaxRetained = 1
  p1 = p1
  p2 = p2
  Process = {p1, p2}
  MaxBoots = 3
INVARIANTS
  AllTypeOK
  BoundaryHolds
  TerminalLimits
PROPERTIES
  EndedStaysEnded
  ServedFromOwnDatabase
  EverythingEnds
CHECK_DEADLOCK FALSE
