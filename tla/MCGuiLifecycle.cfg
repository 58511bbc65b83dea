CONSTANTS
  Shells = {sh1, sh2}
  Pids = {p1, p2}
  Endpoints = {e1, e2}
  DefaultAt = e1
  MaxCommands = 3
SYMMETRY Alike
SPECIFICATION Spec
INVARIANTS
  TypeOK
  NoOrphan
  MetaTellsEndpoint
CHECK_DEADLOCK FALSE
