CONSTANTS
  WebLoop = web
  Threads = {scan}
  Processes = {cli}
  Euids = {e1, e2, e3}
  Names = {n1, n2}
  Devices = {n1}
  Curations = {v1}
  Draft = draft
  Serials = {s1, s2}
  Blank = blank
  MaxOps = 4
  NoRow = noRow
  NoEuid = noEuid
SPECIFICATION Spec
SYMMETRY Symmetry
PROPERTY CuratedNeverOverwritten
CHECK_DEADLOCK FALSE
