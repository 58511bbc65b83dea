\* Two requests per window of two clock units and two permits: a client
\* fills its window, another one takes the last permit, and the clock runs
\* long enough for a full window to expire twice.
CONSTANTS
  Clients = {c1, c2}
  Requests = {r1, r2, r3, r4, r5}
  MaxRequests = 2
  Window = 2
  MaxConcurrent = 3
  MaxTime = 5
SPECIFICATION Spec
SYMMETRY Symmetry
INVARIANTS
  TypeOK
  WindowBound
  PermitsBalance
  LogKeepsWindow
PROPERTY AdmissionSpec
CHECK_DEADLOCK FALSE
