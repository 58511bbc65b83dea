CONSTANTS
  ScanIds = {s1}
  Hosts = 2
SPECIFICATION Spec
INVARIANT PartialResultsSaved
CHECK_DEADLOCK FALSE
