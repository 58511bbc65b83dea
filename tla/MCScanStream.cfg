CONSTANTS
  ScanIds = {s1}
  Hosts = 3
SPECIFICATION FairSpec
INVARIANTS
  TypeOK
  CancelInTime
  EntryFollowsWorker
  VerdictBeforeEnd
  NothingAfterTheEnd
PROPERTIES
  PageLearns
  StreamEnds
CHECK_DEADLOCK FALSE
