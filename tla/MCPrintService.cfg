CONSTANTS
  Clients = {c1}
  Requests = {r1, r2}
  MaxRequests = 1
  Window = 1
  MaxConcurrent = 1
  MaxTime = 1
  Processes = {cli}
  Templates = {t1}
  Packages = {t1}
  Shipped = shipped
  Contents = {fine, asks}
  Unfillable = {asks}
  Blank = blank
  MaxCopies = 2
  Raw = raw
  NoStyle = noStyle
SPECIFICATION FairSpec
INVARIANTS
  TypeOK
  NeverBusy
  AnswerTellsPaper
  JobTellsPaper
  PrintsCurrentTemplate
PROPERTIES
  LimiterSpec
  PrintsEnd
CHECK_DEADLOCK FALSE
