CONSTANTS
  Processes = {first, second}
  Versions <- MCVersions
  Upper <- MCUpper
  Launches <- MCLaunches
  Prefixes = {"ZLB", "ZPR"}
  OtherPrefixes = {}
  Stranger = "other"
  Registries <- MCRegistries
  FirstRows <- MCRows
  MaxEdits = 1
  MaxStrangers = 1
  ZplPorts = {1, 2}
  HttpPorts = {2, 3}
  Printers = {"printer"}
  NoPrinter = "nobody"
  Conditions = {"ready", "paused"}
  Ttl = 2
  MaxClock = 3
  MaxTurns = 1
  Labels <- MCLabels
  Value <- MCValue
  Unencodable <- MCUnencodable
SYMMETRY Interchangeable
SPECIFICATION Spec
INVARIANTS
  TypeOK
  ClaimsKept
  ServesAsConfigured
  PortsAccounted
  PreviewShowsFields
PROPERTY StatusSpec
CHECK_DEADLOCK FALSE
