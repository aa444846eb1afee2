SPECIFICATION FairSpec
CONSTANTS
  MaxPorts = 3
  a = a
  b = b
  c = c
  d = d
  long = long
  RAW = RAW
  NONE = NONE
  Paths <- MCPaths
  TooLong <- MCTooLong
  Vnas <- MCVnas
  Faults <- AllFaults
INVARIANTS
  TableAgrees
  OwnSettings
  SettingsComeBack
  CrashNeedsHole
PROPERTY CommandsEnd
CHECK_DEADLOCK FALSE
