SPECIFICATION UseSpec
CONSTANTS
  MaxPorts = 2
  a = a
  b = b
  r1 = r1
  r2 = r2
  RAW = RAW
  NONE = NONE
  Paths <- MCPaths
  TooLong <- MCTooLong
  Vnas <- MCVnas
  Faults <- UseFaults
  Readers <- MCReaders
  MaxPending = 2
SYMMETRY Alike
VIEW WithoutSettings
INVARIANTS
  OwnLine
CHECK_DEADLOCK FALSE
