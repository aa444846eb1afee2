SPECIFICATION FairSession
CONSTANTS
  v1 = v1
  v2 = v2
  printer = printer
  NULL = NULL
  Producers <- OneReader
  Data <- OneReader
  Consumers <- ThePrinter
  Consumer = printer
  Modes <- OnlyNum
  Faults <- NoFaults
  N = 2
  NbrScans = 2
  NbrSweeps = 1
PROPERTIES
  NumScanEnds
CHECK_DEADLOCK FALSE
