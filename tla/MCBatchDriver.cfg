SPECIFICATION FairBatch
CONSTANTS
  v1 = v1
  v2 = v2
  printer = printer
  NULL = NULL
  Producers <- TwoReaders
  Data <- TwoReaders
  Consumers <- ThePrinter
  Consumer = printer
  Modes <- AllModes
  Faults <- AllFaults
  N = 2
  NbrScans = 3
  NbrSweeps = 1
  Callers <- BothCallers
  CommandLines <- SomeLines
  Defaults <- NoArguments
  MinFreq = 1
  MaxFreq = 3
  MaxPoints = 3
  StartFaults <- AllStartFaults
INVARIANTS
  StateTellsProgress
  CompleteMeansDone
  NothingLeftBehind
  Conservation
  FreedWhenQuiet
  IdleMeansOver
  BatchPrintsAll
PROPERTIES
  NumScanSettles
  StopSettles
  DriverSettles
CHECK_DEADLOCK FALSE
