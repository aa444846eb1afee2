SPECIFICATION Spec
CONSTANTS
  MinFreq = 1
  MaxFreq = 3
  FirstStart = 1
  FirstStop = 3
  MaxPoints = 3
  FirstScans = 2
  IntHalf = 16
  Values <- Entered
  MaxScans = 2
  MaxVnas = 2
  TableFaults <- AllTableFaults
  NoScan = NoScan
INVARIANTS
  SettingsSane
  SlotsCounted
  LiveScanKnown
  StopAllFrees
PROPERTY ThreadsNotLost
CHECK_DEADLOCK FALSE
