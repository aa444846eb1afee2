SPECIFICATION Spec
CONSTANTS
  r1 = r1
  Readers <- OneReader
  PointSize = 5
  Points = 2
  MaxBytes = 12
  Devices <- BothDevices
  MaxJunk = 8
  MaxPulls = 3
INVARIANTS
  PullAnswers
  HeaderNotMissed
CHECK_DEADLOCK FALSE
