SPECIFICATION Spec
CONSTANTS
  MASK = 135
  POINTS = 2
  PointSize = 2
  MaxNoise = 5
  MaxCount = 3
  Faults <- AllFaults
INVARIANTS
  InterruptRestores
  AnswerWhole
CHECK_DEADLOCK FALSE
