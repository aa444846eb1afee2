SPECIFICATION Spec
CONSTANTS
  MinFreq = 1
  MaxFreq = 5
  FirstStart = 1
  FirstStop = 3
  MaxPoints = 3
  FirstScans = 2
  IntHalf = 8
  Values = {}
  Room = 5
  MaxVnas = 2
  MaxScans = 2
  Letters <- Spelling
  Parts <- WordParts
  Number <- Words
  Scripts <- UserScripts
  Requests <- WrapperRequests
INVARIANTS
  AskedIds
  EveryWordRead
  WrapperScans
PROPERTY NothingAfterTheEnd
CHECK_DEADLOCK FALSE
