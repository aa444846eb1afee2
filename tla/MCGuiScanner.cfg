SPECIFICATION FairSpec
CONSTANTS
  MaxStarts = 2
  Points <- TwoThenNone
INVARIANTS
  
  ScanningKnown
  NoParserLeftBehind
  ButtonsReset
PROPERTY StartComesBack
CHECK_DEADLOCK FALSE
