SPECIFICATION Spec
CONSTANTS
  Tests = 2
  MaxSteps = 2
  ByteBits = 2
  Ints <- MCInts
  Chars <- MCChars
  Strings <- MCStrings
  Arrays <- MCArrays
INVARIANTS
  VerdictsRight
  FailureTells
CHECK_DEADLOCK FALSE
