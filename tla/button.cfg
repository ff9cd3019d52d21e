SPECIFICATION Spec
CONSTANTS
  LongMs = 4
  DoubleMs = 3
  DebounceMs = 2
  PollMs = 1
  Lag = 1
  Modulus = 9
  DiagMax = 2
  PageCount = 4
  MaxClockSteps = 1
PROPERTIES
  VerdictsOnTime
  OneResetPerHold
  SessionEnds
