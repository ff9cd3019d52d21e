SPECIFICATION Spec
CONSTANTS
  Bits <- MCBits
  Rows = 3
  Stride = 2
  MaxRun = 4
  RleCap = 6
  Frames <- MCTallFrames
  CycleCap = 1
  ErrorCap = 1
  Instants <- MCInstant
  MinPlausible = 5
  Triggers <- MCTriggers
  Sleeps <- MCSleeps
  MaxSleep = 2
INVARIANT
  NeverLoadsAMix
