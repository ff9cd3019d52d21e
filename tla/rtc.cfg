SPECIFICATION Spec
CONSTANTS
  Bits <- MCBits
  Rows = 2
  Stride = 2
  MaxRun = 3
  RleCap = 4
  Frames <- MCFrames
  CycleCap = 3
  ErrorCap = 1
  Instants <- MCInstants
  MinPlausible = 5
  Triggers <- MCTriggers
  Sleeps <- MCSleeps
  MaxSleep = 2
INVARIANT
  LoadsWhatWasSaved
PROPERTY
  TraceIsLog
