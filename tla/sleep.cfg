SPECIFICATION Spec
CONSTANTS
  Config <- SleepConfig
  World <- SleepWorld
  NoDeparture = NoDeparture
INVARIANTS
  NightlyCleanUnlessRescued
PROPERTIES
  NoLongSleepWithoutData
  NoAbsurdSleep
  WakesBeforeBus
