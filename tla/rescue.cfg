SPECIFICATION FairSpec
CONSTANTS
  Config <- MCConfig
  World <- RescueWorld
  NoDeparture = NoDeparture
PROPERTIES
  RescueNotBackToBack
  CycleEnds
