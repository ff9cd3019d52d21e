SPECIFICATION CadenceSpec
CONSTANTS
  Config <- CadenceConfig
  World <- CadenceWorld
  NoDeparture = NoDeparture
INVARIANTS
  ScreenNeverOverdue
