SPECIFICATION Spec
CONSTANTS
  Config <- PanelConfig
  World <- PanelWorld
  NoDeparture = NoDeparture
INVARIANTS
  TypeOK
  GlassFaithful
  GhostsBounded
PROPERTIES
  BootScreenOnlyWithoutBoard
