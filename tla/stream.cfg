SPECIFICATION Spec
CONSTANTS
  MaxHex = 3
  Messages <- MCMessages
INVARIANT
  OnlyTheBody
PROPERTY
  ReadEnds
CHECK_DEADLOCK FALSE
