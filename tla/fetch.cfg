SPECIFICATION Spec
CONSTANTS
  MaxAttempts = 2
  Tripwire = 3
  MaxFetches = 3
INVARIANTS
  WrongPasswordProven
  FlagSaysWhatServersSaid
PROPERTY
  KeepsPromise
