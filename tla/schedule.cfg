SPECIFICATION Spec
CONSTANTS
  Minute = 2
  MaxSlots = 3
  Day = 16
  CutoffHour = 2
  QueryHour = 12
  MaxAge = 32
  Limit = 7
  Streams <- MCStreams
  Diva <- MCDiva
  Timetable <- MCTimetable
  StopOf <- MCStopOf
  CallOk = {TRUE, FALSE}
  Delays <- MCDelays
  Boots = {0, 5, 13}
  LastDay = 3
INVARIANTS
  RowIsNextDepartures
  BridgesTheNight
CHECK_DEADLOCK FALSE
