SPECIFICATION SpecLoaded
CONSTANTS
  Minute = 2
  MaxSlots = 3
  Day = 16
  CutoffHour = 2
  QueryHour = 12
  MaxAge = 32
  Limit = 12
  Streams <- MCStreams
  Diva <- MCDiva
  Timetable <- MCTimetable
  StopOf <- MCStopOf
  CallOk = {TRUE}
  Delays <- MCDelays
  Boots = {13}
  LastDay = 3
INVARIANT
  MorningBusKnown
CHECK_DEADLOCK FALSE
