SPECIFICATION Spec
CONSTANTS
  Minute = 60
  MaxSlots = 3
  Ssids <- MCSsids
  LowerCase <- MCLowerCase
  TextWidth <- MCTextWidth
  TextHeight <- MCTextHeight
  Worlds <- MCWorlds
  Dates <- MCDates
  Trains <- MCTrains
  Stops <- MCStops
  Lines <- MCLines
  BusTimes <- MCBusTimes
  Asked = {"58A_HIETZING", "58B_ATZ"}
  Lags = {0, 35}
  Networks = {0, 2, 4}
  MaxEntries = 5
INVARIANTS
  SBahnRowIsNextTrains
  BusRowIsOfItsLine
  NothingOverlaps
  GaugesTellApart
CHECK_DEADLOCK FALSE
