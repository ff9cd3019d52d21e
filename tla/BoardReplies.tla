---------------------------- MODULE BoardReplies ----------------------------
(***************************************************************************)
(* What the two realtime parsers make of their replies: the S-Bahn slots   *)
(* of a HAFAS station board (src/src/data/oebb_hafas_parse.cpp) and the    *)
(* bus slots of an OGD monitor reply (src/src/data/wienerlinien_parse.cpp) *)
(* for the filters of src/src/logic/filter_builder.cpp.  Instants are Unix *)
(* seconds, 0 stands for a field that is absent or cannot be read.         *)
(***************************************************************************)
EXTENDS SlotMerger

SBahn == "SBAHN_HBF"
StreamOrder == <<"58A_ATZ", "58A_HIETZING", "58B_ATZ", SBahn>>

(***************************************************************************)
(* HAFAS.  A journey is [plan, real, cancelled]: dTimeS and dTimeR on the  *)
(* date each of them falls back to, as mktime reads them.                  *)
(***************************************************************************)
Slot(plan, real, planned) ==
  [when |-> IF real # 0 THEN real ELSE plan,
   source |-> IF real # 0 THEN "Realtime" ELSE "Plan",
   planned |-> planned]

\* Mutant: a train that has just left keeps its slot
MutTakeJourney(slots, j, t) ==
  LET d == Slot(j.plan, j.real, 0)
  IN  IF \/ Len(slots) >= MaxSlots
         \/ j.cancelled
         \/ d.when = 0
         \/ \E i \in DOMAIN slots : MinuteOf(slots[i]) = MinuteOf(d)
      THEN slots ELSE Append(slots, d)

\* the body of consumeOebbDoc's loop
TakeJourney(slots, j, t) ==
  LET d == Slot(j.plan, j.real, 0)
  IN  IF \/ Len(slots) >= MaxSlots
         \/ j.cancelled
         \/ d.when = 0
         \/ d.when < t
         \/ \E i \in DOMAIN slots : MinuteOf(slots[i]) = MinuteOf(d)
      THEN slots ELSE Append(slots, d)

\* parseOebbStationBoard for a body whose err is "OK"
ParseOebbStationBoard(journeys, t) ==
  LET taken[n \in 0..Len(journeys)] ==
        IF n = 0 THEN <<>> ELSE TakeJourney(taken[n - 1], journeys[n], t)
  IN  taken[Len(journeys)]

(***************************************************************************)
(* OGD.  A time is written as [date, tod, zone]: a civil date, the seconds *)
(* of the day and the offset from UTC.  A field is a sequence: empty, or   *)
(* the time it holds.                                                      *)
(***************************************************************************)
SecondsPerDay == 86400

\* Mutant: January and February are counted to the year they are in
MutCivilToDays(date) ==
  LET era == date.y \div 400
      yoe == date.y - era * 400
      doy == (153 * (date.m + (IF date.m > 2 THEN -3 ELSE 9)) + 2) \div 5 + date.d - 1
  IN  era * 146097 + (yoe * 365 + yoe \div 4 - yoe \div 100 + doy) - 719468

\* civil_to_days: the year begins in March
CivilToDays(date) ==
  LET y   == IF date.m <= 2 THEN date.y - 1 ELSE date.y
      era == y \div 400
      yoe == y - era * 400
      doy == (153 * (date.m + (IF date.m > 2 THEN -3 ELSE 9)) + 2) \div 5 + date.d - 1
  IN  era * 146097 + (yoe * 365 + yoe \div 4 - yoe \div 100 + doy) - 719468

ParseIso8601(field) ==
  IF field = <<>> THEN 0
  ELSE CivilToDays(field[1].date) * SecondsPerDay + field[1].tod - field[1].zone

\* buildStreamFilters; a stop or a line is a name, the S-Bahn has none
Filters ==
  [s \in ToSet(StreamOrder) |->
     CASE s = "58A_ATZ"      -> [rbl |-> "TULL_ATZ",      line |-> "58A", towards |-> "Atzgersdorf"]
       [] s = "58A_HIETZING" -> [rbl |-> "TULL_HIETZING", line |-> "58A", towards |-> "Hietzing"]
       [] s = "58B_ATZ"      -> [rbl |-> "ENDEMANN",      line |-> "58B", towards |-> "Atzgersdorf"]
       [] s = SBahn          -> [rbl |-> "none",          line |-> "",    towards |-> ""]]

Serves(s, line) == line.name = Filters[s].line /\ line.towards = Filters[s].towards

\* a departure without a time is passed over, and so are those after MaxSlots
TakeDeparture(slots, dep) ==
  LET plan == ParseIso8601(dep.plan)
      d == Slot(plan, ParseIso8601(dep.real), plan)
  IN  IF d.when = 0 \/ Len(slots) >= MaxSlots THEN slots ELSE Append(slots, d)

LineSlots(departures) ==
  LET taken[n \in 0..Len(departures)] ==
        IF n = 0 THEN <<>> ELSE TakeDeparture(taken[n - 1], departures[n])
  IN  taken[Len(departures)]

\* One monitor: the first line that matches, written over the slots from the
\* front.
TakeMonitor(s, slots, mon) ==
  LET mine == {l \in DOMAIN mon.lines : Serves(s, mon.lines[l])}
      own  == CHOOSE l \in mine : \A m \in mine : l <= m
      new  == LineSlots(mon.lines[own].departures)
  IN  IF mon.rbl # Filters[s].rbl \/ mine = {} THEN slots
      ELSE new \o SubSeq(slots, Len(new) + 1, Len(slots))

\* parseMonitorResponse, and runOgdBatchLoop copying out what it asked for
ParseMonitorResponse(monitors, asked) ==
  [s \in ToSet(StreamOrder) |->
     LET taken[n \in 0..Len(monitors)] ==
           IF n = 0 THEN <<>> ELSE TakeMonitor(s, taken[n - 1], monitors[n])
     IN  IF s \in asked THEN taken[Len(monitors)] ELSE <<>>]
=============================================================================
