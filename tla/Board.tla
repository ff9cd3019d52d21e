------------------------------- MODULE Board --------------------------------
(***************************************************************************)
(* From replies to pixels: the two servers list what they know, the        *)
(* parsers fill the slots (BoardReplies), time passes until they are       *)
(* merged (SlotMerger), and the renderer lays the row out (BoardLayout) -  *)
(* or, without a network, the KEIN-EMPFANG screen.                         *)
(***************************************************************************)
EXTENDS BoardReplies, BoardLayout

CONSTANTS
  Worlds,        \* [start, zone]: when the fetch is, the zone OGD writes in
  Dates,         \* civil dates around the starts
  Trains,        \* journeys as [plan, real, cancelled]
  Stops,         \* the rbl of monitors
  Lines,         \* [name, towards] of lines
  BusTimes,      \* departures as [plan, real]
  Asked,         \* the streams of the OGD batch that is answered
  Lags,          \* seconds from the fetch to the merge
  Networks,      \* how many networks a scan finds
  LowerCase,     \* the spelling of a name without capitals
  MaxEntries     \* bound: journeys, monitors, lines and departures listed

VARIABLES
  world,       \* what of Worlds this behaviour is in
  journeys,    \* what the HAFAS reply lists
  monitors,    \* what the OGD reply lists
  slots,       \* out.stream of the fetch, by stream; empty before it
  view         \* what is on the panel

vars == <<world, journeys, monitors, slots, view>>

(***************************************************************************)
(* The civil calendar, counted from the definition of a leap year, and how *)
(* the servers write an instant.                                           *)
(***************************************************************************)
Leap(y) == y % 4 = 0 /\ (y % 100 # 0 \/ y % 400 = 0)
MonthDays(y) == <<31, IF Leap(y) THEN 29 ELSE 28, 31, 30, 31, 30, 31, 31, 30, 31, 30, 31>>
DayNumber(date) ==
  LET before[m \in 0..12] == IF m = 0 THEN 0 ELSE before[m - 1] + MonthDays(date.y)[m]
  IN  365 * (date.y - 1970) + Cardinality({y \in 1970..date.y - 1 : Leap(y)})
        + before[date.m - 1] + date.d - 1

Days == {DayNumber(d) : d \in Dates}

\* A time the servers know is a sequence: empty, or the seconds from the start.
ASSUME WorldAssumption ==
  /\ Asked \subseteq ToSet(StreamOrder) \ {SBahn} /\ Lags \subseteq Nat /\ Networks \subseteq Nat
  /\ \A w \in Worlds : w.start \in Nat /\ w.zone \in Int
  /\ \A d \in Dates : d.y \in Nat /\ d.y >= 1970 /\ d.m \in 1..12 /\ d.d \in 1..MonthDays(d.y)[d.m]
  /\ Trains \subseteq [plan : Seq(Int), real : Seq(Int), cancelled : BOOLEAN]
  /\ BusTimes \subseteq [plan : Seq(Int), real : Seq(Int)]
  /\ \A times \in Trains \cup BusTimes : Len(times.plan) <= 1 /\ Len(times.real) <= 1
  \* Dates has every date a server writes
  /\ \A w \in Worlds, times \in BusTimes : \A time \in {times.plan, times.real} :
       time # <<>> => (w.start + time[1] + w.zone) \div SecondsPerDay \in Days

DateOf == [n \in Days |-> CHOOSE d \in Dates : DayNumber(d) = n]

Instant(time) == IF time = <<>> THEN 0 ELSE world.start + time[1]

Written(time) ==
  [i \in DOMAIN time |->
     LET local == world.start + time[i] + world.zone
     IN  [date |-> DateOf[local \div SecondsPerDay], tod |-> local % SecondsPerDay,
          zone |-> world.zone]]

HafasBody == [i \in DOMAIN journeys |->
                [journeys[i] EXCEPT !.plan = Instant(@), !.real = Instant(@)]]

WrittenLine(line) ==
  [line EXCEPT !.departures =
     [k \in DOMAIN line.departures |-> [plan |-> Written(line.departures[k].plan),
                                        real |-> Written(line.departures[k].real)]]]

OgdBody ==
  [i \in DOMAIN monitors |-> [monitors[i] EXCEPT !.lines = [l \in DOMAIN @ |-> WrittenLine(@[l])]]]

Listed ==
  Len(journeys) + FoldLeft(LAMBDA n, mon :
    FoldLeft(LAMBDA m, l : m + 1 + Len(l.departures), n + 1, mon.lines), 0, monitors)

-----------------------------------------------------------------------------
Init ==
  /\ world \in Worlds /\ journeys = <<>> /\ monitors = <<>> /\ slots = <<>>
  /\ view = [screen |-> "none"]

Room == slots = <<>> /\ view.screen = "none" /\ Listed < MaxEntries

\* OGD answers first: a monitor, a line of it, a departure of that
ListMonitor(rbl) ==
  /\ Room /\ journeys = <<>>
  /\ monitors' = Append(monitors, [rbl |-> rbl, lines |-> <<>>])
  /\ UNCHANGED <<world, journeys, slots, view>>

ListLine(line) ==
  /\ Room /\ journeys = <<>> /\ monitors # <<>>
  /\ monitors' = [monitors EXCEPT ![Len(monitors)].lines =
                    Append(@, [name |-> line.name, towards |-> line.towards, departures |-> <<>>])]
  /\ UNCHANGED <<world, journeys, slots, view>>

ListDeparture(times) ==
  /\ Room /\ journeys = <<>> /\ monitors # <<>> /\ Last(monitors).lines # <<>>
  /\ monitors' = [monitors EXCEPT ![Len(monitors)].lines[Len(Last(monitors).lines)].departures =
                    Append(@, times)]
  /\ UNCHANGED <<world, journeys, slots, view>>

ListTrain(j) ==
  /\ Room
  /\ journeys' = Append(journeys, j)
  /\ UNCHANGED <<world, monitors, slots, view>>

\* fetchSnapshot: the S-Bahn beside the buses asked for
Fetch ==
  /\ slots = <<>> /\ view.screen = "none"
  /\ slots' = [ParseMonitorResponse(OgdBody, Asked) EXCEPT
                 ![SBahn] = ParseOebbStationBoard(HafasBody, world.start)]
  /\ UNCHANGED <<world, journeys, monitors, view>>

\* composeRenderInput and renderFrame after a fetch; the stamp may be drawn
Show(lag) ==
  /\ slots # <<>> /\ view.screen = "none"
  /\ view' = [screen |-> "Board", at |-> world.start + lag,
              rows |-> [s \in DOMAIN slots |-> MergeSlots(slots[s], <<>>, world.start + lag)]]
  /\ UNCHANGED <<world, journeys, monitors, slots>>

\* ... and without a network
Configured == UNION {[1..n -> Ssids] : n \in 0..2}      \* MAX_CONFIGURED_APS
Scans == UNION {[1..n -> Ssids] : n \in Networks}

Empty == slots = <<>> /\ journeys = <<>> /\ monitors = <<>> /\ view.screen = "none"

\* findCaseMismatch: the first name configured that a network in range has in
\* another spelling, and that spelling
FindCaseMismatch(wanted, aps) ==
  LET alike  == {m \in (DOMAIN wanted) \X (DOMAIN aps) :
                   wanted[m[1]] # aps[m[2]] /\ LowerCase[wanted[m[1]]] = LowerCase[aps[m[2]]]}
      before(m, n) == m[1] < n[1] \/ (m[1] = n[1] /\ m[2] < n[2])
  IN  IF alike = {} THEN {<<>>}
      ELSE {<<wanted[m[1]], aps[m[2]]>> : m \in {m \in alike : \A n \in alike : ~before(n, m)}}

\* fillOfflineDiagnostics, and what is drawn of it
ShowOffline ==
  /\ Empty
  /\ \E wanted \in Configured, aps \in Scans : \E mismatch \in FindCaseMismatch(wanted, aps) :
       view' = [screen |-> "Offline", aps |-> aps, wanted |-> wanted, mismatch |-> mismatch]
  /\ UNCHANGED <<world, journeys, monitors, slots>>

\* ... and the screens that stand alone
ShowNotice(foot) ==
  /\ Empty
  /\ view' = [screen |-> "Notice", foot |-> foot]
  /\ UNCHANGED <<world, journeys, monitors, slots>>

\* ... of which one names the network whose password is wrong
ShowWifiAuth ==
  /\ Empty
  /\ \E wanted \in Configured : view' = [screen |-> "WifiAuth", wanted |-> wanted]
  /\ UNCHANGED <<world, journeys, monitors, slots>>

Next ==
  \/ \E rbl \in Stops : ListMonitor(rbl)
  \/ \E line \in Lines : ListLine(line)
  \/ \E times \in BusTimes : ListDeparture(times)
  \/ \E j \in Trains : ListTrain(j)
  \/ Fetch
  \/ \E lag \in Lags : Show(lag)
  \/ ShowOffline
  \/ \E foot \in BOOLEAN : ShowNotice(foot)
  \/ ShowWifiAuth

Spec == Init /\ [][Next]_vars

-----------------------------------------------------------------------------
(***************************************************************************)
(* Property.  The S-Bahn row shows as many trains as it has columns for or *)
(* as still run, whatever else the reply lists - trains that have left or  *)
(* are cancelled, a train listed twice - and in whatever order; and where  *)
(* the reply is in the order of departure the n-th column shows the first  *)
(* train of the n-th minute in which one runs.  (Of a train that leaves    *)
(* between fetch and merge nothing is said.)                               *)
(* oebb_hafas_parse.cpp:164-253, slot_merger.cpp:23-55.                    *)
(***************************************************************************)
When(i) == Slot(HafasBody[i].plan, HafasBody[i].real, 0).when
Running == {i \in DOMAIN HafasBody : When(i) # 0 /\ ~HafasBody[i].cancelled}

SBahnRowIsNextTrains ==
  view.screen = "Board" =>
    LET row     == view.rows[SBahn]
        ahead   == {i \in Running : When(i) >= view.at}
        minutes == {When(i) \div Minute : i \in ahead}
        stay    == \A i \in Running : When(i) \notin world.start..view.at - 1
        inOrder == \A i, k \in Running : i < k => When(i) <= When(k)
    IN  stay => /\ Len(row) = IF Cardinality(minutes) < MaxSlots THEN Cardinality(minutes) ELSE MaxSlots
                /\ inOrder => \A n \in DOMAIN row :
                     /\ \E i \in ahead : When(i) = row[n].when
                     /\ Cardinality({m \in minutes : m < MinuteOf(row[n])}) = n - 1
                     /\ \A i \in ahead : When(i) \div Minute = MinuteOf(row[n]) => When(i) >= row[n].when

(***************************************************************************)
(* Property.  A bus row shows departures of its own line, direction and    *)
(* stop at the instants the server meant, whatever zone it writes in and   *)
(* whatever day it is; and where the reply has one such line, as it should,*)
(* all of the first that are still ahead.                                  *)
(* wienerlinien_parse.cpp:32-79, 96-177, snapshot_fetcher.cpp:198-203.     *)
(***************************************************************************)
OwnLines(s) ==
  {own \in UNION {{i} \X DOMAIN monitors[i].lines : i \in DOMAIN monitors} :
     monitors[own[1]].rbl = Filters[s].rbl /\ Serves(s, monitors[own[1]].lines[own[2]])}

\* what the server means by the departures of a line
Meant(own) ==
  LET departures == monitors[own[1]].lines[own[2]].departures
  IN  [k \in DOMAIN departures |->
         Slot(Instant(departures[k].plan), Instant(departures[k].real), Instant(departures[k].plan))]

Known(own) == {k \in DOMAIN Meant(own) : Meant(own)[k].when # 0}

BusRowIsOfItsLine ==
  view.screen = "Board" => \A s \in Asked :
    LET row == view.rows[s]
    IN  /\ ToSet(row) \subseteq UNION {{Meant(own)[k] : k \in Known(own)} : own \in OwnLines(s)}
        /\ \A own \in OwnLines(s) : OwnLines(s) = {own} =>
             LET first == {k \in Known(own) : Cardinality({j \in Known(own) : j < k}) < MaxSlots}
             IN  {MinuteOf(d) : d \in ToSet(row)}
                   = {MinuteOf(Meant(own)[k]) : k \in {k \in first : Meant(own)[k].when >= view.at}}

(***************************************************************************)
(* Property.  Nothing the renderer draws lies on anything else or beyond   *)
(* the panel, whatever the slots hold and whatever networks are called:    *)
(* markers and gauges keep out of the times beside them and of the rows    *)
(* above and below, the third network found clears the footer, the stamp   *)
(* clears nothing but itself.  Only a line that names networks may be      *)
(* wider than the panel; it loses its ends and touches no other.           *)
(* layout.cpp:26-427, 460-487, display_state.cpp:53-216.                   *)
(***************************************************************************)
Picture ==
  UpdateStamp \cup CASE view.screen = "Board"    -> DrawBoard(view.rows, Minute)
                     [] view.screen = "Offline"  -> DrawOffline(view.aps, view.wanted, view.mismatch)
                     [] view.screen = "Notice"   -> DrawNotice(view.foot)
                     [] view.screen = "WifiAuth" -> DrawWifiAuth(view.wanted)

NothingOverlaps == view.screen # "none" => Legible(Picture)

(***************************************************************************)
(* Property.  Two gauges of the board look alike exactly when they say the *)
(* same: no live comparison, so many minutes early or late, or off either  *)
(* end of the scale.                                                       *)
(* deviation_gauge.cpp:36-86, Departure.h:43-62.                           *)
(***************************************************************************)
\* the nearest mark of the scale, of which one lies off either end; of two as
\* near the one further from zero
Says(d) ==
  IF d.source = "Plan" \/ d.planned = 0 THEN <<>>
  ELSE LET late   == d.when - d.planned
           marks  == -(DownMin + 1)..UpMin + 1
           off(m) == IF late > m * Minute THEN late - m * Minute ELSE m * Minute - late
           nearer(m, n) == off(m) < off(n) \/ (off(m) = off(n) /\ m * m >= n * n)
       IN  <<CHOOSE m \in marks : \A n \in marks : nearer(m, n)>>

GaugesTellApart ==
  view.screen = "Board" =>
    LET shown == UNION {ToSet(view.rows[s]) : s \in {"58A_ATZ", "58A_HIETZING"}}
        look(d) == Pixels(Gauge(HasDeviation(d), DeviationMinutes(d, Minute)))
    IN  \A d, e \in shown : look(d) = look(e) <=> Says(d) = Says(e)
=============================================================================
