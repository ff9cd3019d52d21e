---------------------------- MODULE BoardLayout -----------------------------
(***************************************************************************)
(* Where the renderer puts what it draws on the panel: the board           *)
(* (src/src/render/layout.cpp), its deviation gauges                       *)
(* (deviation_gauge.cpp), the network plan (network_plan.cpp), the         *)
(* KEIN-EMPFANG screen (display_state.cpp) and the update stamp.  A        *)
(* drawing is a set of boxes [part, x, y, w, h]; boxes of one part belong  *)
(* together.                                                               *)
(***************************************************************************)
EXTENDS Integers, Sequences

CONSTANTS
  Ssids,        \* the names of networks
  TextWidth,    \* pixels of a text, by the role of its font and what it says
  TextHeight    \* pixels of a font's glyphs, by role

\* The room there is for the texts the build fixes, of which "fixed" is the
\* widest: between the columns and between the rows.  The name of a network is as
\* wide as it is; the other texts of Foot and Sub are what a line says around it.
ASSUME TextAssumption ==
  /\ TextWidth["TG"]["88:88"] \in 1..89 /\ TextHeight["TG"] \in 1..32
  /\ TextWidth["EG"]["88:88"] \in 1..89 /\ TextHeight["EG"] \in 1..28
  /\ TextWidth["SB"]["88:88"] \in 1..92 /\ TextHeight["SB"] \in 1..34
  /\ TextWidth["SB"]["--:--"] \in 1..128
  /\ \A dir \in {"Atzgersdorf", "Hietzing"} : TextWidth["Dir"][dir] \in 1..139
  /\ \A label \in {"Hbf", "Atzg", "Ende", "Tull", "Hietz"} : TextWidth["Label"][label] \in 1..54
  /\ TextWidth["Label"]["upd 88:88"] \in 1..56
  /\ TextWidth["Title"]["fixed"] \in 1..400 /\ TextHeight["Title"] \in 1..28
  /\ TextWidth["Sub"]["fixed"] \in 1..400 /\ TextHeight["Sub"] \in 1..20
  /\ TextWidth["Foot"]["fixed"] \in 1..280 /\ TextHeight["Foot"] \in 1..10
  /\ \A says \in {"Schreibweise?", "gesucht:", "gesucht: ,", "dBm"} \cup Ssids :
       TextWidth["Foot"][says] \in Nat \ {0}
  /\ \A says \in {"Falsches Passwort"} \cup Ssids : TextWidth["Sub"][says] \in Nat \ {0}
  /\ TextHeight["Dir"] \in 1..22 /\ TextHeight["Label"] \in 1..35

FbW == 400
FbH == 300
PadX == 8
HeaderBarH == 16
ColTime2Right == 384         \* COL_TIME2_DIGIT_RIGHT
ColTime1Right == 284         \* COL_TIME1_DIGIT_RIGHT
Gauge1Cx == ColTime1Right + 6
Gauge2Cx == 388
SbSlotWidth == (FbW - 2 * PadX) \div 3
RowHeight == [TG |-> 28, EG |-> 22, SB |-> 18]
BadgeBounds == [TG |-> [w |-> 42, h |-> 22], EG |-> [w |-> 34, h |-> 18], SB |-> [w |-> 22, h |-> 14]]

Box(part, x, y, w, h) == [part |-> part, x |-> x, y |-> y, w |-> w, h |-> h]
Text(part, x, y, role, says) == Box(part, x, y, TextWidth[role][says], TextHeight[role])

(***************************************************************************)
(* The deviation gauge, relative to its centre and top.                    *)
(***************************************************************************)
GaugeH == 24
ZeroDy == 15
Scale == 3
UpMin == 5
DownMin == 3

HTick(dy, w, extendRight) == Box("gauge", -(w \div 2), dy, IF extendRight THEN w + 1 ELSE w, 1)

Ticks ==
  {Box("gauge", 0, 0, 1, GaugeH), HTick(ZeroDy, 7, TRUE)}
    \cup {HTick(ZeroDy - m * Scale, IF m % 5 = 0 THEN 5 ELSE 3, m \in {UpMin, -DownMin})
            : m \in (-DownMin..UpMin) \ {0}}

\* the four sides of the hollow square
Square ==
  {Box("gauge", -3, ZeroDy - 3, 6, 1), Box("gauge", -3, ZeroDy + 2, 6, 1),
   Box("gauge", -3, ZeroDy - 3, 1, 6), Box("gauge",  2, ZeroDy - 3, 1, 6)}

Clamp(dev) == IF dev > UpMin THEN UpMin ELSE IF dev < -DownMin THEN -DownMin ELSE dev

Bar(dev) ==
  LET h == Scale * (IF dev < 0 THEN -Clamp(dev) ELSE Clamp(dev))
  IN  IF h < 2 THEN Box("gauge", -2, ZeroDy - 1, 5, 2)
      ELSE Box("gauge", -2, IF dev > 0 THEN ZeroDy - h ELSE ZeroDy, 5, h)

Tab(dev) ==
  IF dev > UpMin THEN {Box("gauge", -3, -2, 7, 2)}
  ELSE IF dev < -DownMin THEN {Box("gauge", -3, GaugeH, 7, 2)}
  ELSE {}

\* Mutant: nothing tells an off-scale bar from a full one
MutGauge(hasDev, dev) == Ticks \cup IF hasDev THEN {Bar(dev)} ELSE Square

\* drawDeviationGauge
Gauge(hasDev, dev) == Ticks \cup IF hasDev THEN {Bar(dev)} \cup Tab(dev) ELSE Square

Pixels(boxes) == UNION {(b.x..b.x + b.w - 1) \X (b.y..b.y + b.h - 1) : b \in boxes}

(***************************************************************************)
(* The rows.                                                               *)
(***************************************************************************)
HasDeviation(d) == d.source = "Realtime" /\ d.planned # 0

\* deviationMinutes: rounded, half away from zero
DeviationMinutes(d, minute) ==
  LET diff == d.when - d.planned
      half == minute \div 2
  IN  IF diff >= 0 THEN (diff + half) \div minute ELSE -((half - diff) \div minute)

Moved(boxes, part, dx, dy) == {Box(part, b.x + dx, b.y + dy, b.w, b.h) : b \in boxes}

PlanMark(part, x, y) == {Box(part, x, y, 5, 5)}

\* drawTimeMarkers for one column: cx is the gauge's, right the digits'
TimeMarker(part, row, d, minute, cx, right) ==
  IF row.showDev
  THEN Moved(Gauge(HasDeviation(d), DeviationMinutes(d, minute)), part,
             cx, row.y + (RowHeight[row.font] - GaugeH) \div 2)
  ELSE IF d.source # "Realtime" THEN PlanMark(part, right + 3, row.y) ELSE {}

\* drawSlot of a row with two times; slots may be short
BusRow(row, slots, minute) ==
  LET badge  == BadgeBounds[row.font]
      rowH   == RowHeight[row.font]
      fieldW == TextWidth[row.font]["88:88"]
      marker(n, cx, right) ==
        IF n \in DOMAIN slots
        THEN TimeMarker(<<row.name, "mark", n>>, row, slots[n], minute, cx, right)
        ELSE {}
  IN  {Box(<<row.name, "badge">>, PadX, row.y + (rowH - badge.h) \div 2, badge.w, badge.h),
       Text(<<row.name, "dir">>, PadX + badge.w + 6, row.y + (rowH - 10) \div 2, "Dir", row.dir),
       Box(<<row.name, "time", 1>>, ColTime1Right - fieldW, row.y, fieldW, TextHeight[row.font]),
       Box(<<row.name, "time", 2>>, ColTime2Right - fieldW, row.y, fieldW, TextHeight[row.font])}
      \cup marker(1, Gauge1Cx, ColTime1Right) \cup marker(2, Gauge2Cx, ColTime2Right)

\* drawSbahnSlot: a badge and a time beside it, or dashes
SbahnSlot(n, slots) ==
  LET x     == PadX + (n - 1) * SbSlotWidth
      y     == 162
      badge == BadgeBounds["SB"]
      timeX == x + badge.w + 6
  IN  IF n \notin DOMAIN slots THEN {Text(<<"SB", "time", n>>, x, y, "SB", "--:--")}
      ELSE {Box(<<"SB", "badge", n>>, x, y + (RowHeight["SB"] - badge.h) \div 2, badge.w, badge.h),
            Text(<<"SB", "time", n>>, timeX, y, "SB", "88:88")}
           \cup IF slots[n].source = "Realtime" THEN {}
                ELSE PlanMark(<<"SB", "mark", n>>, timeX + TextWidth["SB"]["88:88"] + 3, y)

(***************************************************************************)
(* The network plan, at its place on the board.                            *)
(***************************************************************************)
PlanY == 196
PlanH == 52
PlanTop == PlanY + 5
PlanBottom == PlanY + PlanH - 5
Centre == [i \in 1..5 |-> PadX + ((FbW - 2 * PadX) * (2 * i - 1)) \div 10]
Stop(i, y, size) == Box(<<"plan", "stop", i, y>>, Centre[i] - size \div 2, y - size \div 2, size, size)

\* the horizontal link from pixel x1 to pixel x2
HLink(i, y, x1, x2) == Box(<<"plan", "link", i, y>>, x1, y, x2 - x1 + 1, 1)

NetworkPlan ==
  {Stop(1, PlanTop, 5), Stop(2, PlanTop, 9),
   HLink(1, PlanTop, Centre[1] + 3, Centre[2] - 5),
   \* the vertical link starts on the diamond's tip
   Box(<<"plan", "stop", 2, PlanTop>>, Centre[2], PlanTop + 4, 1, PlanBottom - PlanTop - 8),
   Box(<<"plan", "triangle">>, Centre[4] - 2, PlanBottom - 9, 5, 5),
   Stop(2, PlanBottom, 9), Stop(3, PlanBottom, 5), Stop(4, PlanBottom, 8), Stop(5, PlanBottom, 5),
   HLink(2, PlanBottom, Centre[2] + 5, Centre[3] - 4),
   HLink(3, PlanBottom, Centre[3] + 3, Centre[4] - 6),
   HLink(4, PlanBottom, Centre[4] + 5, Centre[5] - 4)}
  \cup {Text(<<"plan", "label", i>>, Centre[i] - (3 * <<3, 4, 4, 4, 5>>[i]) \div 2, PlanY + PlanH + 8,
             "Label", <<"Hbf", "Atzg", "Ende", "Tull", "Hietz">>[i]) : i \in 1..5}

(***************************************************************************)
(* Whole pictures.                                                         *)
(***************************************************************************)
HeaderBar(part, y) == {Box(part, 0, y, FbW, HeaderBarH)}

BusRows ==
  [s \in {"58A_ATZ", "58A_HIETZING", "58B_ATZ"} |->
     CASE s = "58A_ATZ"      -> [name |-> s, y |-> 22,  font |-> "TG", dir |-> "Atzgersdorf", showDev |-> TRUE]
       [] s = "58A_HIETZING" -> [name |-> s, y |-> 54,  font |-> "TG", dir |-> "Hietzing",    showDev |-> TRUE]
       [] s = "58B_ATZ"      -> [name |-> s, y |-> 112, font |-> "EG", dir |-> "Atzgersdorf", showDev |-> FALSE]]

DrawBoard(slots, minute) ==
  HeaderBar(<<"TG bar">>, 0) \cup HeaderBar(<<"EG bar">>, 90) \cup HeaderBar(<<"SB bar">>, 140)
    \cup (UNION {BusRow(BusRows[s], slots[s], minute) : s \in DOMAIN BusRows})
    \cup (UNION {SbahnSlot(n, slots["SBAHN_HBF"]) : n \in 1..3})
    \cup NetworkPlan

\* drawUpdateStamp, its clearing of what was there included
UpdateStamp ==
  LET w == TextWidth["Label"]["upd 88:88"]
  IN  {Box(<<"stamp">>, FbW - w - 4, FbH - 9, w + 4, 9)}

Half(n) == IF n < 0 THEN -(-n \div 2) ELSE n \div 2     \* C++ rounds towards zero

Centred(part, y, role, w) == Box(part, Half(FbW - w), y, w, TextHeight[role])

Fixed(part, y, role) == Centred(part, y, role, TextWidth[role]["fixed"])

\* a line that names one network or two; what of it lies beyond the panel's edges
\* is clipped
Naming(part, y, role, says, names) ==
  LET name(i) == IF i \in DOMAIN names THEN TextWidth[role][names[i]] ELSE 0
  IN  Centred(part, y, role, TextWidth[role][says] + name(1) + name(2))

Notice(sub, foot) ==
  {Box(<<"glyph">>, (FbW - 90) \div 2, 64, 90, 90), Fixed(<<"title">>, 178, "Title"), sub}
  \cup IF foot THEN {Fixed(<<"foot">>, FbH - 12, "Foot")} ELSE {}

\* drawBoot and drawAuth; the brownout screen has no footer
DrawNotice(foot) == Notice(Fixed(<<"sub">>, 206, "Sub"), foot)

DrawWifiAuth(wanted) ==
  Notice(IF wanted = <<>> THEN Fixed(<<"sub">>, 206, "Sub")
         ELSE Naming(<<"sub">>, 206, "Sub", "Falsches Passwort", <<wanted[1]>>), TRUE)

\* drawCaseMismatchHint, or else drawWantedSsids (whose buffer may cut the second
\* name short: a name of Ssids like any other)
SearchLine(wanted, mismatch) ==
  IF mismatch # <<>> THEN {Naming(<<"hint">>, 226, "Foot", "Schreibweise?", mismatch)}
  ELSE IF wanted = <<>> THEN {}
  ELSE {Naming(<<"wanted">>, 226, "Foot", IF Len(wanted) = 1 THEN "gesucht:" ELSE "gesucht: ,", wanted)}

\* Mutant: one network more than there is room for
MutSsidRows == 4

SsidRows == 3       \* OFFLINE_SSID_ROWS

DrawOffline(aps, wanted, mismatch) ==
  LET rows == IF Len(aps) < SsidRows THEN Len(aps) ELSE SsidRows
  IN  DrawNotice(TRUE) \cup SearchLine(wanted, mismatch) \cup {Fixed(<<"found">>, 242, "Foot")}
      \cup {Naming(<<"net", i>>, 242 + 12 * i, "Foot", "dBm", <<aps[i]>>) : i \in 1..rows}

-----------------------------------------------------------------------------
Disjoint(a, b) ==
  a.y + a.h <= b.y \/ b.y + b.h <= a.y \/ a.x + a.w <= b.x \/ b.x + b.w <= a.x

OnPanel(b) == b.x >= 0 /\ b.y >= 0 /\ b.x + b.w <= FbW /\ b.y + b.h <= FbH

\* a line with names that is wider than the panel, which cuts both its ends
Overlong(b) == b.part[1] \in {"sub", "hint", "wanted", "net"} /\ b.w > FbW /\ b.y >= 0 /\ b.y + b.h <= FbH

Legible(picture) ==
  /\ \A b \in picture : OnPanel(b) \/ Overlong(b)
  /\ \A a, b \in picture : Disjoint(a, b) \/ a.part = b.part
=============================================================================
