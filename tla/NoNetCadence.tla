---------------------------- MODULE NoNetCadence ----------------------------
(***************************************************************************)
(* How often the "KEIN EMPFANG" screen is repainted while the WiFi stays   *)
(* down.  The code gates the repaint by a counter in RTC memory that is a  *)
(* uint8_t and "free-runs"; sincePaint counts the cycles that were really  *)
(* completed since the last repaint.                                       *)
(***************************************************************************)
EXTENDS CycleRunner

VARIABLE sincePaint   \* history: no-WiFi cycles since the screen was painted

CountNoNet ==
  sincePaint' = CASE pc = "ColdNoNet" /\ pc' = "ColdNoNetSleep" /\ NoNetRepaint -> 0
                  [] pc = "ColdNoNetSleep" /\ pc' = "Asleep" -> sincePaint + 1
                  [] OTHER -> sincePaint

CadenceSpec ==
  /\ Init /\ sincePaint = 0
  /\ [][Next /\ CountNoNet]_<<vars, sincePaint>>

\* However long the outage and whatever presses and resets interrupt it, the
\* screen is never older than no_wifi_repaint_every cycles, although the
\* counter wraps and is kept only by some ways out of a cycle
\* (handleColdBootOutcome).
ScreenNeverOverdue == sincePaint <= Config.no_wifi_repaint_every
=============================================================================
