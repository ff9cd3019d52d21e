---------------------------- MODULE ButtonPress -----------------------------
(***************************************************************************)
(* The one button: what a finger does to it at any moment, the polling     *)
(* classifier (src/src/logic/button_classifier.cpp) that tells Short, Long *)
(* and Double presses apart with a millisecond counter that wraps, and its *)
(* callers: the wake from deep sleep, the poll of the active phase and the *)
(* diagnostic pager (src/src/logic/diag_mode.cpp, runDiagMode).            *)
(*                                                                         *)
(* A finger's step may fall between any two steps of the device, so the    *)
(* line a sample reads is the one at the end of the sleep before it.       *)
(***************************************************************************)
EXTENDS Integers

CONSTANTS
  LongMs, DoubleMs,      \* btn_long_press_ms, btn_double_click_ms
  DebounceMs, PollMs,    \* BUTTON_DEBOUNCE_MS, BUTTON_POLL_MS
  Lag,                   \* how much longer a sleep may take
  Modulus,               \* of millis(), 2^32 on the device
  DiagMax,               \* diag_max_s, in polls of the pager
  PageCount,             \* DIAG_PAGE_COUNT
  MaxClockSteps          \* bound: times SNTP sets the clock in a session

ASSUME ButtonAssumption ==
  /\ LongMs \in Nat \ {0} /\ DoubleMs \in Nat \ {0} /\ DebounceMs \in Nat /\ PollMs \in Nat \ {0}
  /\ Lag \in Nat /\ Modulus \in Nat
  /\ LongMs + PollMs + Lag < Modulus /\ DoubleMs + PollMs + Lag < Modulus
  /\ DiagMax \in Nat \ {0} /\ PageCount \in Nat \ {0} /\ MaxClockSteps \in Nat

VARIABLES
  down,      \* the line is LOW: a finger is on the button
  ms,        \* millis()
  pc,        \* where the device is
  caller,    \* who called classifyHeld: classifyPress twice, the pager
  t0,        \* the classifier's start of a hold or of the double-click window
  page,      \* runDiagMode's page
  wall,      \* clock.now() - start of the diagnostic session
  steps,     \* times SNTP has set the clock in this session
  elapsed,   \* history: what really passed since t0
  claimed    \* history: what the hold in progress has already been taken for

vars == <<down, ms, pc, caller, t0, page, wall, steps, elapsed, claimed>>
sessionVars == <<page, wall, steps>>

Init ==
  /\ down = FALSE /\ ms = 0 /\ pc = "Asleep" /\ caller = "First" /\ t0 = 0
  /\ page = 0 /\ wall = 0 /\ steps = 0 /\ elapsed = 0 /\ claimed = "No"

Finger ==
  /\ down' = ~down
  /\ claimed' = IF down THEN "No" ELSE claimed
  /\ UNCHANGED <<ms, pc, caller, t0, sessionVars, elapsed>>

\* sleepMs of the classifier's loops
Sleep(d) == \E late \in 0..Lag : ms' = (ms + d + late) % Modulus /\ elapsed' = elapsed + d + late

Since == (ms - t0) % Modulus

\* Mutant: the deadline is computed first, and may lie beyond the wrap
MutHeldLong == ms >= t0 + LongMs

HeldLong == Since >= LongMs

(***************************************************************************)
(* Rest: deep sleep, left into setup() by the timer or by the LOW line; or *)
(* the pause of the active phase, left into loop(), whose poll samples the *)
(* line once more.  millis() starts anew with setup().                     *)
(***************************************************************************)
WakeByButton ==
  /\ pc = "Asleep" /\ down
  /\ pc' = "Debounce" /\ caller' = "First" /\ ms' = 0
  /\ UNCHANGED <<down, t0, sessionVars, elapsed, claimed>>

WakeByTimer ==
  /\ pc = "Asleep" /\ pc' = "Warm"
  /\ UNCHANGED <<down, ms, caller, t0, sessionVars, elapsed, claimed>>

PauseEnds ==
  /\ pc = "Paused" /\ ms' \in 0..(Modulus - 1)
  /\ IF down THEN pc' = "Debounce" /\ caller' = "First"
             ELSE pc' = "Warm" /\ UNCHANGED caller
  /\ UNCHANGED <<down, t0, sessionVars, elapsed, claimed>>

(***************************************************************************)
(* classifyHeld, and what its callers do with the verdict                  *)
(***************************************************************************)
ToPage(next) == pc' = "DiagShow" /\ page' = next

Released ==
  /\ CASE caller = "First"  -> pc' = "Window" /\ t0' = ms' /\ elapsed' = 0 /\ UNCHANGED page
       [] caller = "Second" -> pc' = "DiagOpen" /\ elapsed' = 0 /\ UNCHANGED <<t0, page>>
       [] OTHER -> ToPage(IF page + 1 >= PageCount THEN 0 ELSE page + 1)
                   /\ elapsed' = 0 /\ UNCHANGED t0
  /\ UNCHANGED <<down, caller, wall, steps, claimed>>

\* The verdict falls while the button is still held
TakenAsLong ==
  /\ CASE caller = "First"  -> pc' = "Drain" /\ claimed' = "Reset"
       [] caller = "Second" -> pc' = "DiagOpen" /\ claimed' = "Verdict"
       [] OTHER             -> pc' = "Warm" /\ claimed' = "Verdict"
  /\ elapsed' = 0
  /\ UNCHANGED <<down, ms, caller, t0, sessionVars>>

Debounce ==
  /\ pc = "Debounce"
  /\ \E late \in 0..Lag : ms' = (ms + DebounceMs + late) % Modulus
  /\ \/ ~down /\ Released
     \/ /\ down /\ pc' = "Hold" /\ t0' = ms' /\ elapsed' = 0
        /\ UNCHANGED <<down, caller, sessionVars, claimed>>

HoldPoll ==
  /\ pc = "Hold"
  /\ \/ ~down /\ UNCHANGED ms /\ Released
     \/ down /\ HeldLong /\ TakenAsLong
     \/ down /\ ~HeldLong /\ Sleep(PollMs)
        /\ UNCHANGED <<down, pc, caller, t0, sessionVars, claimed>>

\* classifyPress: a second press within the window makes it a double click
WindowPoll ==
  /\ pc = "Window"
  /\ \/ /\ Since < DoubleMs /\ down
        /\ pc' = "Debounce" /\ caller' = "Second" /\ UNCHANGED <<ms, elapsed>>
     \/ Since < DoubleMs /\ ~down /\ Sleep(PollMs) /\ UNCHANGED <<pc, caller>>
     \/ Since >= DoubleMs /\ pc' = "Warm" /\ elapsed' = 0 /\ UNCHANGED <<ms, caller>>
  /\ UNCHANGED <<down, t0, sessionVars, claimed>>

(***************************************************************************)
(* A long press: waitForRelease, then the B/W reset, then a warm cycle     *)
(***************************************************************************)
\* Mutant: the reset starts while the finger is still on the button
MutDrain ==
  /\ pc = "Drain" /\ pc' = "BwReset"
  /\ UNCHANGED <<down, ms, caller, t0, sessionVars, elapsed, claimed>>

Drain ==
  /\ pc = "Drain" /\ ~down /\ pc' = "BwReset"
  /\ UNCHANGED <<down, ms, caller, t0, sessionVars, elapsed, claimed>>

BwReset ==
  /\ pc = "BwReset" /\ pc' = "Warm"
  /\ UNCHANGED <<down, ms, caller, t0, sessionVars, elapsed, claimed>>

(***************************************************************************)
(* A double click: the diagnostic pages                                    *)
(***************************************************************************)
\* the live fetch, and the session's start
DiagOpen ==
  /\ pc = "DiagOpen" /\ ToPage(0) /\ wall' = 0 /\ steps' = 0
  /\ UNCHANGED <<down, ms, caller, t0, elapsed, claimed>>

Passed(d) == IF wall + d < DiagMax THEN wall + d ELSE DiagMax

\* Mutant: every page starts the timeout anew
MutDiagShow ==
  /\ pc = "DiagShow" /\ pc' = "DiagWait" /\ wall' = 0
  /\ UNCHANGED <<down, ms, caller, t0, page, steps, elapsed, claimed>>

\* renderDiagPage and a light-full refresh, which takes its time
DiagShow ==
  /\ pc = "DiagShow" /\ pc' = "DiagWait" /\ wall' \in {wall, Passed(1)}
  /\ UNCHANGED <<down, ms, caller, t0, page, steps, elapsed, claimed>>

\* One turn of the wait: a press, the timeout, or another poll
DiagPressed ==
  /\ pc = "DiagWait" /\ down
  /\ pc' = "Debounce" /\ caller' = "Page" /\ ms' \in 0..(Modulus - 1)
  /\ UNCHANGED <<down, t0, sessionVars, elapsed, claimed>>

DiagUntouched ==
  /\ pc = "DiagWait" /\ ~down
  /\ IF wall >= DiagMax THEN pc' = "Warm" /\ UNCHANGED wall
                        ELSE wall' = Passed(1) /\ UNCHANGED pc
  /\ UNCHANGED <<down, ms, caller, t0, page, steps, elapsed, claimed>>

\* The SNTP daemon sets the clock back or forth during a session
ClockStep ==
  /\ pc = "DiagWait" /\ steps < MaxClockSteps
  /\ wall' \in (0 - DiagMax)..DiagMax /\ steps' = steps + 1
  /\ UNCHANGED <<down, ms, pc, caller, t0, page, elapsed, claimed>>

\* runWarmCycle, which sleeps or pauses
Warm ==
  /\ pc = "Warm" /\ pc' \in {"Asleep", "Paused"}
  /\ caller' = "First" /\ t0' = 0 /\ page' = 0 /\ wall' = 0 /\ steps' = 0 /\ ms' = 0
  /\ UNCHANGED <<down, elapsed, claimed>>

Device == \/ WakeByButton \/ WakeByTimer \/ PauseEnds \/ Debounce \/ HoldPoll \/ WindowPoll
          \/ Drain \/ BwReset \/ DiagOpen \/ DiagShow \/ DiagPressed \/ DiagUntouched \/ Warm

Next == Device \/ Finger \/ ClockStep

\* The device runs whenever it can.  A finger does not for ever lie on the
\* button at the end of every page's refresh, which takes seconds, and at every
\* poll after it, so the pager sees the line up again and again.
Fairness == WF_vars(Device) /\ SF_vars(DiagShow /\ ~down) /\ SF_vars(DiagUntouched)

Spec == Init /\ [][Next]_vars /\ Fairness

(***************************************************************************)
(* Properties                                                              *)
(***************************************************************************)
\* A verdict falls at its time, across the wrap of millis(): Long neither
\* before btn_long_press_ms of holding nor more than a poll after, a plain
\* Short only when the double-click window has really passed
\* (classifyHeld, classifyPress).
VerdictsOnTime ==
  [][/\ pc = "Hold" /\ down /\ TakenAsLong => elapsed \in LongMs..(LongMs + PollMs + Lag - 1)
     /\ pc = "Window" /\ pc' = "Warm" => elapsed \in DoubleMs..(DoubleMs + PollMs + Lag - 1)
     /\ pc = "Hold" /\ pc' = "Hold" /\ ms' # ms => elapsed < LongMs]_vars

\* One hold resets the panel at most once, however long the finger stays on
\* the button and whatever path leads back to the classifier
\* (waitForRelease in runButtonWake and pollButtonAndRunWarm).
OneResetPerHold == [][pc = "Hold" /\ pc' = "Drain" => claimed # "Reset"]_vars

\* A diagnostic session ends, whatever pages are tapped through and however
\* SNTP sets the clock meanwhile (diag_max_s, runDiagMode).
SessionEnds == pc \in {"DiagOpen", "DiagShow", "DiagWait"} ~> pc = "Warm"
=============================================================================
