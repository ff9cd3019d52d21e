------------------------ MODULE ButtonPress_proofs --------------------------
(***************************************************************************)
(* For every choice of the intervals and of the counter's modulus: verdicts*)
(* fall at their time, and one hold resets the panel at most once.         *)
(***************************************************************************)
EXTENDS ButtonPress, TLAPS

Places == {"Asleep", "Paused", "Debounce", "Hold", "Window", "Drain", "BwReset",
           "DiagOpen", "DiagShow", "DiagWait", "Warm"}

\* millis() stays below its modulus; while the classifier measures, the
\* difference it computes is the time that passed
Measured ==
  /\ ms \in 0..(Modulus - 1) /\ t0 \in 0..(Modulus - 1) /\ pc \in Places
  /\ pc = "Hold" => Since = elapsed /\ elapsed \in 0..(LongMs + PollMs + Lag - 1)
  /\ pc = "Window" => Since = elapsed /\ elapsed \in 0..(DoubleMs + PollMs + Lag - 1)

\* A hold that is to reset the panel is one the device is waiting out
ResetDrained == claimed = "Reset" => pc = "Drain" /\ down

(***************************************************************************)
(* Arithmetic of the wrapping counter                                      *)
(***************************************************************************)
LEMMA Wrap ==
  ASSUME NEW m \in Nat \ {0}, NEW x \in Int
  PROVE  x % m \in 0..(m - 1)
OBVIOUS

LEMMA WrapOnce ==
  ASSUME NEW m \in Nat \ {0}, NEW x \in 0..(2 * m - 1)
  PROVE  x % m = (IF x < m THEN x ELSE x - m)
OBVIOUS

LEMMA Difference ==
  ASSUME NEW m \in Nat \ {0}, NEW a \in 0..(m - 1), NEW b \in 0..(m - 1)
  PROVE  (a - b) % m = (IF a >= b THEN a - b ELSE a - b + m)
<1>1. a - b \in (1 - m)..(m - 1)
  OBVIOUS
<1>2. ASSUME NEW x \in (1 - m)..(m - 1)
      PROVE  x % m = (IF x >= 0 THEN x ELSE x + m)
  OBVIOUS
<1>3. (a - b) % m = (IF a - b >= 0 THEN a - b ELSE a - b + m)
  BY <1>1, <1>2
<1> QED
  BY <1>3

LEMMA ElapsedAdds ==
  ASSUME NEW m \in Nat \ {0}, NEW a \in 0..(m - 1), NEW b \in 0..(m - 1), NEW k \in 0..(m - 1),
         ((a - b) % m) + k < m
  PROVE  (((a + k) % m) - b) % m = ((a - b) % m) + k
<1> DEFINE c == (a + k) % m
<1> DEFINE sum == a + k
<1>0. sum \in 0..(2 * m - 1)
  OBVIOUS
<1> HIDE DEF sum
<1>6. sum % m = (IF sum < m THEN sum ELSE sum - m)
  BY <1>0, WrapOnce
<1>1. c = (IF a + k < m THEN a + k ELSE a + k - m)
  BY <1>6 DEF sum
<1>2. c \in 0..(m - 1)
  BY Wrap
<1>3. (a - b) % m = (IF a >= b THEN a - b ELSE a - b + m)
  BY Difference
<1>4. (c - b) % m = (IF c >= b THEN c - b ELSE c - b + m)
  BY <1>2, Difference
<1> HIDE DEF c
<1>5. (c - b) % m = ((a - b) % m) + k
  BY <1>1, <1>2, <1>3, <1>4
<1> QED
  BY <1>5 DEF c

LEMMA ModulusFacts ==
  /\ Modulus \in Nat \ {0} /\ LongMs \in Nat \ {0} /\ DoubleMs \in Nat \ {0}
  /\ DebounceMs \in Nat /\ PollMs \in Nat \ {0} /\ Lag \in Nat
  /\ LongMs + PollMs + Lag < Modulus /\ DoubleMs + PollMs + Lag < Modulus
BY ButtonAssumption

(***************************************************************************)
(* Measured is invariant                                                   *)
(***************************************************************************)
LEMMA SleepMeasures ==
  ASSUME Measured, NEW d \in Nat, NEW limit \in Nat,
         Since = elapsed, elapsed \in 0..(limit - 1), limit + d + Lag < Modulus,
         Sleep(d), t0' = t0
  PROVE  /\ ms' \in 0..(Modulus - 1)
         /\ Since' = elapsed' /\ elapsed' \in 0..(limit + d + Lag - 1)
<1>1. PICK late \in 0..Lag : ms' = (ms + d + late) % Modulus /\ elapsed' = elapsed + d + late
  BY DEF Sleep
<1>2. /\ d + late \in 0..(Modulus - 1) /\ ms \in 0..(Modulus - 1) /\ t0 \in 0..(Modulus - 1)
      /\ elapsed \in 0..(limit - 1) /\ Modulus \in Nat \ {0} /\ Lag \in Nat /\ late \in 0..Lag
  BY ModulusFacts DEF Measured
<1>3. ms + d + late = ms + (d + late) /\ elapsed + d + late = elapsed + (d + late)
  BY <1>2
<1>4. ((ms - t0) % Modulus) + (d + late) < Modulus
  BY <1>2 DEF Since
<1>5. (((ms + (d + late)) % Modulus) - t0) % Modulus = ((ms - t0) % Modulus) + (d + late)
  BY <1>2, <1>4, ElapsedAdds
<1>6. Since' = elapsed'
  BY <1>1, <1>3, <1>5 DEF Since
<1>7. ms + d + late \in Int
  BY <1>2
<1>8. ms' \in 0..(Modulus - 1)
  BY <1>1, <1>2, <1>7, Wrap
<1>9. elapsed' \in 0..(limit + d + Lag - 1)
  BY <1>1, <1>2
<1> QED
  BY <1>6, <1>8, <1>9

LEMMA StartsAtZero ==
  ASSUME NEW a \in 0..(Modulus - 1), t0' = a, ms' = a, elapsed' = 0
  PROVE  Since' = elapsed'
<1>1. a - a = 0 /\ 0 % Modulus = 0
  BY ModulusFacts
<1> QED
  BY <1>1 DEF Since

LEMMA InitMeasured == Init => Measured
BY ModulusFacts DEF Init, Measured, Places

LEMMA ReleasedMeasured ==
  ASSUME Measured, ms' \in 0..(Modulus - 1), Released
  PROVE  Measured'
<1>1. CASE caller = "First"
  <2>1. pc' = "Window" /\ t0' = ms' /\ elapsed' = 0
    BY <1>1 DEF Released
  <2>2. Since' = elapsed'
    BY <2>1, StartsAtZero
  <2>3. elapsed' \in 0..(DoubleMs + PollMs + Lag - 1)
    BY <2>1, ModulusFacts
  <2> QED
    BY <2>1, <2>2, <2>3 DEF Measured, Places
<1>2. CASE caller # "First"
  <2>1. pc' \in {"DiagOpen", "DiagShow"} /\ t0' = t0
    BY <1>2 DEF Released, ToPage
  <2> QED
    BY <2>1 DEF Measured, Places
<1> QED
  BY <1>1, <1>2

LEMMA StepMeasured == Measured /\ [Next]_vars => Measured'
<1> SUFFICES ASSUME Measured, [Next]_vars PROVE Measured'
  OBVIOUS
<1>1. CASE Debounce
  <2>1. ms' \in 0..(Modulus - 1)
    <3>1. PICK late \in 0..Lag : ms' = (ms + DebounceMs + late) % Modulus
      BY <1>1 DEF Debounce
    <3>2. ms + DebounceMs + late \in Int
      BY ModulusFacts DEF Measured
    <3> QED
      BY <3>1, <3>2, Wrap, ModulusFacts
  <2>2. CASE ~down /\ Released
    BY <2>1, <2>2, ReleasedMeasured
  <2>3. CASE down /\ pc' = "Hold" /\ t0' = ms' /\ elapsed' = 0
    <3>1. Since' = elapsed'
      BY <2>1, <2>3, StartsAtZero
    <3>2. elapsed' \in 0..(LongMs + PollMs + Lag - 1)
      BY <2>3, ModulusFacts
    <3> QED
      BY <2>1, <2>3, <3>1, <3>2 DEF Measured, Places
  <2> QED
    BY <1>1, <2>2, <2>3 DEF Debounce
<1>2. CASE HoldPoll
  <2>1. CASE ~down /\ Released /\ UNCHANGED ms
    <3>1. ms' \in 0..(Modulus - 1)
      BY <2>1 DEF Measured
    <3> QED
      BY <2>1, <3>1, ReleasedMeasured
  <2>2. CASE TakenAsLong
    <3>1. pc' \in {"Drain", "DiagOpen", "Warm"} /\ UNCHANGED <<ms, t0>>
      BY <2>2 DEF TakenAsLong
    <3> QED
      BY <3>1 DEF Measured, Places
  <2>3. CASE ~HeldLong /\ Sleep(PollMs) /\ UNCHANGED <<pc, t0>>
    <3>1. pc = "Hold" /\ Since = elapsed /\ elapsed \in 0..(LongMs - 1)
      BY <1>2, <2>3, ModulusFacts DEF HoldPoll, Measured, HeldLong
    <3>2. /\ ms' \in 0..(Modulus - 1)
          /\ Since' = elapsed' /\ elapsed' \in 0..(LongMs + PollMs + Lag - 1)
      BY <2>3, <3>1, SleepMeasures, ModulusFacts
    <3> QED
      BY <2>3, <3>1, <3>2 DEF Measured, Places
  <2> QED
    BY <1>2, <2>1, <2>2, <2>3 DEF HoldPoll
<1>3. CASE WindowPoll
  <2>1. CASE pc' \in {"Debounce", "Warm"} /\ UNCHANGED <<ms, t0>>
    BY <2>1 DEF Measured, Places
  <2>2. CASE Since < DoubleMs /\ Sleep(PollMs) /\ UNCHANGED <<pc, t0>>
    <3>1. pc = "Window" /\ Since = elapsed /\ elapsed \in 0..(DoubleMs - 1)
      BY <1>3, <2>2, ModulusFacts DEF WindowPoll, Measured
    <3>2. /\ ms' \in 0..(Modulus - 1)
          /\ Since' = elapsed' /\ elapsed' \in 0..(DoubleMs + PollMs + Lag - 1)
      BY <2>2, <3>1, SleepMeasures, ModulusFacts
    <3> QED
      BY <2>2, <3>1, <3>2 DEF Measured, Places
  <2> QED
    BY <1>3, <2>1, <2>2 DEF WindowPoll
<1>4. CASE WakeByButton \/ WakeByTimer
  BY <1>4, ModulusFacts DEF WakeByButton, WakeByTimer, Measured, Places
<1>5. CASE PauseEnds
  BY <1>5 DEF PauseEnds, Measured, Places
<1>6. CASE Drain \/ BwReset
  BY <1>6 DEF Drain, BwReset, Measured, Places
<1>7. CASE DiagOpen \/ DiagShow
  BY <1>7 DEF DiagOpen, DiagShow, ToPage, Measured, Places
<1>8. CASE DiagPressed
  BY <1>8 DEF DiagPressed, Measured, Places
<1>9. CASE DiagUntouched \/ ClockStep
  BY <1>9 DEF DiagUntouched, ClockStep, Measured, Places
<1>10. CASE Warm
  BY <1>10, ModulusFacts DEF Warm, Measured, Places
<1>11. CASE Finger \/ UNCHANGED vars
  <2>1. UNCHANGED <<ms, pc, t0, elapsed>>
    BY <1>11 DEF Finger, vars
  <2> QED
    BY <2>1 DEF Measured, Since
<1> QED
  BY <1>1, <1>2, <1>3, <1>4, <1>5, <1>6, <1>7, <1>8, <1>9, <1>10, <1>11 DEF Next, Device

\* The difference of two readings of the wrapping counter is the time that
\* passed, as long as the classifier measures (classifyHeld, classifyPress).
THEOREM MeasuresTime == Spec => []Measured
<1> QED
  BY InitMeasured, StepMeasured, PTL DEF Spec

\* Long falls on time, and Short when the window has passed (classifyHeld,
\* classifyPress).
THEOREM VerdictsAreOnTime == Spec => VerdictsOnTime
<1> DEFINE OnTime ==
      /\ pc = "Hold" /\ down /\ TakenAsLong => elapsed \in LongMs..(LongMs + PollMs + Lag - 1)
      /\ pc = "Window" /\ pc' = "Warm" => elapsed \in DoubleMs..(DoubleMs + PollMs + Lag - 1)
      /\ pc = "Hold" /\ pc' = "Hold" /\ ms' # ms => elapsed < LongMs
<1>1. Measured /\ [Next]_vars => [OnTime]_vars
  <2> SUFFICES ASSUME Measured, Next PROVE OnTime
    OBVIOUS
  <2>1. ASSUME pc = "Hold", down, TakenAsLong
        PROVE  elapsed \in LongMs..(LongMs + PollMs + Lag - 1)
    <3>1. pc' # "Hold" /\ pc' # "DiagShow" /\ pc' # "Window"
      BY <2>1 DEF TakenAsLong
    <3>2. HoldPoll
      BY <2>1, <3>1 DEF Next, Device, Finger, ClockStep, WakeByButton, WakeByTimer, PauseEnds,
                        Debounce, WindowPoll, Drain, BwReset, DiagOpen, DiagShow, DiagPressed,
                        DiagUntouched, Warm
    <3>4. HeldLong
      BY <2>1, <3>1, <3>2 DEF HoldPoll
    <3>5. Since >= LongMs
      BY <3>4 DEF HeldLong
    <3> QED
      BY <2>1, <3>5, ModulusFacts DEF Measured
  <2>2. ASSUME pc = "Window", pc' = "Warm"
        PROVE  elapsed \in DoubleMs..(DoubleMs + PollMs + Lag - 1)
    <3>1. WindowPoll
      BY <2>2 DEF Next, Device, Finger, ClockStep, WakeByButton, WakeByTimer, PauseEnds,
                  Debounce, HoldPoll, Drain, BwReset, DiagOpen, DiagShow, DiagPressed,
                  DiagUntouched, Warm
    <3>2. Since >= DoubleMs
      BY <2>2, <3>1 DEF WindowPoll
    <3> QED
      BY <2>2, <3>2, ModulusFacts DEF Measured
  <2>3. ASSUME pc = "Hold", pc' = "Hold", ms' # ms
        PROVE  elapsed < LongMs
    <3>1. HoldPoll
      BY <2>3 DEF Next, Device, Finger, ClockStep, WakeByButton, WakeByTimer, PauseEnds,
                  Debounce, WindowPoll, Drain, BwReset, DiagOpen, DiagShow, DiagPressed,
                  DiagUntouched, Warm
    <3>2. ~HeldLong
      BY <2>3, <3>1 DEF HoldPoll, Released, ToPage, TakenAsLong
    <3> QED
      BY <2>3, <3>2, ModulusFacts DEF Measured, HeldLong
  <2> QED
    BY <2>1, <2>2, <2>3
<1> QED
  BY <1>1, MeasuresTime, PTL DEF Spec, VerdictsOnTime

(***************************************************************************)
(* One reset per hold                                                      *)
(***************************************************************************)
LEMMA InitResetDrained == Init => ResetDrained
BY DEF Init, ResetDrained

LEMMA StepResetDrained == ResetDrained /\ [Next]_vars => ResetDrained'
<1> SUFFICES ASSUME ResetDrained, [Next]_vars PROVE ResetDrained'
  OBVIOUS
<1>1. CASE Finger
  BY <1>1 DEF Finger, ResetDrained
<1>2. CASE HoldPoll
  BY <1>2 DEF HoldPoll, Released, TakenAsLong, ToPage, ResetDrained
<1>3. CASE Debounce
  BY <1>3 DEF Debounce, Released, ToPage, ResetDrained
<1>4. CASE Drain \/ BwReset
  BY <1>4 DEF Drain, BwReset, ResetDrained
<1>5. CASE WindowPoll
  BY <1>5 DEF WindowPoll, ResetDrained
<1>6. CASE WakeByButton \/ WakeByTimer \/ PauseEnds \/ Warm
  BY <1>6 DEF WakeByButton, WakeByTimer, PauseEnds, Warm, ResetDrained
<1>7. CASE DiagOpen \/ DiagShow \/ DiagPressed
  BY <1>7 DEF DiagOpen, DiagShow, DiagPressed, ToPage, ResetDrained
<1>8. CASE DiagUntouched \/ ClockStep
  BY <1>8 DEF DiagUntouched, ClockStep, ResetDrained
<1>9. CASE UNCHANGED vars
  BY <1>9 DEF vars, ResetDrained
<1> QED
  BY <1>1, <1>2, <1>3, <1>4, <1>5, <1>6, <1>7, <1>8, <1>9 DEF Next, Device

\* The hold that a Long verdict takes for a panel reset is over before the
\* reset starts, so it cannot be taken for another one (waitForRelease).
THEOREM OneResetForAHold == Spec => OneResetPerHold
<1>1. ResetDrained /\ [Next]_vars => [pc = "Hold" /\ pc' = "Drain" => claimed # "Reset"]_vars
  BY DEF ResetDrained
<1> QED
  BY <1>1, InitResetDrained, StepResetDrained, PTL DEF Spec, OneResetPerHold
=============================================================================
