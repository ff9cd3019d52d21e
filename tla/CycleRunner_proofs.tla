------------------------- MODULE CycleRunner_proofs -------------------------
(***************************************************************************)
(* Theorems about the cycle of module CycleRunner, for every configuration *)
(* and every world that satisfy the assumptions of module Policies and the *)
(* conditions named with the theorem: the types of the state, how long the *)
(* device may sleep (PART 1), how many partials pile up on the glass       *)
(* (PART 2), whether it shows what the stored frame and its flag say       *)
(* (PART 3), and how old the no-network screen may get (PART 4).           *)
(***************************************************************************)
EXTENDS NoNetCadence, CycleProperties, TLAPS

(***************************************************************************)
(* The constants, field by field.                                          *)
(***************************************************************************)
\* The tunables are numbers, those that divide or count positive.
LEMMA ConfigFacts ==
  /\ Config.poll_interval_s \in Nat        /\ Config.cold_boot_retry_s \in Nat
  /\ Config.wifi_auth_sleep_s \in Nat      /\ Config.no_data_sleep_s \in Nat
  /\ Config.api_failure_retry_s \in Nat    /\ Config.cold_boot_max_retries \in Nat
  /\ Config.no_wifi_repaint_every \in Nat  /\ Config.partial_hardcap \in Nat
  /\ Config.light_full_every_s \in Nat     /\ Config.offline_threshold_s \in Nat
  /\ Config.wake_before_bus_s \in Nat      /\ Config.boot_margin_s \in Nat
  /\ Config.active_threshold_s \in Nat     /\ Config.active_threshold_s > 0
  /\ Config.rescue_window_start_s \in Nat  /\ Config.rescue_window_end_s \in Nat
  /\ Config.rescue_retry_pause_s \in Nat   /\ Config.boot_info_show_s \in Nat
  /\ Config.brownout_show_s \in Nat        /\ Config.diag_max_s \in Nat
  /\ Config.stamp_unit_s \in Nat           /\ Config.stamp_unit_s > 0
  /\ Config.uint8_modulus \in Nat          /\ Config.uint8_modulus > 0
BY ConfigAssumption DEF Positive

\* What the environment offers stays within the types.
LEMMA WorldFacts ==
  /\ World.delays \subseteq Nat /\ World.skew \in Nat
  /\ World.departures \subseteq Nat \cup {NoDeparture}
  /\ World.clock \subseteq {"Good", "Ahead", "Unsynced"}
  /\ World.epoch \in Nat /\ World.saved \subseteq BOOLEAN
  /\ World.auth_errors \subseteq BOOLEAN /\ World.link \subseteq BOOLEAN
  /\ World.fetch \subseteq {"Complete", "Partial", "Failed"}
  /\ World.resets \subseteq {"PowerLoss", "Brownout", "WatchdogOrPanic", "Other"}
BY WorldAssumption DEF Positive

(***************************************************************************)
(* What the operators of the model return.                                 *)
(***************************************************************************)
\* A clock reading is a time.
LEMMA ReadingType == TypeOK => Reading \in Nat
BY WorldFacts DEF TypeOK, Reading

\* The same after a step that leaves real time a number.
LEMMA ReadingTypeNext ==
  ASSUME now' \in Nat
  PROVE  Reading' \in Nat
BY WorldFacts DEF Reading

\* Time stays a number when it passes.
LEMMA ElapseType ==
  ASSUME NEW D \in SUBSET Nat, TypeOK, Elapse(D)
  PROVE  now' \in Nat
BY DEF Elapse, TypeOK

\* The text of a stamp is a number.
LEMMA StampType == \A t \in Nat : Stamp(t) \in Nat
BY ConfigFacts DEF Stamp

\* A picture of the screen with a stamp is a frame.
LEMMA FrameType == \A b \in Pictures, s \in Nat : Frame(b, s) \in Frames
BY DEF Frame, Frames

\* selectDisplayState returns one of the four states.
LEMMA StateType ==
  ASSUME NEW m \in Metas, NEW link \in BOOLEAN, NEW t \in Nat
  PROVE  StateOf(m, link, t) \in States
BY DEF StateOf, SelectDisplayState, States

\* What render() draws for a state is a known picture.
LEMMA BodiesType ==
  ASSUME NEW state \in States, NEW b \in Bodies(state)
  PROVE  b \in Pictures
<1>1. CASE state = "Normal"  BY <1>1 DEF Bodies, Pictures
<1>2. CASE state = "Offline" BY <1>2 DEF Bodies, Pictures
<1>3. CASE state = "Auth"    BY <1>3 DEF Bodies, Pictures
<1>4. CASE state = "Boot"    BY <1>4 DEF Bodies, Pictures
<1>. QED  BY <1>1, <1>2, <1>3, <1>4 DEF States

\* planSleep returns a decision with a non-negative duration.
LEMMA PlanSleepType ==
  ASSUME NEW ok \in BOOLEAN, NEW t \in MaybeTime, NEW n \in Nat
  PROVE  PlanSleep(ok, t, n) \in [mode : {"DeepSleep", "Active"}, seconds : Nat]
BY ConfigFacts, NoDepartureAssumption DEF PlanSleep, Sleep, StayActive, MaybeTime

\* The values everything starts from, and is forgotten to, are typed.
LEMMA ZeroTypes ==
  /\ MetaZero \in Metas /\ NoFrame \in Frames /\ NoFetch \in FetchResults
  /\ StayActive \in [mode : {"DeepSleep", "Active"}, seconds : Nat]
  /\ NoRescue \in [attempts : Nat, waits : Nat, anchored_at : Nat]
  /\ NoWake \in [cause : {"ColdBoot", "Timer", "Button"},
                 reason : {"Normal", "Brownout", "WatchdogOrPanic", "Other"},
                 pressed : BOOLEAN]
<1>1. MetaZero \in Metas
  BY ConfigFacts DEF MetaZero, Metas
<1>2. NoFrame \in Frames
  BY DEF NoFrame, Frame, Frames, Pictures
<1>3. NoFetch \in FetchResults
  BY DEF NoFetch, FetchResults, States, MaybeTime
<1>4. StayActive \in [mode : {"DeepSleep", "Active"}, seconds : Nat]
  BY DEF StayActive
<1>5. NoRescue \in [attempts : Nat, waits : Nat, anchored_at : Nat]
  BY DEF NoRescue
<1>6. NoWake \in [cause : {"ColdBoot", "Timer", "Button"},
                  reason : {"Normal", "Brownout", "WatchdogOrPanic", "Other"},
                  pressed : BOOLEAN]
  BY DEF NoWake
<1>. QED  BY <1>1, <1>2, <1>3, <1>4, <1>5, <1>6

\* Power-on.
LEMMA InitTypeOK == Init => TypeOK
<1>. SUFFICES ASSUME Init PROVE TypeOK
  OBVIOUS
<1>1. now \in Nat /\ wakeAt \in Nat /\ ghosts \in Nat /\ resets \in Nat /\ planNow \in Nat
  BY WorldFacts DEF Init
<1>2. meta \in Metas /\ rtc \in Metas /\ store \in Frames /\ curr \in Frames /\ glass \in Frames
  BY ZeroTypes DEF Init
<1>3. wake \in [cause : {"ColdBoot", "Timer", "Button"},
                reason : {"Normal", "Brownout", "WatchdogOrPanic", "Other"},
                pressed : BOOLEAN]
  BY DEF Init, NoWake
<1>4. /\ fc \in FetchResults
      /\ plan \in [mode : {"DeepSleep", "Active"}, seconds : Nat]
      /\ rescue \in [attempts : Nat, waits : Nat, anchored_at : Nat]
  BY ZeroTypes DEF Init
<1>. QED  BY <1>1, <1>2, <1>3, <1>4 DEF Init, TypeOK, Locations

(***************************************************************************)
(* The updates of PersistedMeta.                                           *)
(***************************************************************************)
\* A cleared counter lies in its range.
LEMMA ZeroInRange ==
  /\ 0 \in 0..Config.cold_boot_max_retries /\ 0 \in 0..(Config.uint8_modulus - 1)
  /\ 0 \in 0..Config.partial_hardcap
BY ConfigFacts

\* Clearing the retry counters after a boot with WiFi.
LEMMA ColdBootDoneType ==
  ASSUME NEW m \in Metas
  PROVE  ColdBootDone(m) \in Metas
BY ZeroInRange DEF ColdBootDone, Metas

\* Counting a cycle without WiFi: the one counter saturates, the other wraps.
LEMMA AfterNoNetType ==
  ASSUME NEW m \in Metas
  PROVE  AfterNoNet(m) \in Metas
<1>. DEFINE retries == IF m.cold_boot_retries < Config.cold_boot_max_retries
                       THEN m.cold_boot_retries + 1 ELSE m.cold_boot_retries
            cycles == (m.no_wifi_cycles + 1) % Config.uint8_modulus
<1>1. retries \in 0..Config.cold_boot_max_retries
  BY ConfigFacts DEF Metas
<1>2. cycles \in 0..(Config.uint8_modulus - 1)
  <2>1. m.no_wifi_cycles + 1 \in Nat
    BY ConfigFacts DEF Metas
  <2>. QED  BY <2>1, ConfigFacts
<1>3. AfterNoNet(m) = [m EXCEPT !.cold_boot_retries = retries, !.no_wifi_cycles = cycles,
                                !.framebuffer_valid = FALSE]
  BY DEF AfterNoNet, Metas
<1>. HIDE DEF retries, cycles
<1>. QED  BY <1>1, <1>2, <1>3 DEF Metas

\* The bookkeeping of a full refresh.
LEMMA RefreshedType ==
  ASSUME NEW m \in Metas, NEW t \in Nat
  PROVE  /\ [m EXCEPT !.framebuffer_valid = TRUE, !.last_deep_clean = t,
                      !.last_light_full = t, !.partial_count = 0] \in Metas
         /\ [m EXCEPT !.last_display_update = t, !.last_deep_clean = t,
                      !.last_light_full = t] \in Metas
         /\ [m EXCEPT !.last_display_update = t, !.last_deep_clean = t,
                      !.last_light_full = t, !.partial_count = 0] \in Metas
         /\ [m EXCEPT !.last_light_full = t, !.partial_count = 0] \in Metas
BY ZeroInRange DEF Metas

\* Updates of single fields.
LEMMA FieldTypes ==
  ASSUME NEW m \in Metas, NEW t \in Nat, NEW b \in BOOLEAN
  PROVE  /\ [m EXCEPT !.last_ntp_sync = t] \in Metas
         /\ [m EXCEPT !.last_display_update = t] \in Metas
         /\ [m EXCEPT !.expected_wake_at = t] \in Metas
         /\ [m EXCEPT !.framebuffer_valid = b] \in Metas
BY DEF Metas

(***************************************************************************)
(* The groups of variables an operator sets.                               *)
(***************************************************************************)
\* The locals after a cycle.
LEMMA ForgetType ==
  ASSUME Forget
  PROVE  /\ meta' \in Metas /\ curr' \in Frames /\ trigger' \in {"Timer", "Button"}
         /\ ctx' \in {"none", "Cold", "Board", "Offline", "Rescue"}
         /\ fc' \in FetchResults
         /\ plan' \in [mode : {"DeepSleep", "Active"}, seconds : Nat]
         /\ planNow' \in Nat
         /\ rescue' \in [attempts : Nat, waits : Nat, anchored_at : Nat]
BY ZeroTypes DEF Forget

\* A deep sleep keeps the types.
LEMMA DeepSleepType ==
  ASSUME TypeOK, NEW s \in Nat, DeepSleep(s), rtc' \in Metas, store' \in Frames,
         sched' \in BOOLEAN
  PROVE  TypeOK'
BY ForgetType DEF DeepSleep, TypeOK, Locations, clockVars, panelVars

\* A full refresh puts a frame on the glass.
LEMMA PaintType ==
  ASSUME NEW f \in Frames, PaintFull(f)
  PROVE  glass' \in Frames /\ panelRam' \in BOOLEAN /\ ghosts' \in Nat
BY DEF PaintFull

\* Saving the frame, fitting or not.
LEMMA SaveFramebufferType ==
  ASSUME TypeOK, NEW saved \in World.saved, SaveFramebuffer(saved)
  PROVE  rtc' \in Metas /\ store' \in Frames /\ sched' \in BOOLEAN
BY ZeroTypes, WorldFacts DEF SaveFramebuffer, TypeOK, Metas

\* What a fetch records.
LEMMA FetchedType ==
  ASSUME NEW m \in Metas, NEW auth \in BOOLEAN, NEW t \in Nat, NEW outcome
  PROVE  Fetched(m, outcome, auth, t) \in Metas
BY DEF Fetched, Metas

\* The auth flag after a fetch is a flag.
LEMMA AuthType == TypeOK => \A outcome : AuthAfter(outcome) \subseteq BOOLEAN
BY WorldFacts DEF AuthAfter, TypeOK, Metas

\* A departure is a time or none.
LEMMA DeparturesType ==
  ASSUME TypeOK, now' \in Nat
  PROVE  Departures \subseteq MaybeTime /\ Departures' \subseteq MaybeTime
BY WorldFacts, NoDepartureAssumption DEF Departures, MaybeTime, TypeOK

\* The result of doFetchCycle.
LEMMA FetchCycleType ==
  ASSUME TypeOK, now' \in Nat, NEW r, NEW m, NEW outcome, FetchCycle(r, m, outcome)
  PROVE  r \in FetchResults /\ m \in Metas
<1>1. PICK auth \in AuthAfter(outcome), link \in World.link, dep \in Departures' :
        /\ m = Fetched(meta, outcome, auth, Reading')
        /\ r = [ok |-> outcome # "Failed", complete |-> outcome = "Complete",
                state |-> StateOf(m, link, Reading'), t_ref |-> dep, shown |-> dep]
  BY DEF FetchCycle
<1>2. auth \in BOOLEAN /\ link \in BOOLEAN /\ dep \in MaybeTime
  BY <1>1, AuthType, WorldFacts, DeparturesType
<1>3. m \in Metas
  BY <1>1, <1>2, FetchedType, ReadingTypeNext DEF TypeOK
<1>4. StateOf(m, link, Reading') \in States
  BY <1>2, <1>3, StateType, ReadingTypeNext
<1>. QED  BY <1>1, <1>2, <1>3, <1>4 DEF FetchResults

(***************************************************************************)
(* One lemma per group of actions: each keeps the types.                   *)
(***************************************************************************)
\* setup(), loop(), the button and its reset and diagnostic sessions.
LEMMA FrontTypes ==
  ASSUME TypeOK, Setup \/ Loop \/ Press \/ BwReset \/ BwSave \/ Diag \/ DiagExit
  PROVE  TypeOK'
<1>. USE DEF clockVars, slotVars, panelVars, localVars, flowVars
<1>1. CASE Setup
  <2>1. SelectCycle(wake.cause, rtc.cold_boot_retries, rtc.has_any_data) \in Locations
    BY DEF SelectCycle, Locations
  <2>2. CASE Overlay
    <3>1. Frame("Brownout", 0) \in Frames
      BY DEF Frame, Frames, Pictures
    <3>2. PaintFull(Frame("Brownout", 0)) /\ Elapse(0..Config.brownout_show_s)
            /\ residue' = TRUE
      BY <1>1, <2>2 DEF Setup
    <3>3. now' \in Nat
      BY <3>2, ElapseType, ConfigFacts
    <3>. QED  BY <1>1, <2>1, <3>1, <3>2, <3>3, PaintType, ZeroTypes DEF Setup, TypeOK
  <2>3. CASE ~Overlay
    BY <1>1, <2>1, <2>3, ZeroTypes DEF Setup, TypeOK
  <2>. QED  BY <2>2, <2>3
<1>2. CASE Loop
  <2>1. meta' \in Metas /\ pc' \in Locations /\ deepWake' \in BOOLEAN
    BY <1>2 DEF Loop, TypeOK, Locations
  <2>. QED  BY <1>2, <2>1, ZeroTypes DEF Loop, TypeOK
<1>3. CASE Press
  BY <1>3 DEF Press, TypeOK, Locations
<1>4. CASE BwReset
  <2>1. curr' \in Frames
    BY <1>4 DEF BwReset, TypeOK, Frame, Frames, Pictures
  <2>2. glass' \in Frames /\ panelRam' \in BOOLEAN /\ ghosts' \in Nat /\ residue' \in BOOLEAN
    BY <1>4, <2>1, PaintType DEF BwReset
  <2>. QED  BY <1>4, <2>1, <2>2 DEF BwReset, TypeOK, Locations
<1>5. CASE BwSave
  <2>1. meta' \in Metas /\ rtc' = meta'
    BY <1>5, ReadingType, RefreshedType DEF BwSave, TypeOK
  <2>2. store' \in Frames
    BY <1>5, ZeroTypes DEF BwSave, TypeOK
  <2>. QED  BY <1>5, <2>1, <2>2 DEF BwSave, TypeOK, Locations
<1>6. CASE Diag
  <2>1. now' \in Nat
    BY <1>6, ElapseType, WorldFacts DEF Diag
  <2>2. meta' \in Metas
    BY <1>6, <2>1, FetchedType, ReadingTypeNext DEF Diag, TypeOK
  <2>3. Frame("Diag", 0) \in Frames
    BY DEF Frame, Frames, Pictures
  <2>. QED  BY <1>6, <2>1, <2>2, <2>3, PaintType DEF Diag, TypeOK, Locations
<1>7. CASE DiagExit
  <2>1. now' \in Nat
    <3>1. Elapse(0..Config.diag_max_s)
      BY <1>7 DEF DiagExit
    <3>2. (0..Config.diag_max_s) \in SUBSET Nat
      BY ConfigFacts
    <3>. QED  BY <3>1, <3>2, ElapseType
  <2>. QED  BY <1>7, <2>1 DEF DiagExit, TypeOK, Locations
<1>. QED  BY <1>1, <1>2, <1>3, <1>4, <1>5, <1>6, <1>7

\* runColdCycle and the wrong-password screen.
LEMMA ColdTypes ==
  ASSUME TypeOK, ColdCycle \/ AuthScreen \/ AuthSleep
  PROVE  TypeOK'
<1>. USE DEF clockVars, slotVars, panelVars, localVars, flowVars
<1>1. CASE Cold
  <2>1. Frame("Boot", 0) \in Frames
    BY DEF Frame, Frames, Pictures
  <2>. QED  BY <1>1, <2>1, PaintType DEF Cold, TypeOK, Locations
<1>2. CASE ColdConnect
  <2>1. now' \in Nat /\ Reading' \in Nat
    BY <1>2, ElapseType, ReadingTypeNext, WorldFacts DEF ColdConnect
  <2>2. clk' \in {"Good", "Ahead", "Unsynced", "Correcting"}
    BY <1>2 DEF ColdConnect, NtpSynced, NtpFails, TypeOK
  <2>3. meta' \in Metas
    <3>1. meta \in Metas /\ ColdBootDone(meta) \in Metas
      BY ColdBootDoneType DEF TypeOK
    <3>2. [ColdBootDone(meta) EXCEPT !.last_ntp_sync = Reading'] \in Metas
      BY <2>1, <3>1, FieldTypes
    <3>. QED  BY <1>2, <3>1, <3>2 DEF ColdConnect
  <2>. QED  BY <1>2, <2>1, <2>2, <2>3 DEF ColdConnect, TypeOK, Locations
<1>3. CASE ColdNoNet
  <2>1. \A b \in World.scans : Frame(b, 0) \in Frames
    BY DEF Frame, Frames, Pictures
  <2>2. /\ curr' \in Frames /\ glass' \in Frames /\ panelRam' \in BOOLEAN
        /\ ghosts' \in Nat /\ residue' \in BOOLEAN
    <3>1. CASE UNCHANGED <<panelVars, curr>>
      BY <3>1 DEF TypeOK
    <3>2. CASE /\ residue' = FALSE
               /\ \E s \in World.scans : PaintFull(Frame(s, 0)) /\ curr' = Frame(s, 0)
      BY <3>2, <2>1, PaintType
    <3>. QED  BY <1>3, <3>1, <3>2 DEF ColdNoNet
  <2>. QED  BY <1>3, <2>2 DEF ColdNoNet, TypeOK, Locations
<1>4. CASE ColdNoNetSleep
  <2>1. AfterNoNet(meta) \in Metas
    BY AfterNoNetType DEF TypeOK
  <2>. QED  BY <1>4, <2>1, DeepSleepType, ConfigFacts DEF ColdNoNetSleep, SaveMeta, TypeOK
<1>5. CASE AuthScreen
  <2>1. curr' \in Frames
    BY <1>5 DEF AuthScreen, Frame, Frames, Pictures
  <2>2. meta' \in Metas
    BY <1>5, ColdBootDoneType DEF AuthScreen, TypeOK
  <2>3. glass' \in Frames /\ panelRam' \in BOOLEAN /\ ghosts' \in Nat /\ residue' \in BOOLEAN
    BY <1>5, <2>1, PaintType DEF AuthScreen
  <2>. QED  BY <1>5, <2>1, <2>2, <2>3 DEF AuthScreen, TypeOK, Locations
<1>6. CASE AuthSleep
  <2>1. AfterAuthScreen(meta) \in Metas
    BY DEF AfterAuthScreen, TypeOK, Metas
  <2>. QED  BY <1>6, <2>1, DeepSleepType, ConfigFacts DEF AuthSleep, SaveMeta, TypeOK
<1>7. CASE ColdFetch
  <2>1. now' \in Nat
    BY <1>7, ElapseType, WorldFacts DEF ColdFetch
  <2>2. meta' \in Metas
    BY <1>7, <2>1, FetchedType, ReadingTypeNext DEF ColdFetch, TypeOK
  <2>3. fc' \in FetchResults
    BY <1>7, ZeroTypes DEF ColdFetch, FetchResults
  <2>4. sched' \in BOOLEAN
    BY <1>7 DEF ColdFetch, TypeOK
  <2>. QED  BY <1>7, <2>1, <2>2, <2>3, <2>4 DEF ColdFetch, TypeOK, Locations
<1>8. CASE ColdBootCheck
  <2>1. now' \in Nat
    <3>1. CASE Config.boot_info_show_s > 0
      <4>1. Elapse(0..Config.boot_info_show_s)
        BY <1>8, <3>1 DEF ColdBootCheck
      <4>2. (0..Config.boot_info_show_s) \in SUBSET Nat
        BY ConfigFacts
      <4>. QED  BY <4>1, <4>2, ElapseType
    <3>2. CASE Config.boot_info_show_s = 0
      BY <1>8, <3>2 DEF ColdBootCheck, TypeOK
    <3>. QED  BY <3>1, <3>2, ConfigFacts
  <2>2. curr' \in Frames
    BY <1>8 DEF ColdBootCheck, TypeOK, Frame, Frames, Pictures
  <2>. QED  BY <1>8, <2>1, <2>2, PaintType DEF ColdBootCheck, TypeOK, Locations
<1>9. CASE ColdFinish
  <2>1. PICK link \in World.link, dep \in Departures :
          LET state == StateOf(meta, link, Reading)
          IN  /\ \E b \in Bodies(state) : curr' = Frame(b, Stamp(Reading))
              /\ fc' = [fc EXCEPT !.state = state, !.t_ref = dep, !.shown = dep]
              /\ plan' = PlanSleep(state = "Normal" /\ fc.ok, dep, Reading)
    BY <1>9 DEF ColdFinish
  <2>2. Reading \in Nat /\ now' \in Nat
    BY <1>9, ReadingType DEF ColdFinish, TypeOK
  <2>3. dep \in MaybeTime /\ link \in BOOLEAN
    BY <2>1, <2>2, DeparturesType, WorldFacts
  <2>4. StateOf(meta, link, Reading) \in States
    BY <2>2, <2>3, StateType DEF TypeOK
  <2>5. curr' \in Frames
    BY <2>1, <2>2, <2>4, BodiesType, StampType, FrameType
  <2>6. fc' \in FetchResults
    BY <2>1, <2>3, <2>4 DEF TypeOK, FetchResults
  <2>7. plan' \in [mode : {"DeepSleep", "Active"}, seconds : Nat]
    <3>1. (StateOf(meta, link, Reading) = "Normal" /\ fc.ok) \in BOOLEAN
      OBVIOUS
    <3>. QED  BY <2>1, <2>2, <2>3, <3>1, PlanSleepType
  <2>8. meta' \in Metas
    BY <1>9, <2>2, RefreshedType DEF ColdFinish, TypeOK
  <2>9. glass' \in Frames /\ panelRam' \in BOOLEAN /\ ghosts' \in Nat /\ residue' \in BOOLEAN
    BY <1>9, <2>5, PaintType DEF ColdFinish
  <2>. QED  BY <1>9, <2>2, <2>5, <2>6, <2>7, <2>8, <2>9 DEF ColdFinish, TypeOK, Locations
<1>10. CASE ColdSave
  <2>1. rtc' \in Metas /\ store' \in Frames /\ sched' \in BOOLEAN
    BY <1>10, SaveFramebufferType DEF ColdSave, SaveUnchecked
  <2>2. meta' \in Metas
    BY <1>10 DEF ColdSave, SaveUnchecked, TypeOK, Metas
  <2>. QED  BY <1>10, <2>1, <2>2 DEF ColdSave, SaveUnchecked, TypeOK, Locations
<1>. QED  BY <1>1, <1>2, <1>3, <1>4, <1>5, <1>6, <1>7, <1>8, <1>9, <1>10 DEF ColdCycle

\* runWarmCycle up to the schedule refresh.
LEMMA WarmFrontTypes ==
  ASSUME TypeOK, Warm \/ WifiDown \/ OfflineSleep \/ ClockOk \/ ClockLost \/ Fetch \/ Schedule
  PROVE  TypeOK'
<1>. USE DEF clockVars, slotVars, panelVars, localVars, flowVars
<1>1. CASE Warm
  <2>1. now' \in Nat
    BY <1>1, ElapseType, WorldFacts DEF Warm
  <2>2. pc' \in Locations
    BY <1>1 DEF Warm, Locations
  <2>. QED  BY <1>1, <2>1, <2>2 DEF Warm, TypeOK
<1>2. CASE WifiDown
  <2>1. CASE /\ fc' = [NoFetch EXCEPT !.state = "Offline"]
             /\ ctx' = "Offline" /\ pc' = "Push"
             /\ UNCHANGED <<clockVars, meta, slotVars, curr, panelVars, deepWake, wake,
                            trigger, plan, planNow, rescue, wakeAt, resets>>
    <3>1. fc' \in FetchResults
      BY <2>1, ZeroTypes DEF FetchResults, States
    <3>. QED  BY <2>1, <3>1 DEF TypeOK, Locations
  <2>2. CASE DeepSleep(Config.poll_interval_s) /\ UNCHANGED slotVars
    BY <2>2, DeepSleepType, ConfigFacts DEF TypeOK
  <2>. QED  BY <1>2, <2>1, <2>2 DEF WifiDown
<1>3. CASE OfflineSleep
  BY <1>3, DeepSleepType, ConfigFacts DEF OfflineSleep, TypeOK
<1>4. CASE ClockOk
  <2>1. now' \in Nat /\ Reading' \in Nat
    BY <1>4, ReadingTypeNext DEF ClockOk, TypeOK
  <2>2. clk' \in {"Good", "Ahead", "Unsynced", "Correcting"}
    BY <1>4 DEF ClockOk, NtpSynced, TypeOK
  <2>3. meta' \in Metas
    <3>1. [meta EXCEPT !.last_ntp_sync = Reading'] \in Metas
      BY <2>1, FieldTypes DEF TypeOK
    <3>. QED  BY <1>4, <3>1 DEF ClockOk, TypeOK
  <2>. QED  BY <1>4, <2>1, <2>2, <2>3 DEF ClockOk, TypeOK, Locations
<1>5. CASE ClockLost
  BY <1>5, DeepSleepType, ConfigFacts DEF ClockLost, TypeOK
<1>6. CASE Fetch
  <2>1. now' \in Nat /\ Reading' \in Nat
    BY <1>6, ElapseType, ReadingTypeNext, WorldFacts DEF Fetch
  <2>2. fc' \in FetchResults /\ meta' \in Metas
    BY <1>6, <2>1, FetchCycleType DEF Fetch
  <2>. QED  BY <1>6, <2>1, <2>2 DEF Fetch, TypeOK, Locations
<1>7. CASE Schedule
  <2>1. CASE UNCHANGED <<sched, fc, now>>
    BY <1>7, <2>1 DEF Schedule, TypeOK, Locations
  <2>2. CASE /\ Elapse(World.delays) /\ sched' = TRUE
             /\ \E dep \in Departures' : fc' = [fc EXCEPT !.shown = dep]
    <3>1. now' \in Nat
      BY <2>2, ElapseType, WorldFacts
    <3>2. fc' \in FetchResults
      BY <2>2, <3>1, DeparturesType DEF TypeOK, FetchResults
    <3>. QED  BY <1>7, <2>2, <3>1, <3>2 DEF Schedule, TypeOK, Locations
  <2>. QED  BY <1>7, <2>1, <2>2 DEF Schedule
<1>. QED  BY <1>1, <1>2, <1>3, <1>4, <1>5, <1>6, <1>7

(***************************************************************************)
(* A push: what planRefresh returns decides what the counters may become.  *)
(***************************************************************************)
\* planRefresh plans a partial only below the hard cap.
LEMMA PlanForValues ==
  ASSUME NEW f
  PROVE  /\ PlanFor(f) \in {"None", "LightFull", "Partial"}
         /\ PlanFor(f) = "Partial" => ~(meta.partial_count >= Config.partial_hardcap)
BY DEF PlanFor, PlanRefresh, FullRefreshDue

\* So the partial counter cannot pass it.
LEMMA AppliedType ==
  ASSUME NEW m \in Metas, NEW t \in Nat, NEW kind \in {"None", "LightFull", "Partial"},
         kind = "Partial" => ~(m.partial_count >= Config.partial_hardcap)
  PROVE  Applied(m, kind, t) \in Metas
<1>1. CASE kind = "None"
  BY <1>1 DEF Applied
<1>2. CASE kind = "LightFull"
  BY <1>2, RefreshedType DEF Applied
<1>3. CASE kind = "Partial"
  <2>1. m.partial_count + 1 \in 0..Config.partial_hardcap
    BY <1>3, ConfigFacts DEF Metas
  <2>2. Applied(m, kind, t) = [m EXCEPT !.partial_count = m.partial_count + 1]
    BY <1>3 DEF Applied, Metas
  <2>. QED  BY <2>1, <2>2 DEF Metas
<1>. QED  BY <1>1, <1>2, <1>3

\* Whatever the refresh kind, the glass shows a frame.
LEMMA DrawType ==
  ASSUME TypeOK, NEW f \in Frames, NEW kind, Draw(kind, f)
  PROVE  /\ glass' \in Frames /\ panelRam' \in BOOLEAN
         /\ ghosts' \in Nat /\ residue' \in BOOLEAN
<1>1. CASE UNCHANGED panelVars
  BY <1>1 DEF panelVars, TypeOK
<1>2. CASE PaintFull(f) /\ residue' = FALSE
  BY <1>2, PaintType
<1>3. CASE /\ glass' \in AfterPartial(f) /\ panelRam' = TRUE /\ ghosts' = ghosts + 1
           /\ residue' = (residue \/ ~panelRam)
  <2>1. Frame("Garbled", f.stamp) \in Frames /\ [glass EXCEPT !.stamp = f.stamp] \in Frames
    BY DEF TypeOK, Frame, Frames, Pictures
  <2>2. glass' \in Frames
    BY <1>3, <2>1 DEF AfterPartial
  <2>. QED  BY <1>3, <2>2 DEF TypeOK
<1>. QED  BY <1>1, <1>2, <1>3 DEF Draw

\* finishWarmCycle, the rescue fetch and the sleep.
LEMMA WarmEndTypes ==
  ASSUME TypeOK, \/ Decide \/ Nightly \/ NightlySave \/ Push \/ PushSave \/ RescueStart
                 \/ RescueTurn \/ RescueStop \/ RescueWait \/ RescueRetry \/ SleepOrLoop
  PROVE  TypeOK'
<1>. USE DEF clockVars, slotVars, panelVars, localVars, flowVars
<1>1. CASE Decide
  <2>1. plan' \in [mode : {"DeepSleep", "Active"}, seconds : Nat]
    BY <1>1, PlanSleepType DEF Decide, TypeOK, FetchResults
  <2>2. pc' \in Locations /\ ctx' \in {"none", "Cold", "Board", "Offline", "Rescue"}
    BY <1>1 DEF Decide, TypeOK, Locations
  <2>. QED  BY <1>1, <2>1, <2>2 DEF Decide, TypeOK
<1>2. CASE Nightly
  <2>1. curr' \in Frames
    BY <1>2, BodiesType, StampType, FrameType DEF Nightly, TypeOK, FetchResults
  <2>2. meta' \in Metas
    BY <1>2, RefreshedType DEF Nightly, TypeOK
  <2>3. glass' \in Frames /\ panelRam' \in BOOLEAN /\ ghosts' \in Nat /\ residue' \in BOOLEAN
    BY <1>2, <2>1, PaintType DEF Nightly
  <2>. QED  BY <1>2, <2>1, <2>2, <2>3 DEF Nightly, TypeOK, Locations
<1>3. CASE NightlySave
  <2>1. rtc' \in Metas /\ store' \in Frames /\ sched' \in BOOLEAN
    BY <1>3, SaveFramebufferType DEF NightlySave, SaveUnchecked
  <2>2. meta' \in Metas
    BY <1>3, FieldTypes DEF NightlySave, SaveUnchecked, TypeOK
  <2>. QED  BY <1>3, <2>1, <2>2 DEF NightlySave, SaveUnchecked, TypeOK, Locations
<1>4. CASE Push
  <2>1. Reading \in Nat
    BY ReadingType
  <2>2. PICK b \in Bodies(fc.state) :
          LET first == Frame(b, Stamp(IF ForceStamp THEN Reading ELSE meta.last_display_update))
              f == IF Restamped(first) THEN Frame(b, Stamp(Reading)) ELSE first
              m == IF Restamped(first) THEN [meta EXCEPT !.last_display_update = Reading]
                                       ELSE meta
          IN  curr' = f /\ Draw(PlanFor(f), f) /\ meta' = Applied(m, PlanFor(f), Reading)
    BY <1>4 DEF Push
  <2>. DEFINE first == Frame(b, Stamp(IF ForceStamp THEN Reading ELSE meta.last_display_update))
              f == IF Restamped(first) THEN Frame(b, Stamp(Reading)) ELSE first
              m == IF Restamped(first) THEN [meta EXCEPT !.last_display_update = Reading]
                                       ELSE meta
  <2>3. curr' = f /\ Draw(PlanFor(f), f) /\ meta' = Applied(m, PlanFor(f), Reading)
    BY <2>2
  <2>4. first \in Frames /\ f \in Frames
    BY <2>1, BodiesType, StampType, FrameType DEF TypeOK, FetchResults, Metas
  <2>5. m \in Metas /\ m.partial_count = meta.partial_count
    BY <2>1, FieldTypes DEF TypeOK, Metas
  <2>. HIDE DEF m, f
  <2>6. meta' \in Metas
    BY <2>1, <2>3, <2>5, PlanForValues, AppliedType
  <2>7. glass' \in Frames /\ panelRam' \in BOOLEAN /\ ghosts' \in Nat /\ residue' \in BOOLEAN
    BY <2>3, <2>4, DrawType
  <2>. QED  BY <1>4, <2>3, <2>4, <2>6, <2>7 DEF Push, TypeOK, Locations
<1>5. CASE PushSave
  <2>1. PICK saved \in World.saved :
          SaveFramebuffer(saved) /\ meta' = [meta EXCEPT !.framebuffer_valid = saved]
    BY <1>5 DEF PushSave
  <2>2. /\ rtc' \in Metas /\ store' \in Frames /\ sched' \in BOOLEAN
        /\ meta' \in Metas
    BY <2>1, SaveFramebufferType, FieldTypes, WorldFacts DEF TypeOK
  <2>3. plan' \in [mode : {"DeepSleep", "Active"}, seconds : Nat] /\ planNow' \in Nat
    BY <1>5, ReadingType, PlanSleepType DEF PushSave, TypeOK, FetchResults
  <2>4. pc' \in Locations
    BY <1>5 DEF PushSave, Locations
  <2>. QED  BY <1>5, <2>2, <2>3, <2>4 DEF PushSave, TypeOK
<1>6. CASE RescueStart
  <2>1. rescue' \in [attempts : Nat, waits : Nat, anchored_at : Nat] /\ pc' \in Locations
    BY <1>6, ReadingType DEF RescueStart, NoRescue, TypeOK, Locations
  <2>. QED  BY <1>6, <2>1 DEF RescueStart, TypeOK
<1>7. CASE RescueTurn \/ RescueStop
  BY <1>7 DEF RescueTurn, RescueStop, TypeOK, Locations
<1>8. CASE RescueWait
  <2>1. RescueWaitFor(Reading, rescue.anchored_at) \in Int
    BY ReadingType, ConfigFacts DEF RescueWaitFor, TypeOK
  <2>2. now' \in Nat
    BY <1>8, <2>1, ElapseType DEF RescueWait
  <2>3. rescue' \in [attempts : Nat, waits : Nat, anchored_at : Nat]
    BY <1>8 DEF RescueWait, TypeOK
  <2>. QED  BY <1>8, <2>2, <2>3 DEF RescueWait, TypeOK, Locations
<1>9. CASE RescueRetry
  <2>1. rescue' \in [attempts : Nat, waits : Nat, anchored_at : Nat]
    BY <1>9 DEF RescueRetry, TypeOK
  <2>2. PICK outcome \in World.fetch, d \in World.delays :
          \/ /\ outcome = "Complete" /\ now' = now + d
             /\ FetchCycle(fc', meta', outcome)
             /\ pc' = "Push" /\ ctx' = "Rescue"
          \/ /\ outcome # "Complete"
             /\ \E pause \in 0..Config.rescue_retry_pause_s : now' = now + d + pause
             /\ \E auth \in AuthAfter(outcome) :
                  meta' = Fetched(meta, outcome, auth, Reading')
             /\ pc' = "Rescue" /\ UNCHANGED <<fc, ctx>>
    BY <1>9 DEF RescueRetry
  <2>3. d \in Nat /\ 0..Config.rescue_retry_pause_s \subseteq Nat
    BY WorldFacts, ConfigFacts
  <2>4. now' \in Nat /\ Reading' \in Nat
    BY <2>2, <2>3, ReadingTypeNext DEF TypeOK
  <2>5. CASE outcome = "Complete"
    <3>1. fc' \in FetchResults /\ meta' \in Metas
      BY <2>2, <2>4, <2>5, FetchCycleType
    <3>. QED  BY <1>9, <2>1, <2>2, <2>4, <2>5, <3>1 DEF RescueRetry, TypeOK, Locations
  <2>6. CASE outcome # "Complete"
    <3>1. meta' \in Metas
      BY <2>2, <2>4, <2>6, AuthType, FetchedType DEF TypeOK
    <3>. QED  BY <1>9, <2>1, <2>2, <2>4, <2>6, <3>1 DEF RescueRetry, TypeOK, Locations
  <2>. QED  BY <2>5, <2>6
<1>10. CASE SleepOrLoop
  <2>1. SleepSeconds \in Nat /\ (IF IsPlausible(planNow) THEN planNow + SleepSeconds ELSE 0) \in Nat
    BY ConfigFacts DEF SleepSeconds, TypeOK
  <2>2. MetaAtSleep \in Metas
    BY <2>1, FieldTypes DEF MetaAtSleep, TypeOK
  <2>3. rtc' \in Metas /\ store' \in Frames /\ sched' \in BOOLEAN
    BY <1>10, <2>2 DEF SleepOrLoop, SaveMeta, TypeOK
  <2>4. CASE plan.mode = "DeepSleep" /\ DeepSleep(plan.seconds)
    BY <2>3, <2>4, DeepSleepType DEF TypeOK
  <2>5. CASE /\ plan.mode = "Active"
             /\ pc' = "Paused" /\ wakeAt' = now + Config.poll_interval_s /\ Forget
             /\ UNCHANGED <<clockVars, panelVars, deepWake, wake, resets>>
    BY <2>3, <2>5, ForgetType, ConfigFacts DEF TypeOK, Locations
  <2>. QED  BY <1>10, <2>4, <2>5 DEF SleepOrLoop
<1>. QED  BY <1>1, <1>2, <1>3, <1>4, <1>5, <1>6, <1>7, <1>8, <1>9, <1>10

\* A wake-up or reset keeps the types.
LEMMA StartSetupType ==
  ASSUME TypeOK, NEW cause \in {"ColdBoot", "Timer", "Button"},
         NEW reason \in {"Normal", "Brownout", "WatchdogOrPanic", "Other"},
         StartSetup(cause, reason), now' \in Nat, rtc' = rtc, store' = store,
         clk' \in {"Good", "Ahead", "Unsynced", "Correcting"},
         residue' \in BOOLEAN, resets' \in Nat
  PROVE  TypeOK'
<1>1. wake' \in [cause : {"ColdBoot", "Timer", "Button"},
                 reason : {"Normal", "Brownout", "WatchdogOrPanic", "Other"},
                 pressed : BOOLEAN]
  BY DEF StartSetup
<1>. QED  BY <1>1, ForgetType DEF StartSetup, TypeOK, Locations

\* Wake-ups, resets, the clock.
LEMMA EnvironmentTypes ==
  ASSUME TypeOK, Environment
  PROVE  TypeOK'
<1>. USE DEF clockVars, slotVars, panelVars, localVars, flowVars
<1>1. ClockAfter(clk) \subseteq {"Good", "Ahead", "Unsynced", "Correcting"}
  BY WorldFacts DEF ClockAfter, TypeOK
<1>2. CASE WakeByTimer
  <2>1. now' \in Nat /\ clk' \in {"Good", "Ahead", "Unsynced", "Correcting"}
    BY <1>1, <1>2 DEF WakeByTimer, TypeOK
  <2>2. residue' \in BOOLEAN /\ resets' \in Nat
    BY <1>2 DEF WakeByTimer, TypeOK
  <2>. QED  BY <1>2, <2>1, <2>2, StartSetupType DEF WakeByTimer
<1>3. CASE WakeByButton
  <2>1. now' \in Nat /\ clk' \in {"Good", "Ahead", "Unsynced", "Correcting"}
    BY <1>1, <1>3 DEF WakeByButton, TypeOK
  <2>2. residue' \in BOOLEAN /\ resets' \in Nat
    BY <1>3 DEF WakeByButton, TypeOK
  <2>. QED  BY <1>3, <2>1, <2>2, StartSetupType DEF WakeByButton
<1>4. ASSUME NEW pressed \in BOOLEAN, PauseEnds(pressed) PROVE TypeOK'
  BY <1>4 DEF PauseEnds, TypeOK, Locations
<1>5. ASSUME NEW reason \in World.resets \ {"PowerLoss"}, Reset(reason) PROVE TypeOK'
  <2>1. reason \in {"Brownout", "WatchdogOrPanic", "Other"}
    BY WorldFacts
  <2>2. now' \in Nat /\ clk' \in {"Good", "Ahead", "Unsynced", "Correcting"}
    BY <1>1, <1>5 DEF Reset, TypeOK
  <2>3. residue' \in BOOLEAN
    BY <1>5 DEF Reset
  <2>4. resets' \in Nat /\ rtc' = rtc /\ store' = store /\ StartSetup("ColdBoot", reason)
    BY <1>5 DEF Reset, TypeOK
  <2>. QED  BY <2>1, <2>2, <2>3, <2>4, StartSetupType
<1>6. CASE PowerLoss
  <2>1. wake' \in [cause : {"ColdBoot", "Timer", "Button"},
                   reason : {"Normal", "Brownout", "WatchdogOrPanic", "Other"},
                   pressed : BOOLEAN]
    BY <1>6 DEF PowerLoss, NoWake
  <2>2. /\ now' \in Nat /\ clk' = "Unsynced" /\ resets' \in Nat
        /\ glass' = glass /\ ghosts' = ghosts /\ residue' = residue
        /\ rtc' \in Metas /\ store' \in Frames /\ sched' = FALSE
    BY <1>6, ZeroTypes DEF PowerLoss, TypeOK
  <2>3. Forget /\ pc' = "Setup" /\ deepWake' = TRUE /\ panelRam' = FALSE /\ wakeAt' = 0
    BY <1>6 DEF PowerLoss
  <2>. QED  BY <2>1, <2>2, <2>3, ForgetType DEF TypeOK, Locations
<1>7. CASE SntpSetsClock
  BY <1>7 DEF SntpSetsClock, TypeOK
<1>8. CASE HorizonReached
  BY <1>8 DEF HorizonReached, vars, TypeOK
<1>. QED  BY <1>2, <1>3, <1>4, <1>5, <1>6, <1>7, <1>8 DEF Environment

\* Every step of the specification.
LEMMA StepTypes == TypeOK /\ [Next]_vars => TypeOK'
<1>1. ASSUME TypeOK, UNCHANGED vars PROVE TypeOK'
  BY <1>1 DEF vars, TypeOK
<1>. QED  BY <1>1, FrontTypes, ColdTypes, WarmFrontTypes, WarmEndTypes, EnvironmentTypes
          DEF Next, Device, WarmCycle

(***************************************************************************)
(* Type correctness.                                                       *)
(***************************************************************************)

\* In every behaviour, for all tunables and every world, each variable keeps
\* its type; the partial counter stays within the hard cap and the cold-boot
\* retries within their maximum (planRefresh, handleColdBootOutcome).
THEOREM TypeCorrect == Spec => []TypeOK
<1>1. TypeOK /\ [Next]_vars => TypeOK'
  BY StepTypes
<1>. QED  BY InitTypeOK, <1>1, PTL DEF Spec

(***************************************************************************)
(* PART 1.  How long the device may sleep.                                 *)
(*                                                                         *)
(* The bound on a sleep rests on the clock: a plan is the distance from a  *)
(* reading to a departure, so a reading that has lost the date makes it    *)
(* decades long.  SleepInv follows the plan from the reading it is made    *)
(* of, through the pushes and the rescue of the cycle, to doSleepOrLoop.   *)
(* NightlyInv follows the nightly clean to the same sleep, RescueInv the   *)
(* distance of a rescue's refresh from the push before it, and LeadInv the *)
(* time a cycle loses between its plan and its sleep, against the lead the *)
(* plan keeps to the departure.                                            *)
(***************************************************************************)

(***************************************************************************)
(* The inductive invariant.                                                *)
(***************************************************************************)
\* A push of the offline screen happens with the network down and sleeps a
\* poll interval; every other push belongs to a plan.
PlannedPush == pc \in {"Push", "PushSave"} /\ ctx # "Offline"

Planned == PlannedPush \/ pc \in {"ColdSave", "Nightly", "NightlySave", "RescueStart",
                                  "Rescue", "RescueTry", "Sleep"}

Online == Planned \/ pc \in {"ColdFetch", "ColdBootCheck", "ColdFinish", "Fetch",
                             "Schedule", "Decide"}

\* Past the synchronisation the clock has a date.
ClockKnown == Online => clk # "Unsynced"

Offsets == World.departures \ {NoDeparture}
Near(t, from) == t = NoDeparture \/ \E d \in Offsets : t <= from + d

\* The departure a plan is made from is near the present and the reading.
TRefNear ==
  PlannedPush \/ pc \in {"Schedule", "Decide", "RescueStart", "Rescue", "RescueTry"}
    => Near(fc.t_ref, now)
PlanNowNear == pc \in {"Schedule", "Decide"} => Near(fc.t_ref, planNow)

PlanBounded ==
  Planned /\ plan.mode = "DeepSleep" => \E d \in Farthest : plan.seconds <= d

\* A cycle without data plans the short retry and nothing else.
PlanForFailure == Planned /\ ~fc.ok => plan = Sleep(Config.api_failure_retry_s)

SleepInv == ClockKnown /\ TRefNear /\ PlanNowNear /\ PlanBounded /\ PlanForFailure

(***************************************************************************)
(* Readings, departures and plans.                                         *)
(***************************************************************************)
\* A clock with a date never reads less than the real time.
LEMMA ReadingNotBehind ==
  /\ TypeOK /\ clk # "Unsynced" => Reading >= now
  /\ now' \in Nat /\ clk' # "Unsynced" => Reading' >= now'
BY WorldFacts DEF Reading, TypeOK

\* Time passes forwards.
LEMMA ElapseForward ==
  ASSUME TypeOK, NEW D \in SUBSET Nat, Elapse(D)
  PROVE  now' \in Nat /\ now' >= now
BY DEF Elapse, TypeOK

\* Distances to a departure are numbers.
LEMMA OffsetsType == Offsets \subseteq Nat
BY WorldFacts DEF Offsets

\* A departure near a moment is near every later one.
LEMMA NearLater ==
  ASSUME NEW t \in MaybeTime, NEW n \in Nat, NEW m \in Nat, n <= m, Near(t, n)
  PROVE  Near(t, m)
<1>1. CASE t = NoDeparture
  BY <1>1 DEF Near
<1>2. CASE t # NoDeparture
  <2>1. PICK d \in Offsets : t <= n + d
    BY <1>2 DEF Near
  <2>2. t \in Nat /\ d \in Nat
    BY <1>2, OffsetsType DEF MaybeTime
  <2>3. t <= m + d
    BY <2>1, <2>2
  <2>. QED  BY <2>3 DEF Near
<1>. QED  BY <1>1, <1>2

\* A departure the fetch finds is near the fetch.
LEMMA DeparturesNear ==
  ASSUME TypeOK, clk # "Unsynced", NEW dep \in Departures
  PROVE  dep \in MaybeTime /\ Near(dep, now) /\ Near(dep, Reading)
<1>1. now \in Nat /\ Reading \in Nat /\ now <= Reading
  BY ReadingType, ReadingNotBehind DEF TypeOK
<1>2. dep = NoDeparture \/ \E d \in Offsets : dep = now + d
  BY DEF Departures, Offsets
<1>3. Near(dep, now) /\ dep \in MaybeTime
  BY <1>1, <1>2, OffsetsType DEF Near, MaybeTime
<1>. QED  BY <1>1, <1>3, NearLater

\* The same for a fetch that takes its time.
LEMMA DeparturesNearNext ==
  ASSUME now' \in Nat, clk' # "Unsynced", NEW dep \in Departures'
  PROVE  dep \in MaybeTime /\ Near(dep, now') /\ Near(dep, Reading')
<1>1. Reading' \in Nat /\ now' <= Reading'
  BY ReadingTypeNext, ReadingNotBehind
<1>2. dep = NoDeparture \/ \E d \in Offsets : dep = now' + d
  BY DEF Departures, Offsets
<1>3. Near(dep, now') /\ dep \in MaybeTime
  BY <1>2, OffsetsType DEF Near, MaybeTime
<1>. QED  BY <1>1, <1>3, NearLater

\* A plan made near its departure is bounded, one without data short.
LEMMA PlanSleepBounded ==
  ASSUME NEW ok \in BOOLEAN, NEW t \in MaybeTime, NEW n \in Nat, Near(t, n)
  PROVE  /\ PlanSleep(ok, t, n).mode = "DeepSleep"
              => \E d \in Farthest : PlanSleep(ok, t, n).seconds <= d
         /\ ~ok => PlanSleep(ok, t, n) = Sleep(Config.api_failure_retry_s)
<1>1. CASE ~ok
  <2>1. Config.api_failure_retry_s \in Farthest /\ Config.api_failure_retry_s \in Nat
    BY ConfigFacts DEF Farthest, ShortRetries
  <2>. QED  BY <1>1, <2>1 DEF PlanSleep, Sleep
<1>2. CASE ok /\ t = NoDeparture
  <2>1. Config.no_data_sleep_s \in Farthest /\ Config.no_data_sleep_s \in Nat
    BY ConfigFacts DEF Farthest
  <2>. QED  BY <1>2, <2>1 DEF PlanSleep, Sleep
<1>3. CASE ok /\ t # NoDeparture
  <2>1. PICK d \in Offsets : t <= n + d
    BY <1>3 DEF Near
  <2>2. t \in Nat /\ d \in Nat /\ d \in Farthest
    BY <1>3, OffsetsType DEF MaybeTime, Farthest, Offsets
  <2>3. t - Config.wake_before_bus_s - Config.boot_margin_s - n <= d
    BY <2>1, <2>2, ConfigFacts
  <2>. QED  BY <1>3, <2>2, <2>3 DEF PlanSleep, Sleep, StayActive
<1>. QED  BY <1>1, <1>2, <1>3

(***************************************************************************)
(* The invariant holds at the start and is kept by every step.             *)
(***************************************************************************)

\* Before the synchronisation, and asleep, nothing is claimed.
LEMMA IdleInv ==
  ASSUME \/ pc' \notin {"Push", "PushSave", "ColdSave", "Nightly", "NightlySave", "RescueStart",
                        "Rescue", "RescueTry", "Sleep", "ColdFetch", "ColdBootCheck", "ColdFinish",
                        "Fetch", "Schedule", "Decide"}
         \/ pc' \in {"Push", "PushSave"} /\ ctx' = "Offline"
  PROVE  SleepInv'
BY DEF SleepInv, ClockKnown, TRefNear, PlanNowNear, PlanBounded, PlanForFailure, Online,
       Planned, PlannedPush

\* Power-on: nothing is planned.
LEMMA InitSleepInv == Init => SleepInv
BY DEF Init, SleepInv, ClockKnown, TRefNear, PlanNowNear, PlanBounded, PlanForFailure, Online,
       Planned, PlannedPush

\* The actions that plan nothing and leave the thread before a clock check.
LEMMA FrontSleepInv ==
  ASSUME TypeOK, SleepInv,
         Setup \/ Loop \/ Press \/ BwReset \/ BwSave \/ Diag \/ DiagExit \/ AuthScreen \/ AuthSleep
         \/ Cold \/ ColdNoNet \/ ColdNoNetSleep \/ Warm \/ WifiDown \/ OfflineSleep \/ ClockLost
         \/ SleepOrLoop
  PROVE  SleepInv'
<1>1. CASE Setup \/ Loop \/ Press \/ BwReset \/ BwSave \/ Diag \/ DiagExit \/ AuthScreen
           \/ AuthSleep
  BY <1>1, IdleInv DEF Setup, SelectCycle, Loop, Press, BwReset, BwSave, Diag, DiagExit,
                       AuthScreen, AuthSleep, DeepSleep
<1>2. CASE Cold \/ ColdNoNet \/ ColdNoNetSleep \/ Warm
  BY <1>2, IdleInv DEF Cold, ColdNoNet, ColdNoNetSleep, DeepSleep, Warm
<1>3. CASE WifiDown \/ OfflineSleep \/ ClockLost \/ SleepOrLoop
  BY <1>3, IdleInv DEF WifiDown, OfflineSleep, ClockLost, SleepOrLoop, DeepSleep
<1>. QED  BY <1>1, <1>2, <1>3

\* The cold cycle from the synchronisation to its plan.
LEMMA ColdSleepInv ==
  ASSUME TypeOK, SleepInv, ColdConnect \/ ColdFetch \/ ColdBootCheck \/ ColdFinish \/ ColdSave
  PROVE  SleepInv'
<1>. USE DEF SleepInv, Online, Planned, PlannedPush, flowVars, localVars, clockVars
<1>1. CASE ColdConnect
  <2>1. CASE pc' = "ColdFetch"
    <3>1. clk' # "Unsynced"
      BY <1>1, <2>1 DEF ColdConnect, NtpSynced
    <3>. QED  BY <2>1, <3>1 DEF ClockKnown, TRefNear, PlanNowNear, PlanBounded, PlanForFailure
  <2>2. CASE pc' # "ColdFetch"
    BY <1>1, <2>2, IdleInv DEF ColdConnect
  <2>. QED  BY <2>1, <2>2
<1>2. CASE ColdFetch
  BY <1>2 DEF ColdFetch, ClockKnown, TRefNear, PlanNowNear, PlanBounded, PlanForFailure
<1>3. CASE ColdBootCheck
  BY <1>3 DEF ColdBootCheck, ClockKnown, TRefNear, PlanNowNear, PlanBounded, PlanForFailure
<1>4. CASE ColdFinish
  <2>1. clk # "Unsynced" /\ clk' = clk /\ pc' = "ColdSave"
    BY <1>4 DEF ColdFinish, ClockKnown
  <2>2. PICK link \in World.link, dep \in Departures :
          LET state == StateOf(meta, link, Reading)
          IN  /\ fc' = [fc EXCEPT !.state = state, !.t_ref = dep, !.shown = dep]
              /\ plan' = PlanSleep(state = "Normal" /\ fc.ok, dep, Reading)
    BY <1>4 DEF ColdFinish
  <2>. DEFINE ok == StateOf(meta, link, Reading) = "Normal" /\ fc.ok
  <2>3. Near(dep, Reading) /\ dep \in MaybeTime /\ Reading \in Nat /\ ok \in BOOLEAN
    BY <2>1, DeparturesNear, ReadingType
  <2>4. plan' = PlanSleep(ok, dep, Reading) /\ (fc'.ok = fc.ok) /\ (ok => fc.ok)
    BY <2>2 DEF TypeOK, FetchResults
  <2>. HIDE DEF ok
  <2>5. /\ plan'.mode = "DeepSleep" => \E d \in Farthest : plan'.seconds <= d
        /\ ~fc'.ok => plan' = Sleep(Config.api_failure_retry_s)
    BY <2>3, <2>4, PlanSleepBounded
  <2>6. PlanBounded' /\ PlanForFailure'
    BY <2>5 DEF PlanBounded, PlanForFailure, Farthest, ShortRetries, Sleep
  <2>. QED  BY <2>1, <2>6 DEF ClockKnown, TRefNear, PlanNowNear
<1>5. CASE ColdSave
  BY <1>5 DEF ColdSave, SaveUnchecked, ClockKnown, TRefNear, PlanNowNear, PlanBounded,
              PlanForFailure, Farthest, ShortRetries
<1>. QED  BY <1>1, <1>2, <1>3, <1>4, <1>5

\* The warm cycle from the synchronisation to its plan.
LEMMA WarmSleepInv ==
  ASSUME TypeOK, SleepInv, ClockOk \/ Fetch \/ Schedule \/ Decide \/ Nightly \/ NightlySave
  PROVE  SleepInv'
<1>. USE DEF SleepInv, Online, Planned, PlannedPush, flowVars, localVars, clockVars
<1>1. CASE ClockOk
  <2>1. CASE NtpSynced
    <3>1. clk' # "Unsynced" /\ pc' = "Fetch"
      BY <1>1, <2>1 DEF ClockOk, NtpSynced
    <3>. QED  BY <3>1 DEF ClockKnown, TRefNear, PlanNowNear, PlanBounded, PlanForFailure
  <2>2. CASE ~ClockDoubtful /\ UNCHANGED clk
    <3>1. clk # "Unsynced"
      BY <2>2, WorldAssumption DEF ClockDoubtful, IsPlausible, Reading, Positive
    <3>. QED  BY <1>1, <2>2, <3>1
              DEF ClockOk, ClockKnown, TRefNear, PlanNowNear, PlanBounded, PlanForFailure
  <2>. QED  BY <1>1, <2>1, <2>2 DEF ClockOk
<1>2. CASE Fetch
  <2>1. clk' # "Unsynced" /\ now' \in Nat /\ pc' = "Schedule" /\ planNow' = Reading'
    BY <1>2, ElapseForward, WorldFacts DEF Fetch, ClockKnown
  <2>2. \E dep \in Departures' : fc'.t_ref = dep
    BY <1>2 DEF Fetch, FetchCycle
  <2>3. Near(fc'.t_ref, now') /\ Near(fc'.t_ref, planNow')
    BY <2>1, <2>2, DeparturesNearNext
  <2>. QED  BY <2>1, <2>3
            DEF ClockKnown, TRefNear, PlanNowNear, PlanBounded, PlanForFailure, Near, Offsets
<1>3. CASE Schedule
  <2>1. clk' # "Unsynced" /\ pc' = "Decide" /\ planNow' = planNow
    BY <1>3 DEF Schedule, ClockKnown
  <2>2. now' \in Nat /\ now <= now' /\ fc'.t_ref = fc.t_ref
    BY <1>3, ElapseForward, WorldFacts DEF Schedule, TypeOK, FetchResults
  <2>3. fc.t_ref \in MaybeTime /\ now \in Nat /\ Near(fc.t_ref, now) /\ Near(fc.t_ref, planNow)
    BY <1>3 DEF Schedule, TRefNear, PlanNowNear, TypeOK, FetchResults
  <2>4. Near(fc.t_ref, now')
    BY <2>2, <2>3, NearLater
  <2>. QED  BY <2>1, <2>2, <2>3, <2>4
            DEF ClockKnown, TRefNear, PlanNowNear, PlanBounded, PlanForFailure, Near, Offsets
<1>4. CASE Decide
  <2>1. /\ clk' # "Unsynced" /\ fc' = fc /\ now' = now
        /\ plan' = PlanSleep(fc.ok, fc.t_ref, planNow)
        /\ pc' \in {"Nightly", "Push", "RescueStart"}
    BY <1>4 DEF Decide, ClockKnown
  <2>2. Near(fc.t_ref, now) /\ Near(fc.t_ref, planNow)
    BY <1>4 DEF Decide, TRefNear, PlanNowNear
  <2>3. /\ plan'.mode = "DeepSleep" => \E d \in Farthest : plan'.seconds <= d
        /\ ~fc.ok => plan' = Sleep(Config.api_failure_retry_s)
    BY <2>1, <2>2, PlanSleepBounded DEF TypeOK, FetchResults
  <2>. QED  BY <2>1, <2>2, <2>3
            DEF ClockKnown, TRefNear, PlanNowNear, PlanBounded, PlanForFailure, Near, Offsets,
                Farthest, ShortRetries, Sleep
<1>5. CASE Nightly
  BY <1>5 DEF Nightly, ClockKnown, TRefNear, PlanNowNear, PlanBounded, PlanForFailure,
              Farthest, ShortRetries, Sleep
<1>6. CASE NightlySave
  BY <1>6 DEF NightlySave, SaveUnchecked, ClockKnown, TRefNear, PlanNowNear, PlanBounded,
              PlanForFailure, Farthest, ShortRetries, Sleep
<1>. QED  BY <1>1, <1>2, <1>3, <1>4, <1>5, <1>6

\* A push keeps the plan, the push of a rescue makes a new one.
LEMMA PushSleepInv ==
  ASSUME TypeOK, SleepInv, Push \/ PushSave
  PROVE  SleepInv'
<1>. USE DEF SleepInv, Online, Planned, PlannedPush, flowVars, localVars, clockVars
<1>1. CASE Push
  BY <1>1 DEF Push, ClockKnown, TRefNear, PlanNowNear, PlanBounded, PlanForFailure,
              Near, Offsets, Farthest, ShortRetries, Sleep
<1>2. CASE PushSave /\ ctx = "Offline"
  BY <1>2, IdleInv DEF PushSave
<1>3. CASE PushSave /\ ctx = "Board"
  BY <1>3 DEF PushSave, ClockKnown, TRefNear, PlanNowNear, PlanBounded, PlanForFailure,
              Near, Offsets, Farthest, ShortRetries, Sleep
<1>4. CASE PushSave /\ ctx = "Rescue"
  <2>1. /\ clk # "Unsynced" /\ UNCHANGED <<now, clk, fc>> /\ pc' = "Sleep"
        /\ plan' = PlanSleep(fc.ok, fc.t_ref, Reading)
    BY <1>4 DEF PushSave, ClockKnown
  <2>2. now \in Nat /\ Reading \in Nat /\ now <= Reading
    BY <2>1, ReadingType, ReadingNotBehind DEF TypeOK
  <2>3. fc.t_ref \in MaybeTime /\ fc.ok \in BOOLEAN /\ Near(fc.t_ref, now)
    BY <1>4 DEF PushSave, TRefNear, TypeOK, FetchResults
  <2>4. Near(fc.t_ref, Reading)
    BY <2>2, <2>3, NearLater
  <2>5. /\ plan'.mode = "DeepSleep" => \E d \in Farthest : plan'.seconds <= d
        /\ ~fc.ok => plan' = Sleep(Config.api_failure_retry_s)
    BY <2>1, <2>2, <2>3, <2>4, PlanSleepBounded
  <2>. QED  BY <2>1, <2>5 DEF ClockKnown, TRefNear, PlanNowNear, PlanBounded, PlanForFailure,
                              Farthest, ShortRetries, Sleep
<1>. QED  BY <1>1, <1>2, <1>3, <1>4 DEF PushSave

\* A rescue keeps the plan or replaces data by newer data.
LEMMA RescueSleepInv ==
  ASSUME TypeOK, SleepInv, RescueStart \/ RescueTurn \/ RescueStop \/ RescueWait
                           \/ RescueRetry
  PROVE  SleepInv'
<1>. USE DEF SleepInv, Online, Planned, PlannedPush, flowVars, localVars, clockVars
<1>1. CASE RescueStart
  BY <1>1 DEF RescueStart, ClockKnown, TRefNear, PlanNowNear, PlanBounded, PlanForFailure,
              Near, Offsets, Farthest, ShortRetries, Sleep
<1>2. CASE RescueTurn \/ RescueStop
  BY <1>2 DEF RescueTurn, RescueStop, ClockKnown, TRefNear, PlanNowNear, PlanBounded, PlanForFailure,
              Near, Offsets, Farthest, ShortRetries, Sleep
<1>3. \A n \in Nat : n >= now /\ pc = "RescueTry" => Near(fc.t_ref, n)
  BY NearLater DEF TRefNear, TypeOK, FetchResults
<1>4. CASE RescueWait
  <2>1. RescueWaitFor(Reading, rescue.anchored_at) \in Int
    BY ReadingType, ConfigFacts DEF RescueWaitFor, TypeOK
  <2>2. now' \in Nat /\ now' >= now
    BY <1>4, <2>1, ElapseForward DEF RescueWait
  <2>3. pc = "RescueTry" /\ pc' = "Rescue" /\ UNCHANGED <<clk, fc, plan, planNow>>
    BY <1>4 DEF RescueWait
  <2>4. TRefNear'
    BY <1>3, <2>2, <2>3 DEF TRefNear, Near, Offsets
  <2>. QED  BY <2>3, <2>4 DEF ClockKnown, PlanNowNear, PlanBounded, PlanForFailure,
                              Farthest, ShortRetries, Sleep
<1>5. CASE RescueRetry
  <2>1. PICK outcome \in World.fetch, d \in World.delays :
          \/ /\ outcome = "Complete" /\ now' = now + d
             /\ FetchCycle(fc', meta', outcome)
             /\ pc' = "Push" /\ ctx' = "Rescue"
          \/ /\ \E pause \in 0..Config.rescue_retry_pause_s : now' = now + d + pause
             /\ pc' = "Rescue" /\ UNCHANGED <<fc, ctx>>
    BY <1>5 DEF RescueRetry
  <2>2. d \in Nat /\ 0..Config.rescue_retry_pause_s \subseteq Nat
    BY WorldFacts, ConfigFacts
  <2>3. now' \in Nat /\ now' >= now
    BY <2>1, <2>2 DEF TypeOK
  <2>4. pc = "RescueTry" /\ UNCHANGED <<clk, plan, planNow>> /\ clk' # "Unsynced"
    BY <1>5 DEF RescueRetry, ClockKnown
  <2>5. CASE FetchCycle(fc', meta', "Complete") /\ pc' = "Push" /\ ctx' = "Rescue"
    <3>1. PICK link \in World.link, dep \in Departures' :
            fc' = [ok |-> "Complete" # "Failed", complete |-> "Complete" = "Complete",
                   state |-> StateOf(meta', link, Reading'), t_ref |-> dep, shown |-> dep]
      BY <2>5 DEF FetchCycle
    <3>2. fc'.ok = ("Complete" # "Failed") /\ fc'.t_ref = dep
      BY <3>1
    <3>3. fc'.ok /\ Near(fc'.t_ref, now')
      BY <2>3, <2>4, <3>2, DeparturesNearNext
    <3>. QED  BY <2>4, <2>5, <3>3
              DEF ClockKnown, TRefNear, PlanNowNear, PlanBounded, PlanForFailure, Near, Offsets,
                  Farthest, ShortRetries, Sleep
  <2>6. CASE pc' = "Rescue" /\ UNCHANGED <<fc, ctx>>
    <3>1. TRefNear'
      BY <1>3, <2>3, <2>4, <2>6 DEF TRefNear, Near, Offsets
    <3>. QED  BY <2>4, <2>6, <3>1 DEF ClockKnown, PlanNowNear, PlanBounded, PlanForFailure,
                                      Farthest, ShortRetries, Sleep
  <2>. QED  BY <2>1, <2>5, <2>6
<1>. QED  BY <1>1, <1>2, <1>4, <1>5

\* A wake-up discards the plan; SNTP only moves the clock to the present.
LEMMA EnvironmentSleepInv ==
  ASSUME TypeOK, SleepInv, Environment
  PROVE  SleepInv'
<1>1. CASE WakeByTimer \/ WakeByButton \/ PowerLoss
  BY <1>1, IdleInv DEF WakeByTimer, WakeByButton, PowerLoss, StartSetup
<1>2. CASE \E pressed \in BOOLEAN : PauseEnds(pressed)
  BY <1>2, IdleInv DEF PauseEnds
<1>3. CASE \E reason \in World.resets \ {"PowerLoss"} : Reset(reason)
  BY <1>3, IdleInv DEF Reset, StartSetup
<1>4. CASE SntpSetsClock
  BY <1>4 DEF SntpSetsClock, flowVars, localVars, SleepInv, ClockKnown, TRefNear, PlanNowNear,
              PlanBounded, PlanForFailure, Online, Planned, PlannedPush, Near, Offsets,
              Farthest, ShortRetries, Sleep
<1>5. CASE HorizonReached
  BY <1>5, IdleInv DEF HorizonReached, vars
<1>. QED  BY <1>1, <1>2, <1>3, <1>4, <1>5 DEF Environment

\* Every step of the specification.
LEMMA StepSleepInv == TypeOK /\ SleepInv /\ [Next]_vars => SleepInv'
<1>1. ASSUME SleepInv, UNCHANGED vars PROVE SleepInv'
  BY <1>1 DEF vars, SleepInv, ClockKnown, TRefNear, PlanNowNear, PlanBounded, PlanForFailure,
              Online, Planned, PlannedPush, Near, Offsets, Farthest, ShortRetries, Sleep
<1>. QED  BY <1>1, FrontSleepInv, ColdSleepInv, WarmSleepInv, PushSleepInv, RescueSleepInv,
             EnvironmentSleepInv
          DEF Next, Device, ColdCycle, WarmCycle

\* From the synchronisation of a cycle's clock to its sleep, the clock keeps its
\* date, the plan is bounded by the departure it was made from, and a cycle
\* without data has planned the short retry (ensureClockSynced, finishWarmCycle,
\* finishColdCycle, runRescueFetch).
THEOREM SleepInvariant == Spec => [](TypeOK /\ SleepInv)
<1>1. TypeOK /\ SleepInv /\ [Next]_vars => SleepInv'
  BY StepSleepInv
<1>. QED  BY <1>1, InitSleepInv, TypeCorrect, PTL DEF Spec

(***************************************************************************)
(* The two bounds on a sleep.                                              *)
(***************************************************************************)
\* A deep sleep lasts as long as asked for.
LEMMA SleepStep ==
  ASSUME TypeOK, NEW s \in Nat, DeepSleep(s)
  PROVE  wakeAt' - now = s
BY DEF DeepSleep, TypeOK

\* The ways to a deep sleep, each with its duration.
LEMMA WaysToSleep ==
  ASSUME TypeOK, Next, FallsAsleep
  PROVE  \/ pc = "AuthSleep" /\ wakeAt' - now = Config.wifi_auth_sleep_s
         \/ wakeAt' - now \in {Config.poll_interval_s, Config.cold_boot_retry_s}
         \/ /\ pc = "Sleep" /\ plan.mode = "DeepSleep" /\ plan.seconds \in Nat
            /\ wakeAt' - now = plan.seconds
<1>. USE DEF FallsAsleep
<1>1. CASE Setup \/ Loop \/ Press \/ BwReset \/ BwSave \/ Diag \/ DiagExit \/ AuthScreen
  BY <1>1 DEF Setup, SelectCycle, Loop, Press, BwReset, BwSave, Diag, DiagExit, AuthScreen
<1>2. CASE AuthSleep
  BY <1>2, SleepStep, ConfigFacts DEF AuthSleep
<1>3. CASE ColdNoNetSleep
  BY <1>3, SleepStep, ConfigFacts DEF ColdNoNetSleep
<1>4. CASE WifiDown
  BY <1>4, SleepStep, ConfigFacts DEF WifiDown
<1>5. CASE OfflineSleep
  BY <1>5, SleepStep, ConfigFacts DEF OfflineSleep
<1>6. CASE ClockLost
  BY <1>6, SleepStep, ConfigFacts DEF ClockLost
<1>7. CASE SleepOrLoop
  BY <1>7, SleepStep DEF SleepOrLoop, TypeOK
<1>8. CASE Cold \/ ColdConnect \/ ColdNoNet \/ ColdFetch \/ ColdBootCheck \/ ColdFinish \/ ColdSave
  BY <1>8 DEF Cold, ColdConnect, ColdNoNet, ColdFetch, ColdBootCheck, ColdFinish, ColdSave,
              SaveUnchecked
<1>9. CASE Warm \/ ClockOk \/ Fetch \/ Schedule \/ Decide \/ Nightly \/ NightlySave
  BY <1>9 DEF Warm, ClockOk, Fetch, Schedule, Decide, Nightly, NightlySave, SaveUnchecked
<1>10. CASE Push \/ PushSave \/ RescueStart \/ RescueTurn \/ RescueStop \/ RescueWait
            \/ RescueRetry
  BY <1>10 DEF Push, PushSave, RescueStart, RescueTurn, RescueStop, RescueWait, RescueRetry
<1>11. CASE Environment
  BY <1>11 DEF Environment, WakeByTimer, WakeByButton, StartSetup, PauseEnds, Reset, PowerLoss,
               SntpSetsClock, HorizonReached, vars
<1>. QED  BY <1>1, <1>2, <1>3, <1>4, <1>5, <1>6, <1>7, <1>8, <1>9, <1>10, <1>11
          DEF Next, Device, ColdCycle, WarmCycle

\* In no world does the device sleep longer than the longest interval of its
\* configuration or the farthest departure it was told of: a plan is never
\* made from a reading without a date, although the clock may be lost or set
\* between any two steps (ensureClockSynced, planSleep, runRescueFetch).
THEOREM SleepsAreBounded == Spec => NoAbsurdSleep
<1>. DEFINE Bounded == FallsAsleep => \E d \in Farthest : wakeAt' - now <= d
<1>1. ASSUME TypeOK, SleepInv, Next, FallsAsleep
      PROVE  \E d \in Farthest : wakeAt' - now <= d
  <2>1. CASE pc = "AuthSleep" /\ wakeAt' - now = Config.wifi_auth_sleep_s
    <3>1. Config.wifi_auth_sleep_s \in Farthest
      BY DEF Farthest
    <3>. QED  BY <2>1, <3>1, ConfigFacts
  <2>2. CASE wakeAt' - now \in {Config.poll_interval_s, Config.cold_boot_retry_s}
    <3>1. Config.poll_interval_s \in Farthest /\ Config.cold_boot_retry_s \in Farthest
      BY DEF Farthest, ShortRetries
    <3>. QED  BY <2>2, <3>1, ConfigFacts
  <2>3. CASE pc = "Sleep" /\ plan.mode = "DeepSleep" /\ wakeAt' - now = plan.seconds
    BY <1>1, <2>3 DEF SleepInv, PlanBounded, Planned
  <2>. QED  BY <1>1, <2>1, <2>2, <2>3, WaysToSleep
<1>2. TypeOK /\ SleepInv /\ [Next]_vars => [Bounded]_vars
  BY <1>1
<1>. QED  BY <1>2, SleepInvariant, PTL DEF Spec, NoAbsurdSleep

\* In no world does a cycle that got no data sleep longer than one of the
\* short retries, the wrong-password sleep aside (planSleep,
\* handleWarmWifiDown, handleColdBootOutcome, runRescueFetch).
THEOREM RetriesStayShort == Spec => NoLongSleepWithoutData
<1>. DEFINE Short == FallsAsleep /\ ~fc.ok /\ pc # "AuthSleep" => wakeAt' - now \in ShortRetries
<1>1. ASSUME TypeOK, SleepInv, Next, FallsAsleep, ~fc.ok, pc # "AuthSleep"
      PROVE  wakeAt' - now \in ShortRetries
  <2>1. CASE wakeAt' - now \in {Config.poll_interval_s, Config.cold_boot_retry_s}
    BY <2>1 DEF ShortRetries
  <2>2. CASE pc = "Sleep" /\ wakeAt' - now = plan.seconds
    <3>1. plan = Sleep(Config.api_failure_retry_s)
      BY <1>1, <2>2 DEF SleepInv, PlanForFailure, Planned
    <3>. QED  BY <2>2, <3>1 DEF Sleep, ShortRetries
  <2>. QED  BY <1>1, <2>1, <2>2, WaysToSleep
<1>2. TypeOK /\ SleepInv /\ [Next]_vars => [Short]_vars
  BY <1>1
<1>. QED  BY <1>2, SleepInvariant, PTL DEF Spec, NoLongSleepWithoutData

(***************************************************************************)
(* The nightly clean.                                                      *)
(***************************************************************************)
\* A clean is due at some time after the last one, not at once.
NightlyIntervalSet == Config.nightly_deep_clean_interval_s > 0

\* Time has begun and passes forwards, also over a sleep.
Dated == now > 0 /\ (Resting => wakeAt >= now)

\* The plan of a cycle is made from a reading with a date.
PlanDated == pc \in {"Schedule", "Decide", "Nightly"} => planNow > 0

\* The clean is recent once the panel was cleaned in this cycle, and after a
\* decision for a long sleep without one.
JustCleaned == pc \in {"ColdSave", "NightlySave"} => CleanedRecently
DecidedAgainst ==
  /\ \/ pc \in {"Push", "PushSave"} /\ ctx = "Board"
     \/ pc \in {"RescueStart", "Rescue", "RescueTry", "Sleep"} /\ ctx # "Rescue"
  /\ LongPlan
  => CleanedRecently

NightlyInv == Dated /\ PlanDated /\ JustCleaned /\ DecidedAgainst

\* A step that touches neither plan nor clean keeps what was decided.
LEMMA NightlyUntouched ==
  ASSUME NightlyInv, Dated', UNCHANGED <<plan, planNow>>,
         meta'.last_deep_clean = meta.last_deep_clean,
         \/ pc' \notin {"Schedule", "Decide", "Nightly", "ColdSave", "NightlySave", "Push", "PushSave",
                        "RescueStart", "Rescue", "RescueTry", "Sleep"}
         \/ pc \in {"ColdSave", "NightlySave"} /\ pc' = "Sleep"
         \/ pc = "Schedule" /\ pc' = "Decide"
         \/ /\ pc \in {"Push", "PushSave", "RescueStart", "Rescue", "RescueTry"}
            /\ pc' \in {"Push", "PushSave", "RescueStart", "Rescue", "RescueTry", "Sleep"}
            /\ ctx' = ctx /\ (pc = "Push" => pc' = "PushSave")
            /\ pc = "PushSave" => ctx = "Board"
            /\ pc \in {"RescueStart", "Rescue", "RescueTry"} => pc' \notin {"Push", "PushSave"}
  PROVE  NightlyInv'
BY DEF NightlyInv, PlanDated, JustCleaned, DecidedAgainst, CleanedRecently, LongPlan

\* Away from the plan nothing is claimed but the date.
LEMMA NightlyIdle ==
  ASSUME Dated',
         \/ pc' \notin {"Schedule", "Decide", "Nightly", "ColdSave", "NightlySave", "Push", "PushSave",
                        "RescueStart", "Rescue", "RescueTry", "Sleep"}
         \/ pc' \in {"Push", "PushSave"} /\ ctx' # "Board"
         \/ pc' = "Sleep" /\ ctx' = "Rescue"
  PROVE  NightlyInv'
BY DEF NightlyInv, PlanDated, JustCleaned, DecidedAgainst

\* A deep sleep ends after it begins.
LEMMA DatedAsleep ==
  ASSUME TypeOK, Dated, NEW s \in Nat, DeepSleep(s)
  PROVE  Dated'
BY DEF DeepSleep, Dated, Resting, TypeOK, clockVars

\* No step of the thread, and no wake-up, turns time back.
LEMMA StepDated ==
  ASSUME TypeOK, Dated, [Next]_vars
  PROVE  Dated'
<1>. USE DEF clockVars
<1>1. CASE now' \in Nat /\ now' >= now /\ ~Resting'
  BY <1>1 DEF Dated, TypeOK
<1>2. CASE UNCHANGED vars \/ HorizonReached \/ SntpSetsClock
  BY <1>2 DEF vars, HorizonReached, SntpSetsClock, Dated, Resting
<1>3. CASE Setup
  <2>1. pc' \in {"Press", "Cold", "Warm"} /\ (now' = now \/ Elapse(0..Config.brownout_show_s))
    BY <1>3 DEF Setup, SelectCycle
  <2>2. 0..Config.brownout_show_s \in SUBSET Nat
    BY ConfigFacts
  <2>3. CASE Elapse(0..Config.brownout_show_s)
    <3>1. now' \in Nat /\ now' >= now
      BY <2>2, <2>3, ElapseForward
    <3>. QED  BY <2>1, <3>1, <1>1 DEF Resting
  <2>. QED  BY <2>1, <2>3, <1>1 DEF Resting, TypeOK
<1>4. CASE Loop \/ Press \/ BwReset \/ BwSave \/ AuthScreen \/ Cold \/ ColdNoNet \/ ColdFinish
           \/ ColdSave \/ ClockOk \/ Decide \/ Nightly \/ NightlySave \/ Push \/ PushSave
           \/ RescueStart \/ RescueTurn \/ RescueStop
  <2>1. now' = now
    BY <1>4 DEF Loop, Press, BwReset, BwSave, AuthScreen, Cold, ColdNoNet, ColdFinish, ColdSave,
       SaveUnchecked, ClockOk, Decide, Nightly, NightlySave, Push, PushSave, RescueStart,
       RescueTurn, RescueStop
  <2>2. ~Resting'
    BY <1>4 DEF Loop, Press, BwReset, BwSave, AuthScreen, Cold, ColdNoNet, ColdFinish, ColdSave,
       SaveUnchecked, ClockOk, Decide, Nightly, NightlySave, Push, PushSave, RescueStart,
       RescueTurn, RescueStop, Resting
  <2>. QED  BY <2>1, <2>2, <1>1 DEF TypeOK
<1>5. CASE Diag \/ DiagExit \/ ColdConnect \/ ColdFetch \/ ColdBootCheck \/ Warm \/ Fetch
  <2>1. ~Resting'
    BY <1>5 DEF Diag, DiagExit, ColdConnect, ColdFetch, ColdBootCheck, Warm, Fetch, Resting
  <2>2. ASSUME NEW D \in SUBSET Nat, Elapse(D) PROVE Dated'
    BY <2>1, <2>2, <1>1, ElapseForward
  <2>3. 0..Config.diag_max_s \in SUBSET Nat /\ 0..Config.boot_info_show_s \in SUBSET Nat
        /\ World.delays \in SUBSET Nat
    BY ConfigFacts, WorldFacts
  <2>4. CASE Elapse(0..Config.diag_max_s)
    BY <2>2, <2>3, <2>4
  <2>5. CASE Elapse(0..Config.boot_info_show_s)
    BY <2>2, <2>3, <2>5
  <2>6. CASE Elapse(World.delays)
    BY <2>2, <2>3, <2>6
  <2>7. CASE now' = now
    BY <2>1, <2>7, <1>1 DEF TypeOK
  <2>. QED  BY <1>5, <2>4, <2>5, <2>6, <2>7
            DEF Diag, DiagExit, ColdConnect, ColdFetch, ColdBootCheck, Warm, Fetch
<1>6. CASE Schedule
  <2>1. pc' = "Decide" /\ (now' = now \/ Elapse(World.delays))
    BY <1>6 DEF Schedule
  <2>2. now' \in Nat /\ now' >= now
    BY <2>1, WorldFacts, ElapseForward DEF TypeOK
  <2>. QED  BY <2>1, <2>2, <1>1 DEF Resting
<1>7. CASE RescueWait \/ RescueRetry
  <2>1. ~Resting'
    BY <1>7 DEF RescueWait, RescueRetry, Resting
  <2>2. CASE RescueWait
    <3>1. RescueWaitFor(Reading, rescue.anchored_at) \in Int
      BY ReadingType, ConfigFacts DEF RescueWaitFor, TypeOK
    <3>2. now' \in Nat /\ now' >= now
      BY <2>2, <3>1, ElapseForward DEF RescueWait
    <3>. QED  BY <2>1, <3>2, <1>1
  <2>3. CASE RescueRetry
    <3>1. \E d \in World.delays : \/ now' = now + d
                                  \/ \E p \in 0..Config.rescue_retry_pause_s : now' = now + d + p
      BY <2>3 DEF RescueRetry
    <3>2. now' \in Nat /\ now' >= now
      BY <3>1, WorldFacts, ConfigFacts DEF TypeOK
    <3>. QED  BY <2>1, <3>2, <1>1
  <2>. QED  BY <1>7, <2>2, <2>3
<1>8. CASE AuthSleep \/ ColdNoNetSleep \/ OfflineSleep \/ ClockLost
  BY <1>8, DatedAsleep, ConfigFacts DEF AuthSleep, ColdNoNetSleep, OfflineSleep, ClockLost
<1>9. CASE WifiDown
  <2>1. CASE pc' = "Push"
    BY <1>9, <2>1, <1>1 DEF WifiDown, Resting, TypeOK, DeepSleep
  <2>2. CASE DeepSleep(Config.poll_interval_s)
    BY <2>2, DatedAsleep, ConfigFacts
  <2>. QED  BY <1>9, <2>1, <2>2 DEF WifiDown
<1>10. CASE SleepOrLoop
  <2>1. CASE DeepSleep(plan.seconds)
    BY <2>1, DatedAsleep DEF TypeOK
  <2>2. CASE now' = now /\ wakeAt' = now + Config.poll_interval_s
    BY <2>2, ConfigFacts DEF Dated, TypeOK
  <2>. QED  BY <1>10, <2>1, <2>2 DEF SleepOrLoop
<1>11. CASE WakeByTimer \/ WakeByButton \/ \E pressed \in BOOLEAN : PauseEnds(pressed)
  <2>1. now \in Nat /\ wakeAt \in Nat /\ wakeAt >= now /\ pc' \in {"Setup", "Loop"}
    BY <1>11 DEF WakeByTimer, WakeByButton, PauseEnds, StartSetup, Dated, Resting, TypeOK
  <2>2. now' = wakeAt \/ now' \in now..wakeAt
    BY <1>11 DEF WakeByTimer, WakeByButton, PauseEnds
  <2>. QED  BY <2>1, <2>2, <1>1 DEF Resting
<1>12. CASE PowerLoss \/ \E reason \in World.resets \ {"PowerLoss"} : Reset(reason)
  BY <1>12, <1>1 DEF PowerLoss, Reset, StartSetup, Resting, TypeOK
<1>. QED  BY <1>2, <1>3, <1>4, <1>5, <1>6, <1>7, <1>8, <1>9, <1>10, <1>11, <1>12
          DEF Next, Device, Environment, ColdCycle, WarmCycle

\* A reading of a clock with a date is positive.
LEMMA ReadingDated ==
  /\ TypeOK /\ Dated /\ clk # "Unsynced" => Reading > 0 /\ Reading \in Nat
  /\ now' \in Nat /\ Dated' /\ clk' # "Unsynced" => Reading' > 0 /\ Reading' \in Nat
BY WorldFacts DEF Reading, Dated, TypeOK

\* A clean just made is recent.
LEMMA CleanIsRecent ==
  ASSUME NightlyIntervalSet, planNow' \in Nat, planNow' > 0, meta'.last_deep_clean = planNow'
  PROVE  CleanedRecently'
<1>1. Config.nightly_deep_clean_interval_s \in Nat
  BY ConfigAssumption
<1>. QED  BY <1>1 DEF CleanedRecently, NightlyIntervalSet

\* The first board of a cold boot, and the nightly clean.
LEMMA CleanNightly ==
  ASSUME TypeOK, SleepInv, NightlyInv, NightlyIntervalSet, Dated', ColdFinish \/ Nightly
  PROVE  NightlyInv'
<1>. USE DEF flowVars, localVars, clockVars
<1>1. CASE ColdFinish
  <2>1. Reading > 0 /\ Reading \in Nat
    BY <1>1, ReadingDated DEF ColdFinish, SleepInv, ClockKnown, Online, NightlyInv
  <2>2. pc' = "ColdSave" /\ planNow' = Reading /\ meta'.last_deep_clean = Reading
    BY <1>1 DEF ColdFinish, TypeOK, Metas
  <2>. QED  BY <2>1, <2>2, CleanIsRecent DEF NightlyInv, PlanDated, JustCleaned, DecidedAgainst
<1>2. CASE Nightly
  <2>1. planNow > 0 /\ planNow \in Nat
    BY <1>2 DEF Nightly, NightlyInv, PlanDated, TypeOK
  <2>2. pc' = "NightlySave" /\ planNow' = planNow /\ meta'.last_deep_clean = planNow
    BY <1>2 DEF Nightly, TypeOK, Metas
  <2>. QED  BY <2>1, <2>2, CleanIsRecent DEF NightlyInv, PlanDated, JustCleaned, DecidedAgainst
<1>. QED  BY <1>1, <1>2

\* A long plan that is not promoted finds the panel cleaned within the interval.
LEMMA DecideNightly ==
  ASSUME TypeOK, NightlyInv, Dated', Decide
  PROVE  NightlyInv'
<1>1. /\ pc = "Decide" /\ planNow' = planNow /\ meta' = meta /\ planNow > 0
      /\ pc' \in {"Nightly", "Push", "RescueStart"}
      /\ pc' # "Nightly" => ~ShouldPromoteToNightlyClean(plan', planNow, meta.last_deep_clean)
  BY DEF Decide, NightlyInv, PlanDated
<1>2. ASSUME pc' # "Nightly", LongPlan' PROVE CleanedRecently'
  <2>1. ~NeedsNightlyDeepClean(planNow, meta.last_deep_clean)
    BY <1>1, <1>2 DEF LongPlan, ShouldPromoteToNightlyClean
  <2>2. /\ planNow \in Nat /\ meta.last_deep_clean \in Nat
        /\ Config.nightly_deep_clean_interval_s \in Nat
    BY ConfigAssumption DEF TypeOK, Metas
  <2>. QED  BY <1>1, <2>1, <2>2 DEF NeedsNightlyDeepClean, CleanedRecently
<1>. QED  BY <1>1, <1>2 DEF NightlyInv, PlanDated, JustCleaned, DecidedAgainst

\* Fetches and refreshes leave the time of the last clean alone.
LEMMA CleanKept ==
  ASSUME NEW m \in Metas, NEW t, NEW outcome, NEW auth, NEW b,
         NEW kind \in {"None", "LightFull", "Partial"}
  PROVE  /\ Fetched(m, outcome, auth, t).last_deep_clean = m.last_deep_clean
         /\ [m EXCEPT !.framebuffer_valid = b].last_deep_clean = m.last_deep_clean
         /\ [m EXCEPT !.last_display_update = t].last_deep_clean = m.last_deep_clean
         /\ Applied(m, kind, t).last_deep_clean = m.last_deep_clean
BY DEF Fetched, Applied, Metas

\* A push and its save.
LEMMA PushNightly ==
  ASSUME TypeOK, NightlyInv, Dated', Push \/ PushSave
  PROVE  NightlyInv'
<1>. USE DEF flowVars, localVars, clockVars
<1>0. meta \in Metas /\ Reading \in Nat
  BY ReadingType DEF TypeOK
<1>1. CASE Push
  <2>1. /\ pc = "Push" /\ pc' = "PushSave" /\ UNCHANGED <<ctx, plan, planNow>>
    BY <1>1 DEF Push
  <2>. DEFINE stamped == [meta EXCEPT !.last_display_update = Reading]
  <2>2. PICK f, m : /\ m = meta \/ m = stamped
                    /\ meta' = Applied(m, PlanFor(f), Reading)
    <3>1. PICK first, f : meta' = Applied(IF Restamped(first) THEN stamped ELSE meta,
                                          PlanFor(f), Reading)
      BY <1>1 DEF Push
    <3>. QED  BY <3>1
  <2>3. m \in Metas /\ m.last_deep_clean = meta.last_deep_clean
    <3>1. stamped \in Metas
      BY <1>0, FieldTypes
    <3>2. stamped.last_deep_clean = meta.last_deep_clean
      BY <1>0 DEF Metas
    <3>. HIDE DEF stamped
    <3>. QED  BY <1>0, <2>2, <3>1, <3>2
  <2>4. meta'.last_deep_clean = meta.last_deep_clean
    BY <2>2, <2>3, PlanForValues, CleanKept
  <2>. QED  BY <2>1, <2>4, NightlyUntouched
<1>2. CASE PushSave
  <2>1. meta'.last_deep_clean = meta.last_deep_clean
    <3>1. PICK saved \in World.saved : meta' = [meta EXCEPT !.framebuffer_valid = saved]
      BY <1>2 DEF PushSave
    <3>. QED  BY <1>0, <3>1, CleanKept
  <2>2. CASE ctx = "Board"
    BY <1>2, <2>1, <2>2, NightlyUntouched DEF PushSave
  <2>3. CASE ctx # "Board"
    BY <1>2, <2>3, NightlyIdle DEF PushSave
  <2>. QED  BY <2>2, <2>3
<1>. QED  BY <1>1, <1>2

\* Every step of the specification.
LEMMA StepNightly ==
  ASSUME TypeOK, SleepInv, NightlyInv, NightlyIntervalSet, [Next]_vars
  PROVE  NightlyInv'
<1>. USE DEF flowVars, localVars, clockVars
<1>0. Dated' /\ meta \in Metas
  BY StepDated DEF NightlyInv, TypeOK
<1>1. CASE UNCHANGED vars \/ HorizonReached \/ SntpSetsClock
  BY <1>0, <1>1 DEF vars, HorizonReached, SntpSetsClock, NightlyInv, PlanDated, JustCleaned,
     DecidedAgainst, CleanedRecently, LongPlan
<1>2. CASE \/ Setup \/ Loop \/ Press \/ BwReset \/ BwSave \/ Diag \/ DiagExit \/ AuthScreen \/ AuthSleep
           \/ Cold \/ ColdConnect \/ ColdNoNet \/ ColdNoNetSleep \/ ColdFetch \/ ColdBootCheck
           \/ Warm \/ WifiDown \/ OfflineSleep \/ ClockOk \/ ClockLost \/ SleepOrLoop
  <2>1. \/ pc' \notin {"Schedule", "Decide", "Nightly", "ColdSave", "NightlySave", "Push", "PushSave",
                       "RescueStart", "Rescue", "RescueTry", "Sleep"}
        \/ pc' \in {"Push", "PushSave"} /\ ctx' # "Board"
    BY <1>2 DEF Setup, SelectCycle, Loop, Press, BwReset, BwSave, Diag, DiagExit, AuthScreen,
       AuthSleep, Cold, ColdConnect, ColdNoNet, ColdNoNetSleep, ColdFetch, ColdBootCheck, Warm,
       WifiDown, OfflineSleep, ClockOk, ClockLost, SleepOrLoop, DeepSleep
  <2>. QED  BY <1>0, <2>1, NightlyIdle
<1>3. CASE ColdFinish \/ Nightly
  BY <1>0, <1>3, CleanNightly
<1>4. CASE ColdSave \/ NightlySave
  <2>1. /\ pc \in {"ColdSave", "NightlySave"} /\ pc' = "Sleep" /\ UNCHANGED <<plan, planNow>>
        /\ meta' = [meta EXCEPT !.framebuffer_valid = TRUE]
    BY <1>4 DEF ColdSave, NightlySave, SaveUnchecked
  <2>2. meta'.last_deep_clean = meta.last_deep_clean
    BY <1>0, <2>1 DEF Metas
  <2>. QED  BY <1>0, <2>1, <2>2, NightlyUntouched
<1>5. CASE Fetch
  <2>1. clk' # "Unsynced" /\ now' \in Nat /\ pc' = "Schedule" /\ planNow' = Reading'
    BY <1>5, ElapseForward, WorldFacts DEF Fetch, SleepInv, ClockKnown, Online
  <2>2. planNow' > 0
    BY <1>0, <2>1, ReadingDated
  <2>. QED  BY <1>0, <2>1, <2>2 DEF NightlyInv, PlanDated, JustCleaned, DecidedAgainst
<1>6. CASE Schedule
  BY <1>0, <1>6, NightlyUntouched DEF Schedule
<1>7. CASE Decide
  BY <1>0, <1>7, DecideNightly
<1>8. CASE Push \/ PushSave
  BY <1>0, <1>8, PushNightly
<1>9. CASE RescueStart \/ RescueTurn \/ RescueStop \/ RescueWait
  BY <1>0, <1>9, NightlyUntouched DEF RescueStart, RescueTurn, RescueStop, RescueWait
<1>10. CASE RescueRetry
  <2>1. CASE pc' = "Push" /\ ctx' = "Rescue"
    BY <1>0, <2>1, NightlyIdle
  <2>2. CASE pc' = "Rescue" /\ ctx' = ctx /\ \E outcome, auth : meta' = Fetched(meta, outcome, auth, Reading')
    <3>1. meta'.last_deep_clean = meta.last_deep_clean
      <4>1. PICK outcome, auth : meta' = Fetched(meta, outcome, auth, Reading')
        BY <2>2
      <4>. QED  BY <1>0, <4>1 DEF Fetched, Metas
    <3>. QED  BY <1>0, <1>10, <2>2, <3>1, NightlyUntouched DEF RescueRetry
  <2>3. PICK outcome \in World.fetch, d \in World.delays :
          \/ pc' = "Push" /\ ctx' = "Rescue"
          \/ /\ pc' = "Rescue" /\ ctx' = ctx
             /\ \E auth \in AuthAfter(outcome) : meta' = Fetched(meta, outcome, auth, Reading')
    BY <1>10 DEF RescueRetry
  <2>. QED  BY <2>1, <2>2, <2>3
<1>11. CASE WakeByTimer \/ WakeByButton \/ PowerLoss \/ (\E pressed \in BOOLEAN : PauseEnds(pressed))
            \/ \E reason \in World.resets \ {"PowerLoss"} : Reset(reason)
  BY <1>0, <1>11, NightlyIdle DEF WakeByTimer, WakeByButton, PowerLoss, StartSetup, PauseEnds, Reset
<1>. QED  BY <1>1, <1>2, <1>3, <1>4, <1>5, <1>6, <1>7, <1>8, <1>9, <1>10, <1>11
          DEF Next, Device, Environment, ColdCycle, WarmCycle

\* Power-on.
LEMMA InitNightly == Init => NightlyInv
BY WorldAssumption DEF Init, NightlyInv, Dated, Resting, PlanDated, JustCleaned, DecidedAgainst, Positive

\* Wherever the interval is not zero, a long sleep begins with a panel cleaned
\* within it, unless a rescue re-planned the sleep
\* (shouldPromoteToNightlyClean, finishWarmCycle, finishColdCycle).
THEOREM LongSleepsAreClean == NightlyIntervalSet => (Spec => []NightlyCleanUnlessRescued)
<1>. SUFFICES ASSUME NightlyIntervalSet PROVE Spec => []NightlyCleanUnlessRescued
  OBVIOUS
<1>1. TypeOK /\ SleepInv /\ NightlyInv /\ [Next]_vars => NightlyInv'
  BY StepNightly
<1>2. NightlyInv => NightlyCleanUnlessRescued
  BY DEF NightlyInv, DecidedAgainst, NightlyCleanUnlessRescued
<1>. QED  BY InitNightly, <1>1, <1>2, SleepInvariant, PTL DEF Spec

(***************************************************************************)
(* The distance of a rescue's refresh from the push before it.             *)
(***************************************************************************)
\* The clock is right or without a date, so that readings measure real time.
NeverAhead == World.clock \subseteq {"Good", "Unsynced"}

RescueInv ==
  /\ clk \in {"Good", "Unsynced"}
  /\ pc = "Push" /\ ctx = "Rescue" => now - rescue.anchored_at >= Config.rescue_window_start_s

\* Only an attempt inside the window leads to the push of a rescue.
LEMMA RetryIsLate ==
  ASSUME TypeOK, SleepInv, RescueInv, RescueRetry
  PROVE  RescueInv'
<1>1. pc = "RescueTry" /\ clk' = clk /\ RescueStep = "Retry"
  BY DEF RescueRetry
<1>2. clk = "Good"
  BY <1>1 DEF SleepInv, ClockKnown, Online, Planned, RescueInv
<1>3. Reading = now /\ now \in Nat /\ rescue.anchored_at \in Nat /\ Config.rescue_window_start_s \in Nat
  BY <1>2, ConfigFacts DEF Reading, TypeOK
<1>4. now - rescue.anchored_at >= Config.rescue_window_start_s
  <2>1. ASSUME NEW n \in Nat, NEW a \in Nat, NextRescueStep(n, a) = "Retry"
        PROVE  n - a >= Config.rescue_window_start_s
    <3>1. Config.rescue_window_start_s \in Nat /\ Config.rescue_window_end_s \in Nat
      BY ConfigFacts
    <3>2. ~(n < a \/ n - a > Config.rescue_window_end_s)
      BY <2>1 DEF NextRescueStep
    <3>3. ~(n >= a /\ n - a <= Config.rescue_window_end_s /\ n - a < Config.rescue_window_start_s)
      BY <2>1, <3>2 DEF NextRescueStep
    <3>. QED  BY <3>1, <3>2, <3>3
  <2>. QED  BY <1>1, <1>3, <2>1 DEF RescueStep
<1>5. rescue'.anchored_at = rescue.anchored_at
  BY DEF RescueRetry, TypeOK
<1>6. now' \in Nat /\ now' >= now
  <2>1. \E d \in World.delays : \/ now' = now + d
                                \/ \E p \in 0..Config.rescue_retry_pause_s : now' = now + d + p
    BY DEF RescueRetry
  <2>. QED  BY <1>3, <2>1, WorldFacts, ConfigFacts
<1>. QED  BY <1>1, <1>2, <1>3, <1>4, <1>5, <1>6 DEF RescueInv

\* A right clock stays right or loses the date.
LEMMA ClockStaysRight ==
  ASSUME NeverAhead, clk \in {"Good", "Unsynced"}, [Next]_vars
  PROVE  clk' \in {"Good", "Unsynced"}
<1>. USE DEF clockVars
<1>1. CASE UNCHANGED vars \/ Environment
  BY <1>1 DEF vars, NeverAhead, Environment, WakeByTimer, WakeByButton, PauseEnds, Reset, PowerLoss,
     SntpSetsClock, HorizonReached, ClockAfter
<1>2. CASE ColdConnect \/ ClockOk \/ ClockLost
  BY <1>2 DEF ColdConnect, ClockOk, ClockLost, NtpSynced, NtpFails, DeepSleep
<1>3. CASE \/ Setup \/ Loop \/ Press \/ BwReset \/ BwSave \/ Diag \/ DiagExit \/ AuthScreen \/ AuthSleep
           \/ Cold \/ ColdNoNet \/ ColdNoNetSleep \/ ColdFetch \/ ColdBootCheck \/ ColdFinish
           \/ ColdSave \/ Warm \/ WifiDown \/ OfflineSleep \/ Fetch \/ Schedule
  BY <1>3 DEF Setup, Loop, Press, BwReset, BwSave, Diag, DiagExit, AuthScreen, AuthSleep, Cold, ColdNoNet,
     ColdNoNetSleep, ColdFetch, ColdBootCheck, ColdFinish, ColdSave, SaveUnchecked, Warm, WifiDown,
     OfflineSleep, Fetch, Schedule, DeepSleep
<1>4. CASE \/ Decide \/ Nightly \/ NightlySave \/ Push \/ PushSave \/ RescueStart \/ RescueTurn
           \/ RescueStop \/ RescueWait \/ RescueRetry \/ SleepOrLoop
  BY <1>4 DEF Decide, Nightly, NightlySave, SaveUnchecked, Push, PushSave, RescueStart, RescueTurn,
     RescueStop, RescueWait, RescueRetry, SleepOrLoop, DeepSleep
<1>. QED  BY <1>1, <1>2, <1>3, <1>4 DEF Next, Device, ColdCycle, WarmCycle

\* Nothing else leads there.
LEMMA RescuePushComesFromRetry ==
  ASSUME Next, ~RescueRetry, pc' = "Push", ctx' = "Rescue"
  PROVE  UNCHANGED <<pc, ctx, now, rescue>>
BY DEF Next, Device, Environment, Setup, SelectCycle, Loop, Press, BwReset, BwSave, Diag,
   DiagExit, AuthScreen, AuthSleep, ColdCycle, Cold, ColdConnect, ColdNoNet, ColdNoNetSleep,
   ColdFetch, ColdBootCheck, ColdFinish, ColdSave, SaveUnchecked, WarmCycle, Warm, WifiDown,
   OfflineSleep, ClockOk, ClockLost, Fetch, Schedule, Decide, Nightly, NightlySave, Push,
   PushSave, RescueStart, RescueTurn, RescueStop, RescueWait, SleepOrLoop, DeepSleep,
   WakeByTimer, WakeByButton, PauseEnds, Reset, PowerLoss, StartSetup, SntpSetsClock,
   HorizonReached, vars, flowVars, localVars

\* With a clock that is never ahead the extra refresh of a rescue comes no
\* earlier than the window opens, whatever presses cut the pauses short
\* (runRescueFetch, nextRescueStep).
THEOREM RescueKeepsDistance == NeverAhead => (Spec => RescueNotBackToBack)
<1>. SUFFICES ASSUME NeverAhead PROVE Spec => RescueNotBackToBack
  OBVIOUS
<1>1. Init => RescueInv
  BY DEF Init, RescueInv
<1>2. TypeOK /\ SleepInv /\ RescueInv /\ [Next]_vars => RescueInv'
  <2>1. SUFFICES ASSUME TypeOK, SleepInv, RescueInv, [Next]_vars, ~RescueRetry PROVE RescueInv'
    BY RetryIsLate
  <2>2. clk' \in {"Good", "Unsynced"}
    BY <2>1, ClockStaysRight DEF RescueInv
  <2>3. ASSUME pc' = "Push", ctx' = "Rescue" PROVE UNCHANGED <<pc, ctx, now, rescue>>
    BY <2>1, <2>3, RescuePushComesFromRetry DEF vars
  <2>. QED  BY <2>1, <2>2, <2>3 DEF RescueInv
<1>3. RescueInv => [RescuePush => now - rescue.anchored_at >= Config.rescue_window_start_s]_vars
  BY DEF RescueInv, RescuePush
<1>. QED  BY <1>1, <1>2, <1>3, SleepInvariant, PTL DEF Spec, RescueNotBackToBack

(***************************************************************************)
(* A planned sleep ends before its departure.                              *)
(***************************************************************************)
\* Every wait on the network ends within d, the rescue window is an interval,
\* and the lead before a departure covers a schedule refresh, the window, an
\* attempt begun at its very end and the pause after that attempt.
RescueSlack(d) == d + d + Config.rescue_window_end_s + Config.rescue_retry_pause_s
LeadCovers(d) ==
  /\ \A delay \in World.delays : delay <= d
  /\ Config.rescue_window_start_s <= Config.rescue_window_end_s
  /\ RescueSlack(d) <= Config.wake_before_bus_s + Config.boot_margin_s

\* How far real time, and the reading, have left the reading of the plan behind
AtPlan == pc = "Schedule" => now <= planNow /\ Reading <= planNow
ColdAtPlan == pc = "ColdSave" => now <= planNow
SoonAfter(d) ==
  \/ pc \in {"Decide", "Nightly", "NightlySave", "RescueStart"}
  \/ pc \in {"Push", "PushSave"} /\ ctx = "Board"
  => now <= planNow + d /\ Reading <= planNow + d
Anchored(d) == pc \in {"Rescue", "RescueTry"} => rescue.anchored_at <= planNow + d
WithinSlack(d) == pc \in {"Rescue", "RescueTry", "Sleep"} => now <= planNow + RescueSlack(d)

\* The cold cycle knows that it is one.
ColdContext ==
  pc \in {"ColdConnect", "ColdFetch", "ColdBootCheck", "ColdFinish", "ColdSave"} => ctx = "Cold"

\* The plan keeps the lead to the departure the cycle still holds.
PlanKeepsLead ==
  \/ pc \in {"ColdSave", "Nightly", "NightlySave", "RescueStart", "Rescue", "RescueTry", "Sleep"}
  \/ pc \in {"Push", "PushSave"} /\ ctx = "Board"
  => (PlannedFromDeparture /\ plan.mode = "DeepSleep"
        => planNow + plan.seconds + Config.wake_before_bus_s + Config.boot_margin_s <= fc.t_ref)

LeadInv(d) == /\ AtPlan /\ ColdAtPlan /\ SoonAfter(d) /\ Anchored(d) /\ WithinSlack(d)
              /\ ColdContext /\ PlanKeepsLead

\* Away from the plan only the cold cycle claims something.
LEMMA LeadIdle ==
  ASSUME NEW d \in Nat,
         \/ pc' \notin {"ColdConnect", "ColdFetch", "ColdBootCheck", "ColdFinish", "ColdSave", "Schedule",
                        "Decide", "Nightly", "NightlySave", "Push", "PushSave", "RescueStart",
                        "Rescue", "RescueTry", "Sleep"}
         \/ pc' \in {"Push", "PushSave"} /\ ctx' # "Board"
         \/ pc' \in {"ColdConnect", "ColdFetch", "ColdBootCheck", "ColdFinish"} /\ ctx' = "Cold"
  PROVE  LeadInv(d)'
BY DEF LeadInv, AtPlan, ColdAtPlan, SoonAfter, Anchored, WithinSlack, ColdContext, PlanKeepsLead

\* A wait on the network lasts at most d, by the clock as in real time.
LEMMA DelayBounded ==
  ASSUME TypeOK, NEW d \in Nat, LeadCovers(d), Elapse(World.delays), UNCHANGED clk
  PROVE  /\ now' \in Nat /\ now <= now' /\ now' <= now + d
         /\ Reading' <= Reading + d
<1>1. PICK delay \in World.delays : now' = now + delay
  BY DEF Elapse
<1>2. now \in Nat /\ delay \in Nat /\ delay <= d /\ World.skew \in Nat
  BY WorldFacts DEF LeadCovers, TypeOK
<1>. QED  BY <1>1, <1>2 DEF Reading

\* A plan made from a departure keeps the lead to it.
LEMMA PlanSleepKeepsLead ==
  ASSUME NEW ok \in BOOLEAN, ok, NEW t \in MaybeTime, t # NoDeparture, NEW n \in Nat,
         PlanSleep(ok, t, n).mode = "DeepSleep"
  PROVE  n + PlanSleep(ok, t, n).seconds + Config.wake_before_bus_s + Config.boot_margin_s <= t
<1>1. /\ t \in Nat /\ Config.wake_before_bus_s \in Nat /\ Config.boot_margin_s \in Nat
      /\ Config.active_threshold_s \in Nat
  BY ConfigFacts DEF MaybeTime
<1>. DEFINE delta == t - Config.wake_before_bus_s - Config.boot_margin_s - n
<1>2. PlanSleep(ok, t, n).seconds = delta
  BY <1>1 DEF PlanSleep, StayActive, Sleep
<1>3. delta \in Int /\ n + delta + Config.wake_before_bus_s + Config.boot_margin_s <= t
  BY <1>1
<1>. HIDE DEF delta
<1>. QED  BY <1>2, <1>3

\* The slack is a number not below a single delay.
LEMMA SlackType ==
  ASSUME NEW d \in Nat
  PROVE  RescueSlack(d) \in Nat /\ d <= RescueSlack(d)
BY ConfigFacts DEF RescueSlack

\* The cold cycle to its save.
LEMMA ColdLead ==
  ASSUME TypeOK, SleepInv, NEW d \in Nat, LeadInv(d),
         ColdConnect \/ ColdFetch \/ ColdBootCheck \/ ColdFinish \/ ColdSave
  PROVE  LeadInv(d)'
<1>. USE DEF flowVars, localVars, clockVars
<1>1. CASE ColdConnect
  BY <1>1, LeadIdle DEF ColdConnect, LeadInv, ColdContext
<1>2. CASE ColdFetch \/ ColdBootCheck
  BY <1>2, LeadIdle DEF ColdFetch, ColdBootCheck, LeadInv, ColdContext
<1>3. CASE ColdFinish
  <2>1. /\ pc = "ColdFinish" /\ pc' = "ColdSave" /\ planNow' = Reading
        /\ UNCHANGED <<now, clk, ctx>> /\ ctx = "Cold" /\ clk # "Unsynced"
    BY <1>3 DEF ColdFinish, LeadInv, ColdContext, SleepInv, ClockKnown, Online
  <2>2. PICK link \in World.link, dep \in Departures :
          LET state == StateOf(meta, link, Reading)
          IN  /\ fc' = [fc EXCEPT !.state = state, !.t_ref = dep, !.shown = dep]
              /\ plan' = PlanSleep(state = "Normal" /\ fc.ok, dep, Reading)
    BY <1>3 DEF ColdFinish
  <2>. DEFINE state == StateOf(meta, link, Reading)
  <2>. DEFINE ok == state = "Normal" /\ fc.ok
  <2>3. /\ fc'.ok = fc.ok /\ fc'.state = state /\ fc'.t_ref = dep /\ ok \in BOOLEAN
        /\ plan' = PlanSleep(ok, dep, Reading) /\ (fc'.ok /\ fc'.state = "Normal" => ok)
    BY <2>2 DEF TypeOK, FetchResults
  <2>4. dep \in MaybeTime /\ Reading \in Nat /\ now <= Reading
    BY <2>1, DeparturesNear, ReadingType, ReadingNotBehind
  <2>. HIDE DEF state, ok
  <2>5. ASSUME PlannedFromDeparture', plan'.mode = "DeepSleep"
        PROVE  planNow' + plan'.seconds + Config.wake_before_bus_s + Config.boot_margin_s <= fc'.t_ref
    <3>1. ok /\ dep # NoDeparture
      BY <2>1, <2>3, <2>5 DEF PlannedFromDeparture
    <3>. QED  BY <2>1, <2>3, <2>4, <2>5, <3>1, PlanSleepKeepsLead
  <2>. QED  BY <2>1, <2>4, <2>5 DEF LeadInv, AtPlan, ColdAtPlan, SoonAfter, Anchored, WithinSlack,
                                    ColdContext, PlanKeepsLead
<1>4. CASE ColdSave
  <2>1. pc = "ColdSave" /\ pc' = "Sleep" /\ UNCHANGED <<now, planNow, plan, fc, ctx>>
    BY <1>4 DEF ColdSave, SaveUnchecked
  <2>2. now <= planNow + RescueSlack(d)
    BY <2>1, SlackType DEF LeadInv, ColdAtPlan, TypeOK
  <2>. QED  BY <2>1, <2>2 DEF LeadInv, AtPlan, ColdAtPlan, SoonAfter, Anchored, WithinSlack,
                              ColdContext, PlanKeepsLead, PlannedFromDeparture
<1>. QED  BY <1>1, <1>2, <1>3, <1>4

\* The warm cycle from its fetch to the nightly clean.
LEMMA WarmLead ==
  ASSUME TypeOK, SleepInv, NEW d \in Nat, LeadCovers(d), LeadInv(d),
         Fetch \/ Schedule \/ Decide \/ Nightly \/ NightlySave
  PROVE  LeadInv(d)'
<1>. USE DEF flowVars, localVars, clockVars
<1>1. CASE Fetch
  <2>1. /\ pc' = "Schedule" /\ planNow' = Reading' /\ clk' # "Unsynced" /\ now' \in Nat
    BY <1>1, ElapseForward, WorldFacts DEF Fetch, SleepInv, ClockKnown, Online
  <2>2. now' <= planNow' /\ Reading' <= planNow'
    BY <2>1, ReadingNotBehind, ReadingTypeNext
  <2>. QED  BY <2>1, <2>2 DEF LeadInv, AtPlan, ColdAtPlan, SoonAfter, Anchored, WithinSlack,
                              ColdContext, PlanKeepsLead
<1>2. CASE Schedule
  <2>1. /\ pc = "Schedule" /\ pc' = "Decide" /\ UNCHANGED <<clk, planNow>>
        /\ now' = now \/ Elapse(World.delays)
    BY <1>2 DEF Schedule
  <2>2. now <= planNow /\ Reading <= planNow /\ now \in Nat /\ Reading \in Nat /\ planNow \in Nat
    BY <2>1, ReadingType DEF LeadInv, AtPlan, TypeOK
  <2>3. now' <= planNow + d /\ Reading' <= planNow + d
    <3>1. CASE now' = now
      <4>1. Reading' = Reading
        BY <2>1, <3>1 DEF Reading
      <4>. QED  BY <2>2, <3>1, <4>1
    <3>2. CASE Elapse(World.delays)
      <4>1. now' \in Nat /\ now' <= now + d /\ Reading' <= Reading + d
        BY <2>1, <3>2, DelayBounded
      <4>. QED  BY <2>2, <4>1, ReadingTypeNext
    <3>. QED  BY <2>1, <3>1, <3>2
  <2>. QED  BY <2>1, <2>3 DEF LeadInv, AtPlan, ColdAtPlan, SoonAfter, Anchored, WithinSlack,
                              ColdContext, PlanKeepsLead
<1>3. CASE Decide
  <2>1. /\ pc = "Decide" /\ UNCHANGED <<now, clk, planNow, fc>>
        /\ plan' = PlanSleep(fc.ok, fc.t_ref, planNow)
        /\ \/ pc' \in {"Nightly", "RescueStart"}
           \/ pc' = "Push" /\ ctx' = "Board"
    BY <1>3 DEF Decide
  <2>2. Reading' = Reading
    BY <2>1 DEF Reading
  <2>3. ASSUME PlannedFromDeparture', plan'.mode = "DeepSleep"
        PROVE  planNow' + plan'.seconds + Config.wake_before_bus_s + Config.boot_margin_s <= fc'.t_ref
    <3>1. fc.ok /\ fc.t_ref # NoDeparture
      BY <2>1, <2>3 DEF PlannedFromDeparture
    <3>2. fc.ok \in BOOLEAN /\ fc.t_ref \in MaybeTime /\ planNow \in Nat
      BY DEF TypeOK, FetchResults
    <3>. QED  BY <2>1, <2>3, <3>1, <3>2, PlanSleepKeepsLead
  <2>. QED  BY <2>1, <2>2, <2>3 DEF LeadInv, AtPlan, ColdAtPlan, SoonAfter, Anchored, WithinSlack,
                                    ColdContext, PlanKeepsLead
<1>4. CASE Nightly
  <2>1. pc = "Nightly" /\ pc' = "NightlySave" /\ UNCHANGED <<now, clk, planNow, plan, fc, ctx>>
    BY <1>4 DEF Nightly
  <2>2. Reading' = Reading
    BY <2>1 DEF Reading
  <2>. QED  BY <2>1, <2>2 DEF LeadInv, AtPlan, ColdAtPlan, SoonAfter, Anchored, WithinSlack,
                              ColdContext, PlanKeepsLead, PlannedFromDeparture
<1>5. CASE NightlySave
  <2>1. pc = "NightlySave" /\ pc' = "Sleep" /\ UNCHANGED <<now, planNow, plan, fc, ctx>>
    BY <1>5 DEF NightlySave, SaveUnchecked
  <2>2. now <= planNow + RescueSlack(d)
    BY <2>1, SlackType DEF LeadInv, SoonAfter, TypeOK
  <2>. QED  BY <2>1, <2>2 DEF LeadInv, AtPlan, ColdAtPlan, SoonAfter, Anchored, WithinSlack,
                              ColdContext, PlanKeepsLead, PlannedFromDeparture
<1>. QED  BY <1>1, <1>2, <1>3, <1>4, <1>5

\* A push and its save take no time; the push of a rescue plans anew.
LEMMA PushLead ==
  ASSUME TypeOK, SleepInv, NEW d \in Nat, LeadInv(d), Push \/ PushSave
  PROVE  LeadInv(d)'
<1>. USE DEF flowVars, localVars, clockVars
<1>1. CASE Push
  <2>1. pc = "Push" /\ pc' = "PushSave" /\ UNCHANGED <<now, clk, planNow, plan, fc, ctx>>
    BY <1>1 DEF Push
  <2>2. Reading' = Reading
    BY <2>1 DEF Reading
  <2>. QED  BY <2>1, <2>2 DEF LeadInv, AtPlan, ColdAtPlan, SoonAfter, Anchored, WithinSlack,
                              ColdContext, PlanKeepsLead, PlannedFromDeparture
<1>2. CASE PushSave /\ ctx = "Offline"
  BY <1>2, LeadIdle DEF PushSave
<1>3. CASE PushSave /\ ctx = "Board"
  <2>1. pc = "PushSave" /\ pc' = "RescueStart" /\ UNCHANGED <<now, clk, planNow, plan, fc, ctx>>
    BY <1>3 DEF PushSave
  <2>2. Reading' = Reading
    BY <2>1 DEF Reading
  <2>. QED  BY <1>3, <2>1, <2>2 DEF LeadInv, AtPlan, ColdAtPlan, SoonAfter, Anchored, WithinSlack,
                                    ColdContext, PlanKeepsLead, PlannedFromDeparture
<1>4. CASE PushSave /\ ctx = "Rescue"
  <2>1. /\ pc = "PushSave" /\ pc' = "Sleep" /\ UNCHANGED <<now, fc, ctx>> /\ clk # "Unsynced"
        /\ planNow' = Reading /\ plan' = PlanSleep(fc.ok, fc.t_ref, Reading)
    BY <1>4 DEF PushSave, SleepInv, ClockKnown, Online, Planned, PlannedPush
  <2>2. now' <= planNow' + RescueSlack(d)
    BY <2>1, SlackType, ReadingType, ReadingNotBehind DEF TypeOK
  <2>3. ASSUME PlannedFromDeparture', plan'.mode = "DeepSleep"
        PROVE  planNow' + plan'.seconds + Config.wake_before_bus_s + Config.boot_margin_s <= fc'.t_ref
    <3>1. fc.ok /\ fc.t_ref # NoDeparture
      BY <2>1, <2>3 DEF PlannedFromDeparture
    <3>2. fc.ok \in BOOLEAN /\ fc.t_ref \in MaybeTime
      BY DEF TypeOK, FetchResults
    <3>. QED  BY <2>1, <2>3, <3>1, <3>2, ReadingType, PlanSleepKeepsLead
  <2>. QED  BY <2>1, <2>2, <2>3 DEF LeadInv, AtPlan, ColdAtPlan, SoonAfter, Anchored, WithinSlack,
                                    ColdContext, PlanKeepsLead
<1>. QED  BY <1>1, <1>2, <1>3, <1>4 DEF PushSave

\* An attempt inside the window ends within the slack.
LEMMA RescueTimes ==
  ASSUME NEW n \in Nat, NEW a \in Nat, NextRescueStep(n, a) \in {"Wait", "Retry"}
  PROVE  /\ a <= n /\ n <= a + Config.rescue_window_end_s
         /\ NextRescueStep(n, a) = "Wait" => n + RescueWaitFor(n, a) = a + Config.rescue_window_start_s
<1>1. Config.rescue_window_start_s \in Nat /\ Config.rescue_window_end_s \in Nat
  BY ConfigFacts
<1>2. ~(n < a \/ n - a > Config.rescue_window_end_s)
  <2>1. ASSUME n < a \/ n - a > Config.rescue_window_end_s PROVE NextRescueStep(n, a) = "Stop"
    BY <1>1, <2>1 DEF NextRescueStep
  <2>. QED  BY <2>1
<1>. QED  BY <1>1, <1>2 DEF RescueWaitFor

\* The rescue, from its anchor to its end.
LEMMA RescueLead ==
  ASSUME TypeOK, SleepInv, NEW d \in Nat, LeadCovers(d), LeadInv(d),
         RescueStart \/ RescueTurn \/ RescueStop \/ RescueWait \/ RescueRetry
  PROVE  LeadInv(d)'
<1>. USE DEF flowVars, localVars, clockVars
<1>1. CASE RescueStart
  <2>1. /\ pc = "RescueStart" /\ pc' \in {"Sleep", "Rescue"}
        /\ UNCHANGED <<now, planNow, plan, fc, ctx>>
        /\ pc' = "Rescue" => rescue'.anchored_at = Reading
    BY <1>1 DEF RescueStart, NoRescue
  <2>2. now <= planNow + d /\ Reading <= planNow + d
    BY <2>1 DEF LeadInv, SoonAfter
  <2>3. now <= planNow + RescueSlack(d)
    BY <2>2, SlackType DEF TypeOK
  <2>. QED  BY <2>1, <2>2, <2>3 DEF LeadInv, AtPlan, ColdAtPlan, SoonAfter, Anchored, WithinSlack,
                                    ColdContext, PlanKeepsLead, PlannedFromDeparture
<1>2. CASE RescueTurn \/ RescueStop
  BY <1>2 DEF RescueTurn, RescueStop, LeadInv, AtPlan, ColdAtPlan, SoonAfter, Anchored, WithinSlack,
              ColdContext, PlanKeepsLead, PlannedFromDeparture
<1>3. CASE RescueWait \/ RescueRetry
  <2>1. /\ pc = "RescueTry" /\ UNCHANGED <<plan, planNow>> /\ RescueStep \in {"Wait", "Retry"}
        /\ clk # "Unsynced"
    BY <1>3 DEF RescueWait, RescueRetry, SleepInv, ClockKnown, Online, Planned
  <2>2. /\ now \in Nat /\ Reading \in Nat /\ planNow \in Nat /\ rescue.anchored_at \in Nat
        /\ now <= Reading /\ rescue.anchored_at <= planNow + d
    BY <2>1, ReadingType, ReadingNotBehind DEF TypeOK, LeadInv, Anchored
  <2>3. /\ Reading <= rescue.anchored_at + Config.rescue_window_end_s
        /\ RescueStep = "Wait" =>
             Reading + RescueWaitFor(Reading, rescue.anchored_at)
               = rescue.anchored_at + Config.rescue_window_start_s
    BY <2>1, <2>2, RescueTimes DEF RescueStep
  <2>4. rescue'.anchored_at = rescue.anchored_at
    BY <1>3 DEF RescueWait, RescueRetry, TypeOK
  <2>5. CASE RescueWait
    <3>. DEFINE wait == RescueWaitFor(Reading, rescue.anchored_at)
    <3>1. RescueStep = "Wait" /\ pc' = "Rescue" /\ UNCHANGED <<fc, ctx>> /\ Elapse(0..wait)
      BY <2>5 DEF RescueWait
    <3>2. wait \in Int /\ Reading + wait = rescue.anchored_at + Config.rescue_window_start_s
      <4>1. Config.rescue_window_start_s \in Nat
        BY ConfigFacts
      <4>. QED  BY <2>2, <4>1 DEF RescueWaitFor
    <3>3. PICK w \in 0..wait : now' = now + w
      BY <3>1 DEF Elapse
    <3>4. now' <= planNow + RescueSlack(d)
      BY <2>2, <3>2, <3>3, ConfigFacts DEF LeadCovers, RescueSlack
    <3>. QED  BY <2>1, <2>2, <2>4, <3>1, <3>4
              DEF LeadInv, AtPlan, ColdAtPlan, SoonAfter, Anchored, WithinSlack, ColdContext,
                  PlanKeepsLead, PlannedFromDeparture
  <2>6. CASE RescueRetry
    <3>1. PICK outcome \in World.fetch, delay \in World.delays :
            \/ pc' = "Push" /\ ctx' = "Rescue"
            \/ /\ \E pause \in 0..Config.rescue_retry_pause_s : now' = now + delay + pause
               /\ pc' = "Rescue" /\ UNCHANGED <<fc, ctx>>
      BY <2>6 DEF RescueRetry
    <3>2. CASE pc' = "Push" /\ ctx' = "Rescue"
      BY <3>2, LeadIdle
    <3>3. CASE /\ \E pause \in 0..Config.rescue_retry_pause_s : now' = now + delay + pause
               /\ pc' = "Rescue" /\ UNCHANGED <<fc, ctx>>
      <4>1. PICK pause \in 0..Config.rescue_retry_pause_s : now' = now + delay + pause
        BY <3>3
      <4>2. delay \in Nat /\ delay <= d
        BY WorldFacts DEF LeadCovers
      <4>3. now' <= planNow + RescueSlack(d)
        BY <2>2, <2>3, <4>1, <4>2, ConfigFacts DEF RescueSlack
      <4>. QED  BY <2>1, <2>2, <2>4, <3>3, <4>3
                DEF LeadInv, AtPlan, ColdAtPlan, SoonAfter, Anchored, WithinSlack, ColdContext,
                    PlanKeepsLead, PlannedFromDeparture
    <3>. QED  BY <3>1, <3>2, <3>3
  <2>. QED  BY <1>3, <2>5, <2>6
<1>. QED  BY <1>1, <1>2, <1>3

\* SNTP only sets the clock back to the present.
LEMMA EnvironmentLead ==
  ASSUME TypeOK, NEW d \in Nat, LeadInv(d), Environment \/ UNCHANGED vars
  PROVE  LeadInv(d)'
<1>1. CASE \/ WakeByTimer \/ WakeByButton \/ PowerLoss
           \/ (\E pressed \in BOOLEAN : PauseEnds(pressed))
           \/ \E reason \in World.resets \ {"PowerLoss"} : Reset(reason)
  BY <1>1, LeadIdle DEF WakeByTimer, WakeByButton, PowerLoss, PauseEnds, Reset, StartSetup
<1>2. CASE SntpSetsClock \/ HorizonReached \/ UNCHANGED vars
  <2>1. UNCHANGED <<pc, now, planNow, plan, fc, ctx, rescue>>
    BY <1>2 DEF SntpSetsClock, HorizonReached, vars, flowVars, localVars
  <2>2. Reading' <= Reading
    BY <1>2, WorldFacts DEF SntpSetsClock, HorizonReached, vars, Reading, TypeOK
  <2>3. Reading \in Nat /\ Reading' \in Nat /\ planNow + d \in Nat /\ planNow \in Nat
    BY <2>1, ReadingType, ReadingTypeNext DEF TypeOK
  <2>. QED  BY <2>1, <2>2, <2>3
            DEF LeadInv, AtPlan, ColdAtPlan, SoonAfter, Anchored, WithinSlack, ColdContext,
                PlanKeepsLead, PlannedFromDeparture
<1>. QED  BY <1>1, <1>2 DEF Environment

\* Every step of the specification.
LEMMA StepLead ==
  ASSUME TypeOK, SleepInv, NEW d \in Nat, LeadCovers(d), LeadInv(d), [Next]_vars
  PROVE  LeadInv(d)'
<1>1. CASE \/ Setup \/ Loop \/ Press \/ BwReset \/ BwSave \/ Diag \/ DiagExit \/ AuthScreen \/ AuthSleep
           \/ Cold \/ ColdNoNet \/ ColdNoNetSleep \/ Warm \/ WifiDown \/ OfflineSleep \/ ClockOk
           \/ ClockLost \/ SleepOrLoop
  <2>1. \/ pc' \notin {"ColdConnect", "ColdFetch", "ColdBootCheck", "ColdFinish", "ColdSave",
                       "Schedule", "Decide", "Nightly", "NightlySave", "Push", "PushSave",
                       "RescueStart", "Rescue", "RescueTry", "Sleep"}
        \/ pc' \in {"Push", "PushSave"} /\ ctx' # "Board"
        \/ pc' = "ColdConnect" /\ ctx' = "Cold"
    BY <1>1 DEF Setup, SelectCycle, Loop, Press, BwReset, BwSave, Diag, DiagExit, AuthScreen,
       AuthSleep, Cold, ColdNoNet, ColdNoNetSleep, Warm, WifiDown, OfflineSleep, ClockOk, ClockLost,
       SleepOrLoop, DeepSleep
  <2>. QED  BY <2>1, LeadIdle
<1>. QED  BY <1>1, ColdLead, WarmLead, PushLead, RescueLead, EnvironmentLead
          DEF Next, Device, ColdCycle, WarmCycle

\* Power-on.
LEMMA InitLead == ASSUME NEW d \in Nat, Init PROVE LeadInv(d)
BY DEF Init, LeadInv, AtPlan, ColdAtPlan, SoonAfter, Anchored, WithinSlack, ColdContext, PlanKeepsLead

\* doSleepOrLoop sleeps for the planned time.
LEMMA SleepsThrough ==
  ASSUME TypeOK, Next, ThroughSleepOrLoop
  PROVE  pc = "Sleep" /\ plan.mode = "DeepSleep" /\ wakeAt' = now + plan.seconds
<1>1. pc = "Sleep" /\ pc' = "Asleep"
  BY DEF ThroughSleepOrLoop, FallsAsleep
<1>2. CASE SleepOrLoop
  BY <1>1, <1>2 DEF SleepOrLoop, DeepSleep
<1>3. CASE Environment
  BY <1>1, <1>3 DEF Environment, WakeByTimer, WakeByButton, StartSetup, PauseEnds, Reset, PowerLoss,
     SntpSetsClock, HorizonReached, vars
<1>4. CASE Device /\ ~SleepOrLoop
  BY <1>1, <1>4 DEF Device, Setup, Loop, Press, BwReset, BwSave, Diag, DiagExit, AuthScreen, AuthSleep,
     ColdCycle, Cold, ColdConnect, ColdNoNet, ColdNoNetSleep, ColdFetch, ColdBootCheck, ColdFinish,
     ColdSave, SaveUnchecked, WarmCycle, Warm, WifiDown, OfflineSleep, ClockOk, ClockLost, Fetch, Schedule,
     Decide, Nightly, NightlySave, Push, PushSave, RescueStart, RescueTurn, RescueStop, RescueWait,
     RescueRetry
<1>. QED  BY <1>2, <1>3, <1>4 DEF Next

\* Whenever the lead covers what a cycle may lose between its plan and its
\* sleep - two waits on the network, the rescue window and a pause - no planned
\* sleep outlasts the departure it was planned from, with a clock that is ahead
\* or set in between as well (finishWarmCycle, runRescueFetch, doSleepOrLoop).
THEOREM AwakeBeforeDeparture ==
  ASSUME NEW d \in Nat, LeadCovers(d)
  PROVE  Spec => WakesBeforeBus
<1>. DEFINE InTimeForBus == ThroughSleepOrLoop /\ PlannedFromDeparture => wakeAt' <= fc.t_ref
<1>1. Init => LeadInv(d)
  BY InitLead
<1>2. TypeOK /\ SleepInv /\ LeadInv(d) /\ [Next]_vars => LeadInv(d)'
  BY StepLead
<1>3. ASSUME TypeOK, LeadInv(d), Next, ThroughSleepOrLoop, PlannedFromDeparture
      PROVE  wakeAt' <= fc.t_ref
  <2>1. pc = "Sleep" /\ plan.mode = "DeepSleep" /\ wakeAt' = now + plan.seconds
    BY <1>3, SleepsThrough
  <2>2. now <= planNow + RescueSlack(d)
    BY <1>3, <2>1 DEF LeadInv, WithinSlack
  <2>3. planNow + plan.seconds + Config.wake_before_bus_s + Config.boot_margin_s <= fc.t_ref
    BY <1>3, <2>1 DEF LeadInv, PlanKeepsLead
  <2>4. /\ now \in Nat /\ planNow \in Nat /\ plan.seconds \in Nat /\ RescueSlack(d) \in Nat
        /\ fc.t_ref \in Nat /\ Config.wake_before_bus_s \in Nat /\ Config.boot_margin_s \in Nat
    BY <1>3, SlackType, ConfigFacts DEF TypeOK, FetchResults, MaybeTime, PlannedFromDeparture
  <2>5. RescueSlack(d) <= Config.wake_before_bus_s + Config.boot_margin_s
    BY DEF LeadCovers
  <2>. QED  BY <2>1, <2>2, <2>3, <2>4, <2>5
<1>4. TypeOK /\ LeadInv(d) /\ [Next]_vars => [InTimeForBus]_vars
  BY <1>3
<1>. QED  BY <1>1, <1>2, <1>4, SleepInvariant, PTL DEF Spec, WakesBeforeBus

(***************************************************************************)
(* PART 2.  How many partial refreshes pile up on the glass.               *)
(*                                                                         *)
(* partial_count bounds them only while it is told of every partial, and   *)
(* the offline exit deep-sleeps without saving it.  GhostInv says why the  *)
(* next cycles cannot run over the cap all the same: what the offline exit *)
(* leaves behind is an offline screen, which no board equals, so that the  *)
(* first push after the wake-up is a full refresh or again an offline      *)
(* screen that sleeps without one.                                         *)
(***************************************************************************)

(***************************************************************************)
(* What the code takes for granted.                                        *)
(***************************************************************************)
\* A reset is answered by an overlay, which repaints the whole panel
\* (BROWNOUT_SHOW_S); without it a partial the reset kept from being counted
\* stays on the glass.
OverlayShown == Config.brownout_show_s > 0

\* The no-network screen looks like no other.
ScreensDiffer == World.scans \cap (World.boards \cup {"Auth", "Boot"}) = {}

(***************************************************************************)
(* The inductive invariant.                                                *)
(***************************************************************************)
Unreadable(m) == ~m.framebuffer_valid \/ store = NoFrame
OfflineStored == store.body \in World.scans

\* The counter in m covers what is on the glass, or the next refresh is full.
Counted(m) == ghosts <= m.partial_count \/ Unreadable(m)
Recorded(m) == Counted(m) \/ OfflineStored

Awake == pc \notin {"Setup", "Loop", "Asleep", "Paused", "PushSave", "OfflineSleep"}

CountedInCycle == Awake => IF deepWake THEN Recorded(meta) ELSE Counted(meta)

CountedAcross ==
  /\ pc = "Asleep" => Recorded(rtc)
  /\ pc = "Setup" => Overlay \/ Recorded(rtc)
  /\ pc \in {"Paused", "Loop"} => Counted(rtc)
  /\ pc = "OfflineSleep" => store = NoFrame \/ OfflineStored

\* Up to the clock check nothing has been counted that RTC memory lacks.
NothingUnsaved ==
  pc \in {"Press", "BwReset", "Diag", "DiagPages", "Warm", "WifiDown", "Clock"} =>
    /\ meta.partial_count = rtc.partial_count
    /\ meta.framebuffer_valid = rtc.framebuffer_valid

Repainted == pc \in {"BwSave", "ColdSave", "NightlySave"} => ghosts = 0

\* With data the screen is a board, and after its push the count is right.
BoardWithData == pc \in {"Schedule", "Decide", "Push"} /\ fc.ok => fc.state # "Offline"
CountedWithData ==
  pc \in {"RescueStart", "Rescue", "RescueTry", "Sleep"} /\ fc.ok => Counted(meta)

AfterPush ==
  pc = "PushSave" =>
    \/ ghosts <= meta.partial_count
    \/ deepWake /\ curr = store /\ OfflineStored /\ ~fc.ok

OfflinePush ==
  /\ pc = "Push" /\ ctx = "Offline" => fc.state = "Offline"
  /\ pc = "PushSave" /\ ctx = "Offline" => curr.body \in World.scans

\* Only a cycle with data stays awake.
ActiveWithData ==
  /\ \/ pc \in {"ColdSave", "Nightly", "NightlySave", "RescueStart", "Rescue", "RescueTry", "Sleep"}
     \/ pc \in {"Push", "PushSave"} /\ ctx # "Offline"
  /\ plan.mode = "Active"
  => fc.ok

GhostInv ==
  /\ GhostsBounded /\ CountedInCycle /\ CountedAcross /\ NothingUnsaved /\ Repainted
  /\ BoardWithData /\ CountedWithData /\ AfterPush /\ OfflinePush /\ ActiveWithData

(***************************************************************************)
(* Counters and flags of the meta.                                         *)
(***************************************************************************)
\* Two metas that agree in what the invariant reads of them.
SameCount(m, n) == m.partial_count = n.partial_count /\ m.framebuffer_valid = n.framebuffer_valid

\* No fetch and no boot touches the counter or the flag.
LEMMA SameCountFacts ==
  ASSUME NEW m \in Metas, NEW t, NEW outcome, NEW auth, NEW b
  PROVE  /\ SameCount(Fetched(m, outcome, auth, t), m)
         /\ SameCount([m EXCEPT !.last_ntp_sync = t], m)
         /\ SameCount(ColdBootDone(m), m)
         /\ SameCount([ColdBootDone(m) EXCEPT !.last_ntp_sync = t], m)
         /\ SameCount([m EXCEPT !.expected_wake_at = t], m)
         /\ SameCount([m EXCEPT !.last_display_update = t], m)
         /\ [m EXCEPT !.framebuffer_valid = b].partial_count = m.partial_count
         /\ [m EXCEPT !.framebuffer_valid = b].framebuffer_valid = b
BY DEF SameCount, Metas, Fetched, ColdBootDone

\* A fetch cycle with data shows a board, and leaves the counter alone.
LEMMA FetchCycleFacts ==
  ASSUME TypeOK, now' \in Nat, NEW r, NEW m, NEW outcome, FetchCycle(r, m, outcome)
  PROVE  /\ SameCount(m, meta)
         /\ r.ok => r.state # "Offline"
         /\ r.ok <=> outcome # "Failed"
<1>1. PICK auth \in AuthAfter(outcome), link \in World.link, dep \in Departures' :
        /\ m = Fetched(meta, outcome, auth, Reading')
        /\ r = [ok |-> outcome # "Failed", complete |-> outcome = "Complete",
                state |-> StateOf(m, link, Reading'), t_ref |-> dep, shown |-> dep]
  BY DEF FetchCycle
<1>2. SameCount(m, meta)
  BY <1>1, SameCountFacts DEF TypeOK
<1>3. ASSUME outcome # "Failed" PROVE StateOf(m, link, Reading') # "Offline"
  <2>1. m.last_success_at = Reading' /\ Reading' \in Nat
    BY <1>1, <1>3, ReadingTypeNext DEF Fetched, TypeOK, Metas
  <2>2. ~(Reading' - m.last_success_at > Config.offline_threshold_s)
    BY <2>1, ConfigFacts
  <2>. QED  BY <2>2 DEF StateOf, SelectDisplayState
<1>. QED  BY <1>1, <1>2, <1>3

\* A plan that stays awake has data.
LEMMA ActivePlan ==
  ASSUME NEW ok \in BOOLEAN, NEW t, NEW n, PlanSleep(ok, t, n).mode = "Active"
  PROVE  ok
BY DEF PlanSleep, Sleep

\* A board is no offline screen.
LEMMA BoardsDiffer ==
  ASSUME ScreensDiffer, NEW state \in States, state # "Offline", NEW b \in Bodies(state)
  PROVE  b \notin World.scans
<1>1. CASE state = "Normal"  BY <1>1 DEF Bodies, ScreensDiffer
<1>2. CASE state = "Auth"    BY <1>2 DEF Bodies, ScreensDiffer
<1>3. CASE state = "Boot"    BY <1>3 DEF Bodies, ScreensDiffer
<1>. QED  BY <1>1, <1>2, <1>3 DEF States

(***************************************************************************)
(* The invariant holds at the start and is kept by every step.             *)
(***************************************************************************)
\* Power-on: nothing on the glass, nothing in the slots.
LEMMA InitGhostInv == Init => GhostInv
<1>. SUFFICES ASSUME Init PROVE GhostInv
  OBVIOUS
<1>1. GhostsBounded
  BY ConfigFacts DEF Init, GhostsBounded
<1>2. Recorded(rtc)
  BY DEF Init, Recorded, Counted, Unreadable
<1>. QED
  BY <1>1, <1>2 DEF Init, GhostInv, CountedInCycle, CountedAcross, NothingUnsaved, Repainted,
     BoardWithData, CountedWithData, AfterPush, OfflinePush, ActiveWithData, Awake

\* Counters are numbers and the cap is one.
LEMMA CountTypes ==
  ASSUME TypeOK
  PROVE  /\ meta \in Metas /\ rtc \in Metas /\ ghosts \in Nat
         /\ meta.partial_count \in Nat /\ rtc.partial_count \in Nat
         /\ Config.partial_hardcap \in Nat
BY ConfigFacts DEF TypeOK, Metas

\* A full refresh leaves nothing to count.
LEMMA PaintCounts ==
  ASSUME NEW f, PaintFull(f), NEW m, m.partial_count \in Nat
  PROVE  ghosts' = 0 /\ ghosts' <= m.partial_count /\ GhostsBounded'
BY ConfigFacts DEF PaintFull, GhostsBounded

\* What the connect and the fetch of a cold cycle do to the meta.
LEMMA ColdMeta ==
  ASSUME TypeOK, ColdConnect \/ ColdFetch
  PROVE  SameCount(meta', meta)
<1>1. CASE ColdConnect
  <2>1. meta' = meta \/ meta' = [ColdBootDone(meta) EXCEPT !.last_ntp_sync = Reading']
    BY <1>1 DEF ColdConnect
  <2>2. SameCount([ColdBootDone(meta) EXCEPT !.last_ntp_sync = Reading'], meta)
    BY SameCountFacts, CountTypes
  <2>. QED  BY <2>1, <2>2 DEF SameCount
<1>2. CASE ColdFetch
  <2>1. PICK outcome \in World.fetch, auth \in BOOLEAN :
          meta' = Fetched(meta, outcome, auth, Reading')
    BY <1>2 DEF ColdFetch
  <2>. QED  BY <2>1, SameCountFacts, CountTypes
<1>. QED  BY <1>1, <1>2

\* The same for the best-effort fetch of the diagnostic mode.
LEMMA DiagMeta ==
  ASSUME TypeOK, Diag
  PROVE  SameCount(meta', meta)
<1>1. meta' = meta \/ \E outcome, auth : meta' = Fetched(meta, outcome, auth, Reading')
  BY DEF Diag
<1>. QED  BY <1>1, SameCountFacts, CountTypes DEF SameCount

\* finishColdCycle stays awake only with data.
LEMMA ColdFinishPlan ==
  ASSUME TypeOK, ColdFinish, plan'.mode = "Active"
  PROVE  fc'.ok
<1>1. PICK link \in World.link, dep \in Departures :
        /\ fc' = [fc EXCEPT !.state = StateOf(meta, link, Reading), !.t_ref = dep, !.shown = dep]
        /\ plan' = PlanSleep(StateOf(meta, link, Reading) = "Normal" /\ fc.ok, dep, Reading)
  BY DEF ColdFinish
<1>2. fc \in FetchResults
  BY DEF TypeOK
<1>3. fc'.ok = fc.ok
  BY <1>1, <1>2 DEF FetchResults
<1>4. StateOf(meta, link, Reading) = "Normal" /\ fc.ok
  BY <1>1, <1>2, ActivePlan DEF FetchResults
<1>. QED  BY <1>3, <1>4

\* The save after a full repaint marks the frame valid and counts nothing.
LEMMA SaveUncheckedFacts ==
  ASSUME TypeOK, NEW here, SaveUnchecked(here)
  PROVE  /\ pc = here /\ pc' = "Sleep" /\ meta'.partial_count = meta.partial_count
         /\ UNCHANGED <<ghosts, fc, plan, deepWake>>
<1>1. /\ pc = here /\ pc' = "Sleep" /\ meta' = [meta EXCEPT !.framebuffer_valid = TRUE]
      /\ UNCHANGED <<ghosts, fc, plan, deepWake>>
  BY DEF SaveUnchecked, panelVars, localVars, flowVars
<1>2. meta'.partial_count = meta.partial_count
  BY <1>1, CountTypes DEF Metas
<1>. QED  BY <1>1, <1>2

\* setup(), loop(), the button and its reset and diagnostic sessions.
LEMMA FrontGhosts ==
  ASSUME TypeOK, GhostInv, Setup \/ Loop \/ Press \/ BwReset \/ BwSave \/ Diag \/ DiagExit
  PROVE  GhostInv'
<1>. USE DEF clockVars, slotVars, panelVars, localVars, flowVars
<1>. USE CountTypes DEF GhostInv, CountedInCycle, CountedAcross, NothingUnsaved, Repainted, Awake,
       BoardWithData, CountedWithData, AfterPush, OfflinePush, ActiveWithData
<1>1. CASE Setup
  <2>1. pc' \in {"Press", "Cold", "Warm"} /\ meta' = rtc /\ rtc' = rtc /\ store' = store
          /\ deepWake' = TRUE
    BY <1>1 DEF Setup, SelectCycle
  <2>2. CASE Overlay
    <3>1. PaintFull(Frame("Brownout", 0))
      BY <1>1, <2>2 DEF Setup
    <3>2. GhostsBounded' /\ ghosts' <= meta'.partial_count
      BY <2>1, <3>1, PaintCounts
    <3>. QED  BY <2>1, <3>2 DEF Recorded, Counted
  <2>3. CASE ~Overlay
    <3>1. GhostsBounded' /\ Recorded(meta)'
      BY <1>1, <2>1, <2>3 DEF Setup, GhostsBounded, Recorded, Counted, Unreadable, OfflineStored
    <3>. QED  BY <2>1, <3>1
  <2>. QED  BY <2>2, <2>3
<1>2. CASE Loop
  <2>1. /\ pc' \in {"Press", "Warm"} /\ meta' = rtc /\ rtc' = rtc /\ store' = store
        /\ deepWake' = FALSE /\ ghosts' = ghosts
    BY <1>2 DEF Loop
  <2>2. GhostsBounded' /\ Counted(meta)'
    BY <1>2, <2>1 DEF Loop, GhostsBounded, Counted, Unreadable
  <2>. QED  BY <2>1, <2>2
<1>3. CASE Press \/ DiagExit
  <2>1. /\ pc' \in {"BwReset", "Diag", "Warm"} /\ pc \in {"Press", "DiagPages"}
        /\ UNCHANGED <<meta, rtc, store, deepWake, ghosts>>
    BY <1>3 DEF Press, DiagExit
  <2>2. GhostsBounded' /\ (IF deepWake THEN Recorded(meta) ELSE Counted(meta))'
    BY <2>1 DEF GhostsBounded, Recorded, Counted, Unreadable, OfflineStored
  <2>. QED  BY <2>1, <2>2
<1>4. CASE BwReset
  <2>1. pc' = "BwSave" /\ PaintFull(curr') /\ UNCHANGED <<meta, rtc, store>>
    BY <1>4 DEF BwReset
  <2>2. GhostsBounded' /\ ghosts' = 0 /\ ghosts' <= meta'.partial_count
    BY <2>1, PaintCounts
  <2>. QED  BY <2>1, <2>2 DEF Recorded, Counted
<1>5. CASE BwSave
  <2>1. pc = "BwSave" /\ pc' = "Warm" /\ meta' = rtc' /\ ghosts' = ghosts
    BY <1>5 DEF BwSave
  <2>2. meta'.partial_count = 0
    BY <1>5 DEF BwSave, Metas
  <2>3. GhostsBounded' /\ ghosts' <= meta'.partial_count
    BY <2>1, <2>2 DEF GhostsBounded
  <2>. QED  BY <2>1, <2>3 DEF Recorded, Counted
<1>6. CASE Diag
  <2>1. /\ pc' = "DiagPages" /\ PaintFull(Frame("Diag", 0))
        /\ UNCHANGED <<rtc, store>> /\ pc = "Diag"
    BY <1>6 DEF Diag
  <2>2. SameCount(meta', meta)
    BY <1>6, DiagMeta
  <2>3. GhostsBounded' /\ ghosts' <= meta'.partial_count
    BY <2>1, <2>2, PaintCounts DEF SameCount
  <2>. QED  BY <2>1, <2>2, <2>3 DEF Recorded, Counted, SameCount
<1>. QED  BY <1>1, <1>2, <1>3, <1>4, <1>5, <1>6

\* runColdCycle and the wrong-password screen.
LEMMA ColdGhosts ==
  ASSUME TypeOK, GhostInv, ColdCycle \/ AuthScreen \/ AuthSleep
  PROVE  GhostInv'
<1>. USE DEF clockVars, slotVars, panelVars, localVars, flowVars
<1>. USE CountTypes DEF GhostInv, CountedInCycle, CountedAcross, NothingUnsaved, Repainted, Awake,
       BoardWithData, CountedWithData, AfterPush, OfflinePush, ActiveWithData
<1>1. CASE Cold \/ ColdNoNet \/ ColdBootCheck
  <2>1. /\ pc' \in {"ColdConnect", "ColdNoNetSleep", "ColdFinish"}
        /\ pc \in {"Cold", "ColdNoNet", "ColdBootCheck"}
        /\ UNCHANGED <<meta, rtc, store, deepWake>>
    BY <1>1 DEF Cold, ColdNoNet, ColdBootCheck
  <2>2. CASE ghosts' = ghosts
    <3>1. GhostsBounded' /\ (IF deepWake THEN Recorded(meta) ELSE Counted(meta))'
      BY <2>1, <2>2 DEF GhostsBounded, Recorded, Counted, Unreadable, OfflineStored
    <3>. QED  BY <2>1, <3>1
  <2>3. CASE \E f : PaintFull(f)
    <3>1. GhostsBounded' /\ ghosts' <= meta'.partial_count
      BY <2>1, <2>3, PaintCounts
    <3>. QED  BY <2>1, <3>1 DEF Recorded, Counted
  <2>4. ghosts' = ghosts \/ \E f : PaintFull(f)
    BY <1>1 DEF Cold, ColdNoNet, ColdBootCheck
  <2>. QED  BY <2>2, <2>3, <2>4
<1>2. CASE ColdConnect \/ ColdFetch
  <2>1. /\ pc' \in {"ColdFetch", "ColdNoNet", "AuthScreen", "ColdBootCheck"}
        /\ pc \in {"ColdConnect", "ColdFetch"}
        /\ UNCHANGED <<rtc, store, deepWake, ghosts>>
    BY <1>2 DEF ColdConnect, ColdFetch
  <2>2. SameCount(meta', meta)
    BY <1>2, ColdMeta
  <2>3. GhostsBounded' /\ (IF deepWake THEN Recorded(meta) ELSE Counted(meta))'
    BY <2>1, <2>2 DEF GhostsBounded, Recorded, Counted, Unreadable, OfflineStored, SameCount
  <2>. QED  BY <2>1, <2>3
<1>3. CASE ColdNoNetSleep
  <2>1. pc' = "Asleep" /\ ghosts' = ghosts /\ rtc' = AfterNoNet(meta)
    BY <1>3 DEF ColdNoNetSleep, SaveMeta, DeepSleep
  <2>2. ~rtc'.framebuffer_valid
    BY <2>1 DEF AfterNoNet, Metas
  <2>. QED  BY <2>1, <2>2 DEF GhostsBounded, Recorded, Counted, Unreadable
<1>4. CASE AuthScreen
  <2>1. pc' = "AuthSleep" /\ PaintFull(curr') /\ UNCHANGED <<rtc, store>>
    BY <1>4 DEF AuthScreen
  <2>2. SameCount(meta', meta)
    BY <1>4, SameCountFacts DEF AuthScreen, SameCount
  <2>3. GhostsBounded' /\ ghosts' <= meta'.partial_count
    BY <2>1, <2>2, PaintCounts DEF SameCount
  <2>. QED  BY <2>1, <2>3 DEF Recorded, Counted
<1>5. CASE AuthSleep
  <2>1. pc' = "Asleep" /\ ghosts' = ghosts /\ rtc' = AfterAuthScreen(meta)
    BY <1>5 DEF AuthSleep, SaveMeta, DeepSleep
  <2>2. ~rtc'.framebuffer_valid
    BY <2>1 DEF AfterAuthScreen, Metas
  <2>. QED  BY <2>1, <2>2 DEF GhostsBounded, Recorded, Counted, Unreadable
<1>6. CASE ColdFinish
  <2>2. pc' = "ColdSave" /\ PaintFull(curr') /\ UNCHANGED <<rtc, store>>
    BY <1>6 DEF ColdFinish
  <2>3. meta'.partial_count = meta.partial_count
    BY <1>6 DEF ColdFinish, Metas
  <2>4. GhostsBounded' /\ ghosts' = 0 /\ ghosts' <= meta'.partial_count
    BY <2>2, <2>3, PaintCounts
  <2>5. plan'.mode = "Active" => fc'.ok
    BY <1>6, ColdFinishPlan
  <2>. QED  BY <2>2, <2>4, <2>5 DEF Recorded, Counted
<1>7. CASE ColdSave
  <2>1. /\ pc = "ColdSave" /\ pc' = "Sleep" /\ meta'.partial_count = meta.partial_count
        /\ UNCHANGED <<ghosts, fc, plan>>
    BY <1>7, SaveUncheckedFacts DEF ColdSave
  <2>2. GhostsBounded' /\ ghosts' <= meta'.partial_count
    BY <2>1 DEF GhostsBounded
  <2>. QED  BY <2>1, <2>2 DEF Recorded, Counted
<1>. QED  BY <1>1, <1>2, <1>3, <1>4, <1>5, <1>6, <1>7 DEF ColdCycle

\* What the warm cycle does to the meta before its push.
LEMMA WarmMeta ==
  ASSUME TypeOK, ClockOk
  PROVE  SameCount(meta', meta)
<1>1. meta' = meta \/ meta' = [meta EXCEPT !.last_ntp_sync = Reading']
  BY DEF ClockOk
<1>2. SameCount([meta EXCEPT !.last_ntp_sync = Reading'], meta)
  BY SameCountFacts, CountTypes
<1>. QED  BY <1>1, <1>2 DEF SameCount

\* Without WiFi there is no data, and either an offline screen or a sleep.
LEMMA WifiDownFacts ==
  ASSUME TypeOK, WifiDown
  PROVE  \/ /\ pc' = "Push" /\ ctx' = "Offline" /\ fc'.ok = FALSE /\ fc'.state = "Offline"
            /\ UNCHANGED <<meta, rtc, store, deepWake, ghosts>>
         \/ pc' = "Asleep" /\ UNCHANGED <<rtc, store, ghosts>>
<1>1. CASE StateOf(meta, FALSE, Reading) = "Offline"
  <2>1. /\ fc' = [NoFetch EXCEPT !.state = "Offline"] /\ pc' = "Push" /\ ctx' = "Offline"
        /\ UNCHANGED <<meta, rtc, store, deepWake, ghosts>>
    BY <1>1 DEF WifiDown, slotVars, panelVars
  <2>2. fc'.ok = FALSE /\ fc'.state = "Offline"
    BY <2>1 DEF NoFetch
  <2>. QED  BY <2>1, <2>2
<1>2. CASE StateOf(meta, FALSE, Reading) # "Offline"
  BY <1>2 DEF WifiDown, DeepSleep, slotVars, panelVars
<1>. QED  BY <1>1, <1>2

\* New hints change only what is shown.
LEMMA ScheduleFacts ==
  ASSUME TypeOK, Schedule
  PROVE  /\ pc = "Schedule" /\ pc' = "Decide" /\ fc'.ok = fc.ok /\ fc'.state = fc.state
         /\ UNCHANGED <<meta, rtc, store, deepWake, ghosts>>
<1>1. fc' = fc \/ \E dep : fc' = [fc EXCEPT !.shown = dep]
  BY DEF Schedule
<1>2. fc'.ok = fc.ok /\ fc'.state = fc.state
  BY <1>1 DEF TypeOK, FetchResults
<1>. QED  BY <1>2 DEF Schedule, panelVars, flowVars

\* runWarmCycle up to the merged board.
LEMMA WarmFrontGhosts ==
  ASSUME TypeOK, GhostInv,
         Warm \/ WifiDown \/ OfflineSleep \/ ClockOk \/ ClockLost \/ Fetch \/ Schedule
  PROVE  GhostInv'
<1>. USE DEF clockVars, slotVars, panelVars, localVars, flowVars
<1>. USE CountTypes DEF GhostInv, CountedInCycle, CountedAcross, NothingUnsaved, Repainted, Awake,
       BoardWithData, CountedWithData, AfterPush, OfflinePush, ActiveWithData
<1>1. CASE Warm
  <2>1. /\ pc = "Warm" /\ pc' \in {"Clock", "WifiDown", "AuthScreen"}
        /\ UNCHANGED <<meta, rtc, store, deepWake, ghosts>>
    BY <1>1 DEF Warm
  <2>2. GhostsBounded' /\ (IF deepWake THEN Recorded(meta) ELSE Counted(meta))'
    BY <2>1 DEF GhostsBounded, Recorded, Counted, Unreadable, OfflineStored
  <2>. QED  BY <2>1, <2>2
<1>2. CASE WifiDown
  <2>1. pc = "WifiDown"
    BY <1>2 DEF WifiDown
  <2>2. CASE /\ pc' = "Push" /\ ctx' = "Offline" /\ fc'.ok = FALSE /\ fc'.state = "Offline"
             /\ UNCHANGED <<meta, rtc, store, deepWake, ghosts>>
    <3>1. GhostsBounded' /\ (IF deepWake THEN Recorded(meta) ELSE Counted(meta))'
      BY <2>1, <2>2 DEF GhostsBounded, Recorded, Counted, Unreadable, OfflineStored
    <3>. QED  BY <2>2, <3>1
  <2>3. CASE pc' = "Asleep" /\ UNCHANGED <<rtc, store, ghosts>>
    <3>1. GhostsBounded' /\ Recorded(rtc)'
      BY <2>1, <2>3 DEF GhostsBounded, Recorded, Counted, Unreadable, OfflineStored
    <3>. QED  BY <2>3, <3>1
  <2>. QED  BY <1>2, <2>2, <2>3, WifiDownFacts
<1>3. CASE OfflineSleep \/ ClockLost
  <2>1. pc \in {"OfflineSleep", "Clock"} /\ pc' = "Asleep" /\ UNCHANGED <<rtc, store, ghosts>>
    BY <1>3 DEF OfflineSleep, ClockLost, DeepSleep
  <2>2. GhostsBounded' /\ Recorded(rtc)'
    BY <2>1 DEF GhostsBounded, Recorded, Counted, Unreadable, OfflineStored
  <2>. QED  BY <2>1, <2>2
<1>4. CASE ClockOk
  <2>1. pc = "Clock" /\ pc' = "Fetch" /\ UNCHANGED <<rtc, store, deepWake, ghosts>>
    BY <1>4 DEF ClockOk
  <2>2. SameCount(meta', meta)
    BY <1>4, WarmMeta
  <2>3. GhostsBounded' /\ (IF deepWake THEN Recorded(meta) ELSE Counted(meta))'
    BY <2>1, <2>2 DEF GhostsBounded, Recorded, Counted, Unreadable, OfflineStored, SameCount
  <2>. QED  BY <2>1, <2>3
<1>5. CASE Fetch
  <2>1. pc = "Fetch" /\ pc' = "Schedule" /\ UNCHANGED <<rtc, store, deepWake, ghosts>>
    BY <1>5 DEF Fetch
  <2>2. now' \in Nat
    BY <1>5, ElapseType, WorldFacts DEF Fetch
  <2>3. PICK outcome \in World.fetch : FetchCycle(fc', meta', outcome)
    BY <1>5 DEF Fetch
  <2>4. SameCount(meta', meta) /\ (fc'.ok => fc'.state # "Offline")
    BY <2>2, <2>3, FetchCycleFacts
  <2>5. GhostsBounded' /\ (IF deepWake THEN Recorded(meta) ELSE Counted(meta))'
    BY <2>1, <2>4 DEF GhostsBounded, Recorded, Counted, Unreadable, OfflineStored, SameCount
  <2>. QED  BY <2>1, <2>4, <2>5
<1>6. CASE Schedule
  <2>1. /\ pc = "Schedule" /\ pc' = "Decide" /\ fc'.ok = fc.ok /\ fc'.state = fc.state
        /\ UNCHANGED <<meta, rtc, store, deepWake, ghosts>>
    BY <1>6, ScheduleFacts
  <2>2. GhostsBounded' /\ (IF deepWake THEN Recorded(meta) ELSE Counted(meta))'
    BY <2>1 DEF GhostsBounded, Recorded, Counted, Unreadable, OfflineStored
  <2>. QED  BY <2>1, <2>2
<1>. QED  BY <1>1, <1>2, <1>3, <1>4, <1>5, <1>6

\* A push counts what it adds to the glass.  Only an offline screen over the
\* same offline screen, after a deep sleep, leaves the counter behind.
LEMMA PushCounts ==
  ASSUME TypeOK, GhostInv, ScreensDiffer, Push
  PROVE  /\ GhostsBounded'
         /\ ctx = "Offline" => curr'.body \in World.scans
         /\ \/ ghosts' <= meta'.partial_count
            \/ deepWake /\ curr' = store /\ store.body \in World.scans /\ ~fc.ok
<1>1. PICK b \in Bodies(fc.state) :
        LET first == Frame(b, Stamp(IF ForceStamp THEN Reading ELSE meta.last_display_update))
            f == IF Restamped(first) THEN Frame(b, Stamp(Reading)) ELSE first
            m == IF Restamped(first) THEN [meta EXCEPT !.last_display_update = Reading]
                                     ELSE meta
        IN  curr' = f /\ Draw(PlanFor(f), f) /\ meta' = Applied(m, PlanFor(f), Reading)
  BY DEF Push
<1>. DEFINE first == Frame(b, Stamp(IF ForceStamp THEN Reading ELSE meta.last_display_update))
            f == IF Restamped(first) THEN Frame(b, Stamp(Reading)) ELSE first
            m == IF Restamped(first) THEN [meta EXCEPT !.last_display_update = Reading]
                                     ELSE meta
            kind == PlanFor(f)
<1>2. curr' = f /\ Draw(kind, f) /\ meta' = Applied(m, kind, Reading)
  BY <1>1
<1>3. f.body = b
  BY DEF Frame
<1>4. m.partial_count = meta.partial_count /\ m \in Metas
  BY CountTypes, ReadingType, FieldTypes, SameCountFacts DEF SameCount
<1>. HIDE DEF f, m, first
<1>5. pc = "Push" /\ (IF deepWake THEN Recorded(meta) ELSE Counted(meta)) /\ ghosts <= Config.partial_hardcap
  BY DEF Push, GhostInv, CountedInCycle, Awake, GhostsBounded
<1>6. ctx = "Offline" => curr'.body \in World.scans
  BY <1>1, <1>2, <1>3, <1>5 DEF GhostInv, OfflinePush, Bodies
<1>7. CASE kind = "LightFull"
  <2>1. ghosts' = 0 /\ meta'.partial_count = 0
    BY <1>2, <1>4, <1>7, CountTypes DEF Draw, PaintFull, Applied, Metas
  <2>. QED  BY <2>1, <1>6, CountTypes DEF GhostsBounded
<1>8. CASE kind = "Partial"
  <2>1. Loadable /\ ~deepWake /\ ~(meta.partial_count >= Config.partial_hardcap)
    BY <1>8 DEF PlanFor, PlanRefresh, FullRefreshDue
  <2>2. ghosts <= meta.partial_count
    BY <1>5, <2>1 DEF Counted, Unreadable, Loadable
  <2>3. ghosts' = ghosts + 1 /\ meta'.partial_count = meta.partial_count + 1
    BY <1>2, <1>4, <1>8 DEF Draw, Applied, Metas
  <2>. QED  BY <2>1, <2>2, <2>3, <1>6, CountTypes DEF GhostsBounded
<1>9. CASE kind = "None"
  <2>1. Loadable /\ store = f
    BY <1>9 DEF PlanFor, PlanRefresh
  <2>2. ghosts' = ghosts /\ meta'.partial_count = meta.partial_count
    BY <1>2, <1>4, <1>9 DEF Draw, Applied, panelVars
  <2>3. CASE Counted(meta)
    <3>1. ghosts' <= meta'.partial_count
      BY <2>1, <2>2, <2>3 DEF Counted, Unreadable, Loadable
    <3>. QED  BY <3>1, <2>2, <1>5, <1>6 DEF GhostsBounded
  <2>4. CASE deepWake /\ OfflineStored
    <3>1. store.body \in World.scans /\ b \in World.scans
      BY <2>1, <2>4, <1>3 DEF OfflineStored
    <3>2. ~fc.ok
      <4>1. fc.state \in States
        BY DEF TypeOK, FetchResults
      <4>2. fc.ok => fc.state # "Offline"
        BY <1>5 DEF GhostInv, BoardWithData
      <4>. QED  BY <4>1, <4>2, <3>1, <1>1, BoardsDiffer
    <3>. QED  BY <3>1, <3>2, <2>1, <2>2, <2>4, <1>2, <1>5, <1>6 DEF GhostsBounded
  <2>. QED  BY <2>3, <2>4, <1>5 DEF Recorded
<1>. QED  BY <1>7, <1>8, <1>9, PlanForValues

\* The save of the pushed frame marks it valid or drops it; a rescue plans again.
LEMMA PushSaveFacts ==
  ASSUME TypeOK, PushSave
  PROVE  /\ pc = "PushSave" /\ UNCHANGED <<ghosts, fc, deepWake>>
         /\ meta'.partial_count = meta.partial_count
         /\ store' = curr \/ store' = NoFrame
         /\ \/ ctx = "Offline" /\ pc' = "OfflineSleep"
            \/ ctx = "Board" /\ pc' = "RescueStart" /\ plan' = plan
            \/ ctx = "Rescue" /\ pc' = "Sleep" /\ (plan'.mode = "Active" => fc.ok)
<1>1. PICK saved \in World.saved :
        SaveFramebuffer(saved) /\ meta' = [meta EXCEPT !.framebuffer_valid = saved]
  BY DEF PushSave
<1>2. meta'.partial_count = meta.partial_count /\ (store' = curr \/ store' = NoFrame)
  BY <1>1, CountTypes, SameCountFacts DEF SaveFramebuffer
<1>3. fc.ok \in BOOLEAN
  BY DEF TypeOK, FetchResults
<1>4. pc = "PushSave" /\ UNCHANGED <<ghosts, fc, deepWake>>
  BY DEF PushSave, panelVars, flowVars
<1>5. CASE ctx = "Rescue" /\ pc' = "Sleep" /\ plan' = PlanSleep(fc.ok, fc.t_ref, Reading)
  BY <1>2, <1>3, <1>4, <1>5, ActivePlan
<1>6. \/ ctx = "Offline" /\ pc' = "OfflineSleep"
      \/ ctx = "Board" /\ pc' = "RescueStart" /\ plan' = plan
      \/ ctx = "Rescue" /\ pc' = "Sleep" /\ plan' = PlanSleep(fc.ok, fc.t_ref, Reading)
  BY DEF PushSave
<1>. QED  BY <1>2, <1>4, <1>5, <1>6

\* An attempt of the rescue fetch: a complete board goes to the push, anything
\* else leaves only the auth flag and the success time behind.
LEMMA RescueRetryFacts ==
  ASSUME TypeOK, RescueRetry
  PROVE  /\ pc = "RescueTry" /\ UNCHANGED <<rtc, store, deepWake, ghosts, plan>>
         /\ SameCount(meta', meta)
         /\ \/ pc' = "Push" /\ ctx' = "Rescue" /\ fc'.ok /\ fc'.state # "Offline"
            \/ pc' = "Rescue" /\ fc' = fc
<1>1. pc = "RescueTry" /\ UNCHANGED <<rtc, store, deepWake, ghosts, plan>>
  BY DEF RescueRetry, slotVars, panelVars
<1>2. CASE \E d \in World.delays :
             /\ now' = now + d /\ FetchCycle(fc', meta', "Complete")
             /\ pc' = "Push" /\ ctx' = "Rescue"
  <2>1. now' \in Nat
    BY <1>2, WorldFacts DEF TypeOK
  <2>. QED  BY <1>1, <1>2, <2>1, FetchCycleFacts
<1>3. CASE /\ \E outcome, auth : meta' = Fetched(meta, outcome, auth, Reading')
           /\ pc' = "Rescue" /\ fc' = fc
  <2>1. PICK outcome, auth : meta' = Fetched(meta, outcome, auth, Reading')
    BY <1>3
  <2>2. SameCount(meta', meta)
    BY <2>1, SameCountFacts, CountTypes
  <2>. QED  BY <1>1, <1>3, <2>2
<1>4. PICK outcome \in World.fetch, d \in World.delays :
        \/ /\ outcome = "Complete" /\ now' = now + d
           /\ FetchCycle(fc', meta', outcome)
           /\ pc' = "Push" /\ ctx' = "Rescue"
        \/ /\ \E auth \in AuthAfter(outcome) : meta' = Fetched(meta, outcome, auth, Reading')
           /\ pc' = "Rescue" /\ fc' = fc
  BY DEF RescueRetry
<1>. QED  BY <1>2, <1>3, <1>4

\* doSleepOrLoop saves the counter and the flag as they are.
LEMMA SleepFacts ==
  ASSUME TypeOK, SleepOrLoop
  PROVE  /\ pc = "Sleep" /\ SameCount(rtc', meta) /\ UNCHANGED <<store, ghosts>>
         /\ \/ pc' = "Asleep"
            \/ pc' = "Paused" /\ plan.mode = "Active"
<1>1. SameCount(MetaAtSleep, meta)
  BY SameCountFacts, CountTypes DEF MetaAtSleep
<1>2. pc = "Sleep" /\ rtc' = MetaAtSleep /\ UNCHANGED <<store, ghosts>>
  BY DEF SleepOrLoop, SaveMeta, DeepSleep, panelVars
<1>. QED  BY <1>1, <1>2 DEF SleepOrLoop, DeepSleep

\* finishWarmCycle, the rescue fetch and the sleep.
LEMMA WarmEndGhosts ==
  ASSUME TypeOK, GhostInv, ScreensDiffer,
         \/ Decide \/ Nightly \/ NightlySave \/ Push \/ PushSave \/ RescueStart
         \/ RescueTurn \/ RescueStop \/ RescueWait \/ RescueRetry \/ SleepOrLoop
  PROVE  GhostInv'
<1>. USE DEF clockVars, slotVars, panelVars, localVars, flowVars
<1>. USE CountTypes DEF GhostInv, CountedInCycle, CountedAcross, NothingUnsaved, Repainted, Awake,
       BoardWithData, CountedWithData, AfterPush, OfflinePush, ActiveWithData
<1>1. CASE Decide
  <2>1. pc = "Decide" /\ UNCHANGED <<meta, rtc, store, deepWake, ghosts, fc>>
    BY <1>1 DEF Decide
  <2>2. plan'.mode = "Active" => fc.ok
    <3>1. fc.ok \in BOOLEAN
      BY DEF TypeOK, FetchResults
    <3>. QED  BY <1>1, <3>1, ActivePlan DEF Decide
  <2>3. \/ pc' = "Nightly"
        \/ pc' = "Push" /\ ctx' = "Board"
        \/ pc' = "RescueStart" /\ ~fc.ok
    BY <1>1 DEF Decide, PushWanted
  <2>4. GhostsBounded' /\ (IF deepWake THEN Recorded(meta) ELSE Counted(meta))'
    BY <2>1 DEF GhostsBounded, Recorded, Counted, Unreadable, OfflineStored
  <2>. QED  BY <2>1, <2>2, <2>3, <2>4
<1>2. CASE Nightly
  <2>1. /\ pc = "Nightly" /\ pc' = "NightlySave" /\ PaintFull(curr')
        /\ UNCHANGED <<rtc, store, deepWake, fc, plan>>
    BY <1>2 DEF Nightly
  <2>2. meta'.partial_count = 0
    BY <1>2 DEF Nightly, Metas
  <2>3. GhostsBounded' /\ ghosts' = 0 /\ ghosts' <= meta'.partial_count
    BY <2>1, <2>2, PaintCounts
  <2>. QED  BY <2>1, <2>3 DEF Recorded, Counted
<1>3. CASE NightlySave
  <2>1. /\ pc = "NightlySave" /\ pc' = "Sleep" /\ meta'.partial_count = meta.partial_count
        /\ UNCHANGED <<ghosts, fc, plan>>
    BY <1>3, SaveUncheckedFacts DEF NightlySave
  <2>2. GhostsBounded' /\ ghosts' <= meta'.partial_count
    BY <2>1 DEF GhostsBounded
  <2>. QED  BY <2>1, <2>2 DEF Recorded, Counted
<1>4. CASE Push
  <2>1. pc = "Push" /\ pc' = "PushSave" /\ UNCHANGED <<rtc, store, deepWake, ctx, fc, plan>>
    BY <1>4 DEF Push
  <2>2. /\ GhostsBounded'
        /\ ctx = "Offline" => curr'.body \in World.scans
        /\ \/ ghosts' <= meta'.partial_count
           \/ deepWake /\ curr' = store /\ store.body \in World.scans /\ ~fc.ok
    BY <1>4, PushCounts
  <2>. QED  BY <2>1, <2>2 DEF OfflineStored
<1>5. CASE PushSave
  <2>1. /\ pc = "PushSave" /\ UNCHANGED <<ghosts, fc, deepWake>>
        /\ meta'.partial_count = meta.partial_count
        /\ store' = curr \/ store' = NoFrame
        /\ \/ ctx = "Offline" /\ pc' = "OfflineSleep"
           \/ ctx = "Board" /\ pc' = "RescueStart" /\ plan' = plan
           \/ ctx = "Rescue" /\ pc' = "Sleep" /\ (plan'.mode = "Active" => fc.ok)
    BY <1>5, PushSaveFacts
  <2>2. GhostsBounded'
    BY <2>1 DEF GhostsBounded
  <2>3. CASE ctx = "Offline" /\ pc' = "OfflineSleep"
    <3>1. store' = NoFrame \/ OfflineStored'
      BY <2>1, <2>3 DEF OfflineStored
    <3>. QED  BY <2>2, <2>3, <3>1
  <2>4. CASE ctx # "Offline" /\ pc' \in {"RescueStart", "Sleep"}
    <3>1. (IF deepWake THEN Recorded(meta) ELSE Counted(meta))'
      BY <2>1 DEF Recorded, Counted, Unreadable, OfflineStored
    <3>2. fc.ok => Counted(meta)'
      BY <2>1 DEF Counted
    <3>. QED  BY <2>1, <2>2, <2>4, <3>1, <3>2
  <2>. QED  BY <2>1, <2>3, <2>4
<1>6. CASE RescueStart \/ RescueTurn \/ RescueStop \/ RescueWait
  <2>1. /\ pc \in {"RescueStart", "Rescue", "RescueTry"} /\ pc' \in {"Rescue", "RescueTry", "Sleep"}
        /\ UNCHANGED <<meta, rtc, store, deepWake, ghosts, fc, plan>>
    BY <1>6 DEF RescueStart, RescueTurn, RescueStop, RescueWait
  <2>2. GhostsBounded' /\ (IF deepWake THEN Recorded(meta) ELSE Counted(meta))'
    BY <2>1 DEF GhostsBounded, Recorded, Counted, Unreadable, OfflineStored
  <2>3. fc.ok => Counted(meta)'
    BY <2>1 DEF Counted, Unreadable
  <2>. QED  BY <2>1, <2>2, <2>3
<1>7. CASE RescueRetry
  <2>1. /\ pc = "RescueTry" /\ UNCHANGED <<rtc, store, deepWake, ghosts, plan>>
        /\ SameCount(meta', meta)
        /\ \/ pc' = "Push" /\ ctx' = "Rescue" /\ fc'.ok /\ fc'.state # "Offline"
           \/ pc' = "Rescue" /\ fc' = fc
    BY <1>7, RescueRetryFacts
  <2>2. GhostsBounded' /\ (IF deepWake THEN Recorded(meta) ELSE Counted(meta))'
    BY <2>1 DEF GhostsBounded, Recorded, Counted, Unreadable, OfflineStored, SameCount
  <2>3. fc.ok => Counted(meta)'
    BY <2>1 DEF Counted, Unreadable, SameCount
  <2>. QED  BY <2>1, <2>2, <2>3
<1>8. CASE SleepOrLoop
  <2>1. /\ pc = "Sleep" /\ SameCount(rtc', meta) /\ UNCHANGED <<store, ghosts>>
        /\ \/ pc' = "Asleep"
           \/ pc' = "Paused" /\ plan.mode = "Active"
    BY <1>8, SleepFacts
  <2>2. GhostsBounded' /\ Recorded(rtc)'
    BY <2>1 DEF GhostsBounded, Recorded, Counted, Unreadable, OfflineStored, SameCount
  <2>3. plan.mode = "Active" => Counted(rtc)'
    BY <2>1 DEF Counted, Unreadable, SameCount
  <2>. QED  BY <2>1, <2>2, <2>3
<1>. QED  BY <1>1, <1>2, <1>3, <1>4, <1>5, <1>6, <1>7, <1>8

\* Waking up, resets and the clock.
LEMMA EnvironmentGhosts ==
  ASSUME TypeOK, GhostInv, OverlayShown, Environment
  PROVE  GhostInv'
<1>. USE DEF clockVars, slotVars, panelVars, localVars, flowVars
<1>. USE CountTypes DEF GhostInv, CountedInCycle, CountedAcross, NothingUnsaved, Repainted, Awake,
       BoardWithData, CountedWithData, AfterPush, OfflinePush, ActiveWithData
<1>1. CASE WakeByTimer \/ WakeByButton
  <2>1. pc = "Asleep" /\ pc' = "Setup" /\ UNCHANGED <<rtc, store, ghosts>>
    BY <1>1 DEF WakeByTimer, WakeByButton, StartSetup
  <2>2. GhostsBounded' /\ Recorded(rtc)'
    BY <2>1 DEF GhostsBounded, Recorded, Counted, Unreadable, OfflineStored
  <2>. QED  BY <2>1, <2>2
<1>2. CASE \E pressed \in BOOLEAN : PauseEnds(pressed)
  <2>1. pc = "Paused" /\ pc' = "Loop" /\ UNCHANGED <<rtc, store, ghosts>>
    BY <1>2 DEF PauseEnds
  <2>2. GhostsBounded' /\ Counted(rtc)'
    BY <2>1 DEF GhostsBounded, Counted, Unreadable
  <2>. QED  BY <2>1, <2>2
<1>3. CASE \E reason \in World.resets \ {"PowerLoss"} : Reset(reason)
  <2>1. PICK reason \in World.resets \ {"PowerLoss"} : Reset(reason)
    BY <1>3
  <2>2. pc' = "Setup" /\ ghosts' = ghosts /\ wake'.reason = reason
    BY <2>1 DEF Reset, StartSetup
  <2>3. Overlay'
    BY <2>1, <2>2, WorldFacts DEF Overlay, OverlayShown
  <2>. QED  BY <2>2, <2>3 DEF GhostsBounded
<1>4. CASE PowerLoss
  <2>1. pc' = "Setup" /\ ghosts' = ghosts /\ store' = NoFrame
    BY <1>4 DEF PowerLoss
  <2>. QED  BY <2>1 DEF GhostsBounded, Recorded, Counted, Unreadable
<1>5. CASE SntpSetsClock \/ HorizonReached \/ UNCHANGED vars
  <2>1. UNCHANGED <<meta, rtc, store, curr, pc, deepWake, wake, ctx, fc, plan, ghosts>>
    BY <1>5 DEF SntpSetsClock, HorizonReached, vars
  <2>. QED  BY <2>1 DEF GhostsBounded, Recorded, Counted, Unreadable, OfflineStored, Overlay
<1>. QED  BY <1>1, <1>2, <1>3, <1>4, <1>5 DEF Environment

\* A step that changes nothing keeps everything.
LEMMA StutterGhosts ==
  ASSUME GhostInv, UNCHANGED vars
  PROVE  GhostInv'
BY DEF vars, GhostInv, CountedInCycle, CountedAcross, NothingUnsaved, Repainted, Awake,
   BoardWithData, CountedWithData, AfterPush, OfflinePush, ActiveWithData,
   GhostsBounded, Recorded, Counted, Unreadable, OfflineStored, Overlay

\* Together, every step.
LEMMA StepGhosts ==
  ASSUME TypeOK, GhostInv, OverlayShown, ScreensDiffer, [Next]_vars
  PROVE  GhostInv'
BY FrontGhosts, ColdGhosts, WarmFrontGhosts, WarmEndGhosts, EnvironmentGhosts, StutterGhosts
   DEF Next, Device, WarmCycle

(***************************************************************************)
(* The theorem.                                                            *)
(***************************************************************************)
\* For every configuration that shows the overlay after a reset, and every
\* world in which the no-network screen looks like no other, the partial
\* refreshes on the glass never exceed the hard cap.
THEOREM GhostsStayBounded == OverlayShown /\ ScreensDiffer => (Spec => []GhostsBounded)
<1>. SUFFICES ASSUME OverlayShown, ScreensDiffer PROVE Spec => []GhostsBounded
  OBVIOUS
<1>1. Init => GhostInv
  BY InitGhostInv
<1>2. TypeOK /\ GhostInv /\ [Next]_vars => GhostInv'
  BY StepGhosts
<1>3. GhostInv => GhostsBounded
  BY DEF GhostInv
<1>. QED  BY <1>1, <1>2, <1>3, TypeCorrect, PTL DEF Spec

(***************************************************************************)
(* PART 3.  The stored frame and the glass, and the boot picture.          *)
(*                                                                         *)
(* Paint and save are two steps, and meta, g_meta and the framebuffer slot *)
(* are written at different ones.  GlassInv says what holds in between: a  *)
(* frame either copy of the flag calls valid is on the glass, except       *)
(* between a paint and its save, where curr is.  BootInv adds that a valid *)
(* frame is the boot picture if that is what the glass shows.              *)
(***************************************************************************)

(***************************************************************************)
(* The inductive invariant.                                                *)
(***************************************************************************)
\* If m calls the stored frame valid, the glass shows it.
ShownIfValid(m) == m.framebuffer_valid /\ store # NoFrame /\ ~residue => glass = store

Settled == pc \notin Unrecorded
InCycle == pc \notin {"Setup", "Loop", "Asleep", "Paused", "OfflineSleep"}

ShownInRtc == Settled => ShownIfValid(rtc)
ShownInCycle == Settled /\ InCycle => ShownIfValid(meta)

\* What the thread holds between a paint and its save.
PaintedAndHeld ==
  /\ pc \in {"ColdSave", "NightlySave", "BwSave"} => glass = curr
  /\ pc = "PushSave" /\ ~residue => glass = curr
  /\ pc = "BwSave" /\ Loadable => curr = store

\* The boot screen goes up only when neither copy calls a frame valid.
FlagsAgree == pc = "Cold" => meta.framebuffer_valid = rtc.framebuffer_valid

GlassInv == ShownInRtc /\ ShownInCycle /\ PaintedAndHeld /\ FlagsAgree

(***************************************************************************)
(* Steps that leave glass and slot alone.                                  *)
(***************************************************************************)
\* Such a step keeps the invariant as long as it stays clear of the saves.
LEMMA GlassUntouched ==
  ASSUME GlassInv, Settled, UNCHANGED <<rtc, store, glass, residue>>,
         InCycle' => InCycle /\ meta'.framebuffer_valid = meta.framebuffer_valid,
         pc' \notin {"ColdSave", "NightlySave", "BwSave", "PushSave", "Cold"}
  PROVE  GlassInv'
<1>1. ShownInRtc'
  BY DEF GlassInv, ShownInRtc, ShownIfValid
<1>2. ShownInCycle'
  BY DEF GlassInv, ShownInCycle, ShownIfValid, Settled
<1>. QED  BY <1>1, <1>2 DEF GlassInv, PaintedAndHeld, FlagsAgree

\* A paint that is not recorded yet.
LEMMA GlassUnsaved ==
  ASSUME pc' \in {"ColdFinish", "ColdNoNetSleep", "AuthSleep"}
  PROVE  GlassInv'
BY DEF GlassInv, ShownInRtc, ShownInCycle, PaintedAndHeld, FlagsAgree, Settled, Unrecorded

\* A paint of curr ahead of its save.
LEMMA GlassPainted ==
  ASSUME pc' \in {"ColdSave", "NightlySave"}, PaintFull(curr')
  PROVE  GlassInv'
BY DEF GlassInv, ShownInRtc, ShownInCycle, PaintedAndHeld, FlagsAgree, Settled, Unrecorded,
   PaintFull

\* The save: the slot gets what is on the glass, or nothing.
LEMMA GlassSaved ==
  ASSUME residue \/ glass = curr, store' = curr \/ store' = NoFrame, UNCHANGED <<glass, residue>>,
         pc' \in {"Warm", "Sleep", "OfflineSleep", "RescueStart"}
  PROVE  GlassInv'
BY DEF GlassInv, ShownInRtc, ShownInCycle, ShownIfValid, PaintedAndHeld, FlagsAgree

\* The end of a cycle whose frame is no longer valid.
LEMMA GlassDropped ==
  ASSUME ~rtc'.framebuffer_valid, pc' \in {"Asleep", "Setup"}
  PROVE  GlassInv'
BY DEF GlassInv, ShownInRtc, ShownInCycle, ShownIfValid, PaintedAndHeld, FlagsAgree, InCycle

(***************************************************************************)
(* The invariant holds at the start and is kept by every step.             *)
(***************************************************************************)
\* Power-on: no valid frame.
LEMMA InitGlassInv == Init => GlassInv
BY DEF Init, MetaZero, GlassInv, ShownInRtc, ShownInCycle, ShownIfValid, PaintedAndHeld,
   FlagsAgree, InCycle

\* setup(), loop(), the button and its reset and diagnostic sessions.
LEMMA FrontGlass ==
  ASSUME TypeOK, GlassInv, Setup \/ Loop \/ Press \/ BwReset \/ BwSave \/ Diag \/ DiagExit
  PROVE  GlassInv'
<1>. USE DEF clockVars, slotVars, panelVars, localVars, flowVars
<1>1. CASE Setup \/ Loop
  <2>1. /\ pc \in {"Setup", "Loop"} /\ pc' \in {"Press", "Cold", "Warm"}
        /\ meta' = rtc /\ rtc' = rtc /\ store' = store
        /\ residue' \/ UNCHANGED <<glass, residue>>
    BY <1>1 DEF Setup, Loop, SelectCycle
  <2>2. ShownIfValid(rtc)
    BY <2>1 DEF GlassInv, ShownInRtc, Settled, Unrecorded
  <2>. QED  BY <2>1, <2>2 DEF GlassInv, ShownInRtc, ShownInCycle, ShownIfValid,
                PaintedAndHeld, FlagsAgree
<1>2. CASE Press \/ DiagExit
  <2>1. /\ pc \in {"Press", "DiagPages"} /\ pc' \in {"BwReset", "Diag", "Warm"}
        /\ UNCHANGED <<meta, rtc, store, glass, residue>>
    BY <1>2 DEF Press, DiagExit
  <2>. QED  BY <2>1, GlassUntouched DEF Settled, Unrecorded, InCycle
<1>3. CASE BwReset
  <2>1. /\ pc' = "BwSave" /\ glass' = curr' /\ UNCHANGED <<meta, rtc, store>>
        /\ Loadable => curr' = store
    BY <1>3 DEF BwReset, PaintFull
  <2>. QED  BY <2>1 DEF GlassInv, ShownInRtc, ShownInCycle, PaintedAndHeld, FlagsAgree,
                Settled, Unrecorded, Loadable
<1>4. CASE BwSave
  <2>1. /\ pc = "BwSave" /\ pc' = "Warm" /\ UNCHANGED <<glass, residue>>
        /\ \/ Loadable /\ store' = store
           \/ store' = curr \/ store' = NoFrame
    BY <1>4 DEF BwSave
  <2>2. glass = curr /\ (Loadable => curr = store)
    BY <2>1 DEF GlassInv, PaintedAndHeld
  <2>. QED  BY <2>1, <2>2, GlassSaved
<1>5. CASE Diag
  <2>1. pc' = "DiagPages" /\ residue'
    BY <1>5 DEF Diag
  <2>. QED  BY <2>1 DEF GlassInv, ShownInRtc, ShownInCycle, ShownIfValid, PaintedAndHeld,
                FlagsAgree
<1>. QED  BY <1>1, <1>2, <1>3, <1>4, <1>5

\* runColdCycle and the wrong-password screen.
LEMMA ColdGlass ==
  ASSUME TypeOK, GlassInv, ColdCycle \/ AuthScreen \/ AuthSleep
  PROVE  GlassInv'
<1>. USE DEF clockVars, slotVars, panelVars, localVars, flowVars
<1>1. CASE Cold
  <2>1. pc = "Cold" /\ pc' = "ColdConnect" /\ UNCHANGED <<meta, rtc, store, residue>>
    BY <1>1 DEF Cold, PaintFull
  <2>2. CASE BootScreenWanted
    <3>1. ~meta.framebuffer_valid /\ ~rtc.framebuffer_valid
      BY <2>1, <2>2 DEF BootScreenWanted, GlassInv, FlagsAgree, TypeOK, Metas
    <3>. QED  BY <2>1, <3>1 DEF GlassInv, ShownInRtc, ShownInCycle, ShownIfValid,
                  PaintedAndHeld, FlagsAgree
  <2>3. CASE ~BootScreenWanted
    <3>1. glass' = glass
      BY <1>1, <2>3 DEF Cold
    <3>. QED  BY <2>1, <3>1, GlassUntouched DEF Settled, Unrecorded, InCycle
  <2>. QED  BY <2>2, <2>3
<1>2. CASE ColdConnect \/ ColdFetch
  <2>1. /\ pc \in {"ColdConnect", "ColdFetch"}
        /\ pc' \in {"ColdFetch", "ColdNoNet", "AuthScreen", "ColdBootCheck"}
        /\ UNCHANGED <<rtc, store, glass, residue>>
    BY <1>2 DEF ColdConnect, ColdFetch
  <2>2. meta'.framebuffer_valid = meta.framebuffer_valid
    BY <1>2, ColdMeta DEF SameCount
  <2>. QED  BY <2>1, <2>2, GlassUntouched DEF Settled, Unrecorded, InCycle
<1>3. CASE ColdNoNet \/ AuthScreen \/ ColdBootCheck
  <2>1. pc' \in {"ColdFinish", "ColdNoNetSleep", "AuthSleep"}
    BY <1>3 DEF ColdNoNet, AuthScreen, ColdBootCheck
  <2>. QED  BY <2>1, GlassUnsaved
<1>4. CASE ColdNoNetSleep
  <2>1. pc' = "Asleep" /\ rtc' = AfterNoNet(meta)
    BY <1>4 DEF ColdNoNetSleep, SaveMeta, DeepSleep
  <2>2. ~rtc'.framebuffer_valid
    BY <2>1, CountTypes DEF AfterNoNet, Metas
  <2>. QED  BY <2>1, <2>2, GlassDropped
<1>5. CASE AuthSleep
  <2>1. pc' = "Asleep" /\ rtc' = AfterAuthScreen(meta)
    BY <1>5 DEF AuthSleep, SaveMeta, DeepSleep
  <2>2. ~rtc'.framebuffer_valid
    BY <2>1, CountTypes DEF AfterAuthScreen, Metas
  <2>. QED  BY <2>1, <2>2, GlassDropped
<1>6. CASE ColdFinish
  <2>1. pc' = "ColdSave" /\ PaintFull(curr')
    BY <1>6 DEF ColdFinish
  <2>. QED  BY <2>1, GlassPainted
<1>7. CASE ColdSave
  <2>1. /\ pc = "ColdSave" /\ pc' = "Sleep" /\ UNCHANGED <<glass, residue>>
        /\ store' = curr \/ store' = NoFrame
    BY <1>7 DEF ColdSave, SaveUnchecked, SaveFramebuffer
  <2>2. glass = curr
    BY <2>1 DEF GlassInv, PaintedAndHeld
  <2>. QED  BY <2>1, <2>2, GlassSaved
<1>. QED  BY <1>1, <1>2, <1>3, <1>4, <1>5, <1>6, <1>7 DEF ColdCycle

\* A push leaves curr on the glass, or residue: the windowed update rests on
\* the stored frame being there and on the panel's RAM.
LEMMA PushShows ==
  ASSUME TypeOK, GlassInv, Push
  PROVE  ~residue' => glass' = curr'
<1>1. PICK f : curr' = f /\ Draw(PlanFor(f), f)
  BY DEF Push
<1>2. Loadable => ShownIfValid(meta)
  BY DEF Push, GlassInv, ShownInCycle, Settled, Unrecorded, InCycle
<1>3. CASE PlanFor(f) = "LightFull"
  BY <1>1, <1>3 DEF Draw, PaintFull
<1>4. CASE PlanFor(f) = "Partial"
  <2>1. Loadable
    BY <1>4 DEF PlanFor, PlanRefresh
  <2>2. glass' \in AfterPartial(f) /\ residue' = (residue \/ ~panelRam)
    BY <1>1, <1>4 DEF Draw
  <2>3. ASSUME ~residue' PROVE glass' = f
    <3>1. ~residue /\ panelRam
      BY <2>2, <2>3 DEF TypeOK
    <3>2. glass = store
      BY <2>1, <3>1, <1>2 DEF ShownIfValid, Loadable
    <3>. QED  BY <2>2, <3>1, <3>2 DEF AfterPartial
  <2>. QED  BY <2>3, <1>1
<1>5. CASE PlanFor(f) = "None"
  <2>1. Loadable /\ store = f /\ glass' = glass /\ residue' = residue
    BY <1>1, <1>5 DEF PlanFor, PlanRefresh, Draw, panelVars
  <2>. QED  BY <2>1, <1>1, <1>2 DEF ShownIfValid, Loadable
<1>. QED  BY <1>3, <1>4, <1>5, PlanForValues

\* runWarmCycle, the rescue fetch and the sleep.
LEMMA WarmGlass ==
  ASSUME TypeOK, GlassInv, WarmCycle \/ SleepOrLoop
  PROVE  GlassInv'
<1>. USE DEF clockVars, slotVars, panelVars, localVars, flowVars
<1>1. CASE Warm \/ Decide \/ RescueStart \/ RescueTurn \/ RescueStop \/ RescueWait \/ Schedule
  <2>1. /\ pc \in {"Warm", "Decide", "Schedule", "RescueStart", "Rescue", "RescueTry"}
        /\ pc' \in {"Clock", "WifiDown", "AuthScreen", "Decide", "Nightly", "Push", "RescueStart",
                    "Rescue", "RescueTry", "Sleep"}
        /\ UNCHANGED <<meta, rtc, store, glass, residue>>
    BY <1>1 DEF Warm, Decide, Schedule, RescueStart, RescueTurn, RescueStop, RescueWait
  <2>. QED  BY <2>1, GlassUntouched DEF Settled, Unrecorded, InCycle
<1>2. CASE ClockOk \/ Fetch \/ RescueRetry
  <2>1. /\ pc \in {"Clock", "Fetch", "RescueTry"} /\ pc' \in {"Fetch", "Schedule", "Push", "Rescue"}
        /\ UNCHANGED <<rtc, store, glass, residue>>
    BY <1>2 DEF ClockOk, Fetch, RescueRetry
  <2>2. meta'.framebuffer_valid = meta.framebuffer_valid
    <3>1. CASE ClockOk
      BY <3>1, WarmMeta DEF SameCount
    <3>2. CASE Fetch
      <4>1. now' \in Nat
        BY <3>2, ElapseType, WorldFacts DEF Fetch
      <4>. QED  BY <3>2, <4>1, FetchCycleFacts DEF Fetch, SameCount
    <3>3. CASE RescueRetry
      BY <3>3, RescueRetryFacts DEF SameCount
    <3>. QED  BY <1>2, <3>1, <3>2, <3>3
  <2>. QED  BY <2>1, <2>2, GlassUntouched DEF Settled, Unrecorded, InCycle
<1>3. CASE OfflineSleep \/ ClockLost
  <2>1. /\ pc \in {"OfflineSleep", "Clock"} /\ pc' = "Asleep"
        /\ UNCHANGED <<rtc, store, glass, residue>>
    BY <1>3 DEF OfflineSleep, ClockLost, DeepSleep
  <2>. QED  BY <2>1, GlassUntouched DEF Settled, Unrecorded, InCycle
<1>4. CASE WifiDown
  <2>1. pc = "WifiDown" /\ UNCHANGED <<rtc, store, glass, residue>>
    BY <1>4 DEF WifiDown, DeepSleep
  <2>2. \/ pc' = "Asleep"
        \/ pc' = "Push" /\ meta' = meta
    BY <1>4, WifiDownFacts
  <2>. QED  BY <2>1, <2>2, GlassUntouched DEF Settled, Unrecorded, InCycle
<1>5. CASE Nightly
  <2>1. pc' = "NightlySave" /\ PaintFull(curr')
    BY <1>5 DEF Nightly
  <2>. QED  BY <2>1, GlassPainted
<1>6. CASE NightlySave \/ PushSave
  <2>1. /\ pc \in {"NightlySave", "PushSave"} /\ pc' \in {"Sleep", "OfflineSleep", "RescueStart"}
        /\ UNCHANGED <<glass, residue>> /\ (store' = curr \/ store' = NoFrame)
    BY <1>6 DEF NightlySave, SaveUnchecked, PushSave, SaveFramebuffer
  <2>2. residue \/ glass = curr
    BY <2>1 DEF GlassInv, PaintedAndHeld
  <2>. QED  BY <2>1, <2>2, GlassSaved
<1>7. CASE Push
  <2>1. pc' = "PushSave"
    BY <1>7 DEF Push
  <2>2. ~residue' => glass' = curr'
    BY <1>7, PushShows
  <2>. QED  BY <2>1, <2>2 DEF GlassInv, ShownInRtc, ShownInCycle, PaintedAndHeld, FlagsAgree,
                Settled, Unrecorded
<1>8. CASE SleepOrLoop
  <2>1. /\ pc = "Sleep" /\ pc' \in {"Asleep", "Paused"} /\ UNCHANGED <<store, glass, residue>>
        /\ rtc'.framebuffer_valid = meta.framebuffer_valid
    BY <1>8, SleepFacts DEF SleepOrLoop, SaveMeta, DeepSleep, SameCount
  <2>2. ShownIfValid(meta)
    BY <2>1 DEF GlassInv, ShownInCycle, Settled, Unrecorded, InCycle
  <2>. QED  BY <2>1, <2>2 DEF GlassInv, ShownInRtc, ShownInCycle, ShownIfValid, PaintedAndHeld,
                FlagsAgree, InCycle
<1>. QED  BY <1>1, <1>2, <1>3, <1>4, <1>5, <1>6, <1>7, <1>8 DEF WarmCycle

\* Waking up, resets and the clock.
LEMMA EnvironmentGlass ==
  ASSUME TypeOK, GlassInv, Environment
  PROVE  GlassInv'
<1>. USE DEF clockVars, slotVars, panelVars, localVars, flowVars
<1>1. CASE WakeByTimer \/ WakeByButton \/ \E pressed \in BOOLEAN : PauseEnds(pressed)
  <2>1. /\ pc \in {"Asleep", "Paused"} /\ pc' \in {"Setup", "Loop"}
        /\ UNCHANGED <<rtc, store, glass, residue>>
    BY <1>1 DEF WakeByTimer, WakeByButton, PauseEnds, StartSetup
  <2>. QED  BY <2>1, GlassUntouched DEF Settled, Unrecorded, InCycle
<1>2. CASE \E reason \in World.resets \ {"PowerLoss"} : Reset(reason)
  <2>1. /\ pc' = "Setup" /\ UNCHANGED <<rtc, store, glass>>
        /\ residue' = (residue \/ pc \in Unrecorded)
    BY <1>2 DEF Reset, StartSetup
  <2>. QED  BY <2>1 DEF GlassInv, ShownInRtc, ShownInCycle, ShownIfValid, PaintedAndHeld,
                FlagsAgree, Settled, InCycle
<1>3. CASE PowerLoss
  <2>1. pc' = "Setup" /\ ~rtc'.framebuffer_valid
    BY <1>3 DEF PowerLoss, MetaZero
  <2>. QED  BY <2>1, GlassDropped
<1>4. CASE SntpSetsClock \/ HorizonReached
  <2>1. UNCHANGED <<meta, rtc, store, curr, pc, glass, residue>>
    BY <1>4 DEF SntpSetsClock, HorizonReached, vars
  <2>. QED  BY <2>1 DEF GlassInv, ShownInRtc, ShownInCycle, ShownIfValid, PaintedAndHeld,
                FlagsAgree, Settled, InCycle, Loadable
<1>. QED  BY <1>1, <1>2, <1>3, <1>4 DEF Environment

\* Together, every step.
LEMMA StepGlass ==
  ASSUME TypeOK, GlassInv, [Next]_vars
  PROVE  GlassInv'
<1>1. CASE UNCHANGED vars
  BY <1>1 DEF vars, GlassInv, ShownInRtc, ShownInCycle, ShownIfValid, PaintedAndHeld,
     FlagsAgree, Settled, InCycle, Loadable
<1>2. CASE Next
  BY <1>2, FrontGlass, ColdGlass, WarmGlass, EnvironmentGlass DEF Next, Device
<1>. QED  BY <1>1, <1>2

(***************************************************************************)
(* The theorem.                                                            *)
(***************************************************************************)
\* In every behaviour a stored frame that claims to be valid is, between
\* cycles, what the glass shows, residue aside: what the windowed refresh and
\* the identical-frame skip rest on.
THEOREM GlassStaysFaithful == Spec => []GlassFaithful
<1>1. TypeOK /\ GlassInv /\ [Next]_vars => GlassInv'
  BY StepGlass
<1>2. GlassInv => GlassFaithful
  BY DEF GlassInv, ShownInRtc, ShownIfValid, Settled, Unrecorded, GlassFaithful, Resting
<1>. QED  BY InitGlassInv, <1>1, <1>2, TypeCorrect, PTL DEF Spec

(***************************************************************************)
(* The boot picture.                                                       *)
(***************************************************************************)
\* It is none of the boards and none of the no-network screens.
BootIsNoBoard == "Boot" \notin World.boards \cup World.scans

\* A valid frame is the boot picture if that is on the glass: otherwise the
\* windowed refresh of another frame would leave the picture there.
BootIfShown(m) ==
  glass.body = "Boot" /\ m.framebuffer_valid /\ store # NoFrame => store.body = "Boot"

BootInRtc == Settled /\ ~(pc = "Setup" /\ Overlay) => BootIfShown(rtc)
BootInCycle == Settled /\ InCycle => BootIfShown(meta)
BootHeld ==
  pc \in {"ColdSave", "NightlySave", "BwSave", "PushSave"} /\ glass.body = "Boot"
    => curr.body = "Boot"

\* The state a cycle shows, and the route to the cold cycle, speak of the data.
BootState ==
  pc \in {"Schedule", "Decide", "Nightly", "Push"} /\ fc.state = "Boot" => ~meta.has_any_data
ColdRoute == pc = "Cold" => meta.cold_boot_retries > 0 \/ ~meta.has_any_data

BootInv == BootInRtc /\ BootInCycle /\ BootHeld /\ BootState /\ ColdRoute

\* Steps that leave glass and slot alone.
LEMMA BootUntouched ==
  ASSUME BootInv, Settled, ~(pc = "Setup" /\ Overlay), UNCHANGED <<rtc, store, glass>>,
         InCycle' => InCycle /\ meta'.framebuffer_valid = meta.framebuffer_valid,
         pc' \notin {"ColdSave", "NightlySave", "BwSave", "PushSave", "Cold"},
         BootState'
  PROVE  BootInv'
<1>1. BootInRtc'
  BY DEF BootInv, BootInRtc, BootIfShown
<1>2. BootInCycle'
  BY DEF BootInv, BootInCycle, BootIfShown, Settled
<1>. QED  BY <1>1, <1>2 DEF BootInv, BootHeld, ColdRoute

\* A paint ahead of its save.
LEMMA BootUnsaved ==
  ASSUME \/ pc' \in {"ColdFinish", "ColdNoNetSleep", "AuthSleep"}
         \/ /\ pc' \in {"ColdSave", "NightlySave", "BwSave", "PushSave"}
            /\ glass'.body = "Boot" => curr'.body = "Boot"
  PROVE  BootInv'
BY DEF BootInv, BootInRtc, BootInCycle, BootHeld, BootState, ColdRoute, Settled, Unrecorded

\* The save.
LEMMA BootSaved ==
  ASSUME BootInv, pc \in {"ColdSave", "NightlySave", "BwSave", "PushSave"},
         store' = curr \/ store' = NoFrame, UNCHANGED glass,
         pc' \in {"Warm", "Sleep", "OfflineSleep", "RescueStart"}
  PROVE  BootInv'
BY DEF BootInv, BootInRtc, BootInCycle, BootHeld, BootIfShown, BootState, ColdRoute

\* The end of a cycle whose frame is no longer valid.
LEMMA BootDropped ==
  ASSUME ~rtc'.framebuffer_valid, pc' \in {"Asleep", "Setup"}
  PROVE  BootInv'
BY DEF BootInv, BootInRtc, BootInCycle, BootHeld, BootIfShown, BootState, ColdRoute, InCycle

\* A glass without the picture claims nothing.
LEMMA BootElsewhere ==
  ASSUME glass'.body # "Boot", BootState', ColdRoute'
  PROVE  BootInv'
BY DEF BootInv, BootInRtc, BootInCycle, BootHeld, BootIfShown

\* Only a device without a board shows the boot state.
LEMMA BootStateIsDataless ==
  /\ \A m, link, t : StateOf(m, link, t) = "Boot" => ~m.has_any_data
  /\ \A r, m, outcome : FetchCycle(r, m, outcome) /\ r.state = "Boot" => ~m.has_any_data
<1>1. \A m, link, t : StateOf(m, link, t) = "Boot" => ~m.has_any_data
  BY DEF StateOf, SelectDisplayState
<1>2. ASSUME NEW r, NEW m, NEW outcome, FetchCycle(r, m, outcome), r.state = "Boot"
      PROVE  ~m.has_any_data
  <2>1. \E link : r.state = StateOf(m, link, Reading')
    BY <1>2 DEF FetchCycle
  <2>. QED  BY <1>1, <1>2, <2>1
<1>. QED  BY <1>1, <1>2

\* And only for that state the boot picture is drawn.
LEMMA BootBody ==
  ASSUME BootIsNoBoard, NEW state \in States, "Boot" \in Bodies(state)
  PROVE  state = "Boot"
<1>1. CASE state = "Normal"   BY <1>1 DEF Bodies, BootIsNoBoard
<1>2. CASE state = "Offline"  BY <1>2 DEF Bodies, BootIsNoBoard
<1>3. CASE state = "Auth"     BY <1>3 DEF Bodies
<1>. QED  BY <1>1, <1>2, <1>3 DEF States

\* A push shows the boot picture where curr is it, and paints it only without data.
LEMMA PushBoots ==
  ASSUME TypeOK, BootInv, BootIsNoBoard, Push
  PROVE  glass'.body = "Boot" =>
           /\ curr'.body = "Boot"
           /\ glass' # glass => ~meta.has_any_data
<1>1. PICK f : f.body \in Bodies(fc.state) /\ curr' = f /\ Draw(PlanFor(f), f)
  BY DEF Push, Frame
<1>2. Loadable => BootIfShown(meta)
  BY DEF Push, BootInv, BootInCycle, Settled, Unrecorded, InCycle
<1>3. f.body = "Boot" => ~meta.has_any_data
  <2>1. fc.state \in States
    BY DEF TypeOK, FetchResults
  <2>2. f.body = "Boot" => fc.state = "Boot"
    BY <1>1, <2>1, BootBody
  <2>. QED  BY <2>2 DEF Push, BootInv, BootState
<1>4. CASE PlanFor(f) = "LightFull"
  BY <1>1, <1>3, <1>4 DEF Draw, PaintFull
<1>5. CASE PlanFor(f) = "Partial"
  <2>1. Loadable /\ glass' \in AfterPartial(f)
    BY <1>1, <1>5 DEF PlanFor, PlanRefresh, Draw
  <2>2. CASE glass' = f
    BY <2>2, <1>1, <1>3
  <2>3. CASE glass' = Frame("Garbled", f.stamp)
    BY <2>3 DEF Frame
  <2>4. CASE store.body = f.body /\ glass' = [glass EXCEPT !.stamp = f.stamp]
    <3>1. glass'.body = glass.body
      BY <2>4 DEF TypeOK, Frames
    <3>. QED  BY <2>1, <2>4, <3>1, <1>1, <1>2, <1>3 DEF BootIfShown, Loadable
  <2>. QED  BY <2>1, <2>2, <2>3, <2>4 DEF AfterPartial
<1>6. CASE PlanFor(f) = "None"
  <2>1. Loadable /\ store = f /\ glass' = glass
    BY <1>1, <1>6 DEF PlanFor, PlanRefresh, Draw, panelVars
  <2>. QED  BY <2>1, <1>1, <1>2 DEF BootIfShown, Loadable
<1>. QED  BY <1>4, <1>5, <1>6, PlanForValues

\* setup(), loop(), the button and its sessions, and the way out of a cycle.
LEMMA FrontBoot ==
  ASSUME TypeOK, GlassInv, BootInv,
         Setup \/ Loop \/ Press \/ BwReset \/ BwSave \/ Diag \/ DiagExit \/ AuthScreen \/ AuthSleep
  PROVE  BootInv'
<1>. USE DEF clockVars, slotVars, panelVars, localVars, flowVars
<1>1. CASE Setup /\ Overlay
  <2>1. /\ pc' \in {"Press", "Cold", "Warm"} /\ glass'.body # "Boot" /\ meta' = rtc
        /\ pc' = "Cold" => rtc.cold_boot_retries > 0 \/ ~rtc.has_any_data
    BY <1>1 DEF Setup, SelectCycle, PaintFull, Frame
  <2>. QED  BY <2>1, BootElsewhere DEF BootState, ColdRoute
<1>2. CASE (Setup /\ ~Overlay) \/ Loop
  <2>1. /\ pc \in {"Setup", "Loop"} /\ pc' \in {"Press", "Cold", "Warm"}
        /\ meta' = rtc /\ UNCHANGED <<rtc, store, glass>> /\ ~(pc = "Setup" /\ Overlay)
        /\ pc' = "Cold" => rtc.cold_boot_retries > 0 \/ ~rtc.has_any_data
    BY <1>2 DEF Setup, Loop, SelectCycle
  <2>2. BootIfShown(rtc)
    BY <2>1 DEF BootInv, BootInRtc, Settled, Unrecorded
  <2>. QED  BY <2>1, <2>2 DEF BootInv, BootInRtc, BootInCycle, BootIfShown, BootHeld, BootState,
                ColdRoute
<1>3. CASE Press \/ DiagExit
  <2>1. /\ pc \in {"Press", "DiagPages"} /\ pc' \in {"BwReset", "Diag", "Warm"}
        /\ UNCHANGED <<meta, rtc, store, glass>>
    BY <1>3 DEF Press, DiagExit
  <2>. QED  BY <2>1, BootUntouched DEF Settled, Unrecorded, InCycle, BootState
<1>4. CASE BwReset
  <2>1. pc' = "BwSave" /\ glass' = curr'
    BY <1>4 DEF BwReset, PaintFull
  <2>. QED  BY <2>1, BootUnsaved
<1>5. CASE BwSave
  <2>1. /\ pc = "BwSave" /\ pc' = "Warm" /\ UNCHANGED glass
        /\ \/ Loadable /\ store' = store
           \/ store' = curr \/ store' = NoFrame
    BY <1>5 DEF BwSave
  <2>2. Loadable => curr = store
    BY <2>1 DEF GlassInv, PaintedAndHeld
  <2>. QED  BY <2>1, <2>2, BootSaved
<1>6. CASE Diag
  <2>1. pc' = "DiagPages" /\ glass'.body # "Boot"
    BY <1>6 DEF Diag, PaintFull, Frame
  <2>. QED  BY <2>1, BootElsewhere DEF BootState, ColdRoute
<1>7. CASE AuthScreen
  <2>1. pc' = "AuthSleep"
    BY <1>7 DEF AuthScreen
  <2>. QED  BY <2>1, BootUnsaved
<1>8. CASE AuthSleep
  <2>1. pc' = "Asleep" /\ rtc' = AfterAuthScreen(meta)
    BY <1>8 DEF AuthSleep, SaveMeta, DeepSleep
  <2>2. ~rtc'.framebuffer_valid
    BY <2>1, CountTypes DEF AfterAuthScreen, Metas
  <2>. QED  BY <2>1, <2>2, BootDropped
<1>. QED  BY <1>1, <1>2, <1>3, <1>4, <1>5, <1>6, <1>7, <1>8

\* runColdCycle.
LEMMA ColdBoot ==
  ASSUME TypeOK, GlassInv, BootInv, ColdCycle
  PROVE  BootInv'
<1>. USE DEF clockVars, slotVars, panelVars, localVars, flowVars
<1>1. CASE Cold
  <2>1. pc = "Cold" /\ pc' = "ColdConnect" /\ UNCHANGED <<meta, rtc, store>>
    BY <1>1 DEF Cold, PaintFull
  <2>2. CASE BootScreenWanted
    <3>1. ~meta.framebuffer_valid /\ ~rtc.framebuffer_valid
      BY <2>1, <2>2 DEF BootScreenWanted, GlassInv, FlagsAgree, TypeOK, Metas
    <3>. QED  BY <2>1, <3>1 DEF BootInv, BootInRtc, BootInCycle, BootIfShown, BootHeld, BootState,
                  ColdRoute
  <2>3. CASE ~BootScreenWanted
    <3>1. glass' = glass
      BY <1>1, <2>3 DEF Cold
    <3>. QED  BY <2>1, <3>1, BootUntouched DEF Settled, Unrecorded, InCycle, BootState
  <2>. QED  BY <2>2, <2>3
<1>2. CASE ColdConnect \/ ColdFetch
  <2>1. /\ pc \in {"ColdConnect", "ColdFetch"}
        /\ pc' \in {"ColdFetch", "ColdNoNet", "AuthScreen", "ColdBootCheck"}
        /\ UNCHANGED <<rtc, store, glass>>
    BY <1>2 DEF ColdConnect, ColdFetch
  <2>2. meta'.framebuffer_valid = meta.framebuffer_valid
    BY <1>2, ColdMeta DEF SameCount
  <2>. QED  BY <2>1, <2>2, BootUntouched DEF Settled, Unrecorded, InCycle, BootState
<1>3. CASE ColdNoNet \/ ColdBootCheck
  <2>1. pc' \in {"ColdFinish", "ColdNoNetSleep", "AuthSleep"}
    BY <1>3 DEF ColdNoNet, ColdBootCheck
  <2>. QED  BY <2>1, BootUnsaved
<1>4. CASE ColdNoNetSleep
  <2>1. pc' = "Asleep" /\ rtc' = AfterNoNet(meta)
    BY <1>4 DEF ColdNoNetSleep, SaveMeta, DeepSleep
  <2>2. ~rtc'.framebuffer_valid
    BY <2>1, CountTypes DEF AfterNoNet, Metas
  <2>. QED  BY <2>1, <2>2, BootDropped
<1>5. CASE ColdFinish
  <2>1. pc' = "ColdSave" /\ glass' = curr'
    BY <1>5 DEF ColdFinish, PaintFull
  <2>. QED  BY <2>1, BootUnsaved
<1>6. CASE ColdSave
  <2>1. /\ pc = "ColdSave" /\ pc' = "Sleep" /\ UNCHANGED glass
        /\ store' = curr \/ store' = NoFrame
    BY <1>6 DEF ColdSave, SaveUnchecked, SaveFramebuffer
  <2>. QED  BY <2>1, BootSaved
<1>. QED  BY <1>1, <1>2, <1>3, <1>4, <1>5, <1>6 DEF ColdCycle

\* runWarmCycle, the rescue fetch and the sleep.
LEMMA WarmBoot ==
  ASSUME TypeOK, BootInv, BootIsNoBoard, WarmCycle \/ SleepOrLoop
  PROVE  BootInv'
<1>. USE DEF clockVars, slotVars, panelVars, localVars, flowVars
<1>1. CASE Warm \/ RescueStart \/ RescueTurn \/ RescueStop \/ RescueWait
  <2>1. /\ pc \in {"Warm", "RescueStart", "Rescue", "RescueTry"}
        /\ pc' \in {"Clock", "WifiDown", "AuthScreen", "Rescue", "RescueTry", "Sleep"}
        /\ UNCHANGED <<meta, rtc, store, glass>>
    BY <1>1 DEF Warm, RescueStart, RescueTurn, RescueStop, RescueWait
  <2>. QED  BY <2>1, BootUntouched DEF Settled, Unrecorded, InCycle, BootState
<1>2. CASE Schedule \/ Decide
  <2>1. /\ pc \in {"Schedule", "Decide"} /\ pc' \in {"Decide", "Nightly", "Push", "RescueStart"}
        /\ UNCHANGED <<meta, rtc, store, glass>>
    BY <1>2 DEF Schedule, Decide
  <2>2. fc'.state = fc.state
    BY <1>2, ScheduleFacts DEF Decide
  <2>3. BootState'
    BY <2>1, <2>2 DEF BootInv, BootState
  <2>. QED  BY <2>1, <2>3, BootUntouched DEF Settled, Unrecorded, InCycle
<1>3. CASE ClockOk
  <2>1. pc = "Clock" /\ pc' = "Fetch" /\ UNCHANGED <<rtc, store, glass>>
    BY <1>3 DEF ClockOk
  <2>2. meta'.framebuffer_valid = meta.framebuffer_valid
    BY <1>3, WarmMeta DEF SameCount
  <2>. QED  BY <2>1, <2>2, BootUntouched DEF Settled, Unrecorded, InCycle, BootState
<1>4. CASE Fetch
  <2>1. pc = "Fetch" /\ pc' = "Schedule" /\ UNCHANGED <<rtc, store, glass>>
    BY <1>4 DEF Fetch
  <2>2. now' \in Nat
    BY <1>4, ElapseType, WorldFacts DEF Fetch
  <2>3. PICK outcome : FetchCycle(fc', meta', outcome)
    BY <1>4 DEF Fetch
  <2>4. meta'.framebuffer_valid = meta.framebuffer_valid
    BY <2>2, <2>3, FetchCycleFacts DEF SameCount
  <2>5. BootState'
    BY <2>3, BootStateIsDataless DEF BootState
  <2>. QED  BY <2>1, <2>4, <2>5, BootUntouched DEF Settled, Unrecorded, InCycle
<1>5. CASE RescueRetry
  <2>1. pc = "RescueTry" /\ UNCHANGED <<rtc, store, glass>>
    BY <1>5 DEF RescueRetry
  <2>2. meta'.framebuffer_valid = meta.framebuffer_valid /\ pc' \in {"Push", "Rescue"}
    BY <1>5, RescueRetryFacts DEF SameCount
  <2>3. pc' = "Push" => \E outcome : FetchCycle(fc', meta', outcome)
    BY <1>5 DEF RescueRetry
  <2>4. BootState'
    BY <2>2, <2>3, BootStateIsDataless DEF BootState
  <2>. QED  BY <2>1, <2>2, <2>4, BootUntouched DEF Settled, Unrecorded, InCycle
<1>6. CASE OfflineSleep \/ ClockLost
  <2>1. /\ pc \in {"OfflineSleep", "Clock"} /\ pc' = "Asleep"
        /\ UNCHANGED <<rtc, store, glass>>
    BY <1>6 DEF OfflineSleep, ClockLost, DeepSleep
  <2>. QED  BY <2>1, BootUntouched DEF Settled, Unrecorded, InCycle, BootState
<1>7. CASE WifiDown
  <2>1. pc = "WifiDown" /\ UNCHANGED <<rtc, store, glass>>
    BY <1>7 DEF WifiDown, DeepSleep
  <2>2. \/ pc' = "Asleep"
        \/ pc' = "Push" /\ fc'.state = "Offline" /\ meta' = meta
    BY <1>7, WifiDownFacts
  <2>. QED  BY <2>1, <2>2, BootUntouched DEF Settled, Unrecorded, InCycle, BootState
<1>8. CASE Nightly
  <2>1. pc' = "NightlySave" /\ glass' = curr'
    BY <1>8 DEF Nightly, PaintFull
  <2>. QED  BY <2>1, BootUnsaved
<1>9. CASE NightlySave \/ PushSave
  <2>1. /\ pc \in {"NightlySave", "PushSave"} /\ pc' \in {"Sleep", "OfflineSleep", "RescueStart"}
        /\ UNCHANGED glass /\ (store' = curr \/ store' = NoFrame)
    BY <1>9 DEF NightlySave, SaveUnchecked, PushSave, SaveFramebuffer
  <2>. QED  BY <2>1, BootSaved
<1>10. CASE Push
  <2>1. pc' = "PushSave"
    BY <1>10 DEF Push
  <2>2. glass'.body = "Boot" => curr'.body = "Boot"
    BY <1>10, PushBoots
  <2>. QED  BY <2>1, <2>2, BootUnsaved
<1>11. CASE SleepOrLoop
  <2>1. /\ pc = "Sleep" /\ pc' \in {"Asleep", "Paused"} /\ UNCHANGED <<store, glass>>
        /\ rtc'.framebuffer_valid = meta.framebuffer_valid
    BY <1>11, SleepFacts DEF SleepOrLoop, SaveMeta, DeepSleep, SameCount
  <2>2. BootIfShown(meta)
    BY <2>1 DEF BootInv, BootInCycle, Settled, Unrecorded, InCycle
  <2>. QED  BY <2>1, <2>2 DEF BootInv, BootInRtc, BootInCycle, BootIfShown, BootHeld, BootState,
                ColdRoute, InCycle
<1>. QED  BY <1>1, <1>2, <1>3, <1>4, <1>5, <1>6, <1>7, <1>8, <1>9, <1>10, <1>11 DEF WarmCycle

\* Waking up, resets and the clock.
LEMMA EnvironmentBoot ==
  ASSUME TypeOK, BootInv, OverlayShown, Environment \/ UNCHANGED vars
  PROVE  BootInv'
<1>. USE DEF clockVars, slotVars, panelVars, localVars, flowVars
<1>1. CASE WakeByTimer \/ WakeByButton \/ \E pressed \in BOOLEAN : PauseEnds(pressed)
  <2>1. /\ pc \in {"Asleep", "Paused"} /\ pc' \in {"Setup", "Loop"}
        /\ UNCHANGED <<rtc, store, glass>>
    BY <1>1 DEF WakeByTimer, WakeByButton, PauseEnds, StartSetup
  <2>. QED  BY <2>1, BootUntouched DEF Settled, Unrecorded, InCycle, BootState
<1>2. CASE \E reason \in World.resets \ {"PowerLoss"} : Reset(reason)
  <2>1. PICK reason \in World.resets \ {"PowerLoss"} : Reset(reason)
    BY <1>2
  <2>2. pc' = "Setup" /\ wake'.reason = reason
    BY <2>1 DEF Reset, StartSetup
  <2>3. Overlay'
    BY <2>1, <2>2, WorldFacts DEF Overlay, OverlayShown
  <2>. QED  BY <2>2, <2>3 DEF BootInv, BootInRtc, BootInCycle, BootHeld, BootState, ColdRoute,
                InCycle
<1>3. CASE PowerLoss
  <2>1. pc' = "Setup" /\ ~rtc'.framebuffer_valid
    BY <1>3 DEF PowerLoss, MetaZero
  <2>. QED  BY <2>1, BootDropped
<1>4. CASE SntpSetsClock \/ HorizonReached \/ UNCHANGED vars
  <2>1. UNCHANGED <<meta, rtc, store, curr, pc, glass, fc, wake>>
    BY <1>4 DEF SntpSetsClock, HorizonReached, vars
  <2>. QED  BY <2>1 DEF BootInv, BootInRtc, BootInCycle, BootIfShown, BootHeld, BootState,
                ColdRoute, Settled, InCycle, Overlay
<1>. QED  BY <1>1, <1>2, <1>3, <1>4 DEF Environment

\* A paint of the boot picture happens without data.
LEMMA BootPaints ==
  ASSUME TypeOK, BootInv, BootIsNoBoard, Next, glass'.body = "Boot", glass' # glass, pc # "BwReset"
  PROVE  ~meta.has_any_data
<1>. USE DEF clockVars, slotVars, panelVars, localVars, flowVars
<1>1. CASE Setup \/ Diag \/ AuthScreen \/ ColdBootCheck \/ ColdNoNet
  BY <1>1 DEF Setup, Diag, AuthScreen, ColdBootCheck, ColdNoNet, PaintFull, Frame, BootIsNoBoard
<1>2. CASE Cold
  BY <1>2 DEF Cold, BootScreenWanted, BootInv, ColdRoute, TypeOK, Metas
<1>3. CASE ColdFinish
  <2>1. PICK link \in World.link : "Boot" \in Bodies(StateOf(meta, link, Reading))
    BY <1>3 DEF ColdFinish, PaintFull, Frame
  <2>2. StateOf(meta, link, Reading) \in States
    BY <2>1, StateType, ReadingType, WorldFacts DEF TypeOK
  <2>. QED  BY <2>1, <2>2, BootBody, BootStateIsDataless
<1>4. CASE Nightly
  <2>1. pc = "Nightly" /\ "Boot" \in Bodies(fc.state)
    BY <1>4 DEF Nightly, PaintFull, Frame
  <2>2. fc.state \in States
    BY DEF TypeOK, FetchResults
  <2>3. fc.state = "Boot"
    BY <2>1, <2>2, BootBody
  <2>. QED  BY <2>1, <2>3 DEF BootInv, BootState
<1>5. CASE Push
  BY <1>5, PushBoots
<1>6. CASE BwReset
  BY <1>6 DEF BwReset
<1>7. CASE \/ Loop \/ Press \/ BwSave \/ DiagExit \/ AuthSleep \/ ColdConnect \/ ColdNoNetSleep
           \/ ColdFetch \/ ColdSave \/ Warm \/ WifiDown \/ OfflineSleep \/ ClockOk \/ ClockLost \/ Fetch
           \/ Schedule \/ Decide
  BY <1>7 DEF Loop, Press, BwSave, DiagExit, AuthSleep, ColdConnect, ColdNoNetSleep, ColdFetch,
     ColdSave, SaveUnchecked, Warm, WifiDown, OfflineSleep, ClockOk, ClockLost, Fetch, Schedule,
     Decide, DeepSleep
<1>8. CASE \/ NightlySave \/ PushSave \/ RescueStart \/ RescueTurn \/ RescueStop \/ RescueWait
           \/ RescueRetry \/ SleepOrLoop \/ Environment
  BY <1>8 DEF NightlySave, SaveUnchecked, PushSave, RescueStart, RescueTurn, RescueStop, RescueWait,
     RescueRetry, SleepOrLoop, DeepSleep, Environment, WakeByTimer, WakeByButton, PauseEnds, Reset,
     PowerLoss, StartSetup, SntpSetsClock, HorizonReached, vars
<1>. QED  BY <1>1, <1>2, <1>3, <1>4, <1>5, <1>6, <1>7, <1>8 DEF Next, Device, ColdCycle, WarmCycle

\* Power-on.
LEMMA InitBootInv == Init => BootInv
BY DEF Init, NoFrame, Frame, MetaZero, BootInv, BootInRtc, BootInCycle, BootIfShown, BootHeld,
   BootState, ColdRoute

\* Whatever resets, retries and presses lead there, the boot picture is painted
\* only while the device has never had a board, the B/W reset of a stored one
\* aside; on condition that a reset is answered by the overlay and that the
\* picture is no board (selectCycle, showBootScreen, selectDisplayState).
THEOREM BootPictureNeedsNoBoard ==
  OverlayShown /\ BootIsNoBoard => (Spec => BootScreenOnlyWithoutBoard)
<1>. SUFFICES ASSUME OverlayShown, BootIsNoBoard PROVE Spec => BootScreenOnlyWithoutBoard
  OBVIOUS
<1>1. TypeOK /\ GlassInv /\ [Next]_vars => GlassInv'
  BY StepGlass
<1>2. TypeOK /\ GlassInv /\ BootInv /\ [Next]_vars => BootInv'
  BY FrontBoot, ColdBoot, WarmBoot, EnvironmentBoot DEF Next, Device
<1>3. TypeOK /\ BootInv /\ [Next]_vars
        => [glass'.body = "Boot" /\ glass' # glass /\ pc # "BwReset" => ~meta.has_any_data]_vars
  BY BootPaints
<1>. QED  BY InitGlassInv, InitBootInv, <1>1, <1>2, <1>3, TypeCorrect, PTL
          DEF Spec, BootScreenOnlyWithoutBoard

(***************************************************************************)
(* PART 4.  How old the "KEIN EMPFANG" screen may get, for every repaint   *)
(* interval and every modulus of the counter, also where the one does not  *)
(* divide the other, as 5 does not divide 256.                             *)
(***************************************************************************)

(***************************************************************************)
(* Remainders.                                                             *)
(***************************************************************************)
\* Quotient and remainder are unique.
LEMMA RemainderIs ==
  ASSUME NEW n \in Nat \ {0}, NEW x \in Nat, NEW q \in Nat, NEW r \in 0..(n - 1), x = n * q + r
  PROVE  x % n = r
<1>. DEFINE d == x \div n
            s == x % n
<1>1. d \in Int /\ s \in 0..(n - 1) /\ x = n * d + s
  OBVIOUS
<1>. HIDE DEF d, s
<1>2. n * (q - d) = s - r
  BY <1>1
<1>3. q - d <= 0
  <2>1. SUFFICES ASSUME q - d >= 1 PROVE FALSE
    BY <1>1
  <2>2. n * (q - d) >= n
    BY <1>1, <2>1
  <2>. QED  BY <1>1, <1>2, <2>2
<1>4. q - d >= 0
  <2>1. SUFFICES ASSUME d - q >= 1 PROVE FALSE
    BY <1>1
  <2>2. n * (d - q) >= n
    BY <1>1, <2>1
  <2>3. n * (d - q) = r - s
    BY <1>1
  <2>. QED  BY <1>1, <2>2, <2>3
<1>5. q = d
  BY <1>1, <1>3, <1>4
<1>6. s = r
  BY <1>1, <1>5
<1>. QED  BY <1>6 DEF s

\* The remainder of the next number.
LEMMA NextRemainder ==
  ASSUME NEW n \in Nat \ {0}, NEW c \in Nat
  PROVE  /\ c % n \in 0..(n - 1)
         /\ (c + 1) % n = IF (c % n) + 1 = n THEN 0 ELSE (c % n) + 1
<1>. DEFINE q == c \div n
            r == c % n
<1>1. q \in Nat /\ r \in 0..(n - 1) /\ c = n * q + r
  OBVIOUS
<1>. HIDE DEF q, r
<1>2. CASE r + 1 = n
  <2>1. c + 1 = n * (q + 1) + 0
    BY <1>1, <1>2
  <2>2. (c + 1) % n = 0
    BY <1>1, <2>1, RemainderIs
  <2>. QED  BY <1>1, <1>2, <2>2 DEF r
<1>3. CASE r + 1 # n
  <2>1. c + 1 = n * q + (r + 1) /\ r + 1 \in 0..(n - 1)
    BY <1>1, <1>3
  <2>2. (c + 1) % n = r + 1
    BY <1>1, <2>1, RemainderIs
  <2>. QED  BY <1>1, <1>3, <2>2 DEF r
<1>. QED  BY <1>2, <1>3

(***************************************************************************)
(* The inductive invariant.                                                *)
(***************************************************************************)
Every == Config.no_wifi_repaint_every

\* A counter that is past its last repaint has counted every cycle since it.
Counts(m) == m.no_wifi_cycles % Every # 0 => sincePaint <= m.no_wifi_cycles % Every

CadenceInv ==
  /\ sincePaint \in 0..Every
  /\ Counts(rtc) /\ Counts(meta)
  /\ pc = "ColdNoNetSleep" => sincePaint <= meta.no_wifi_cycles % Every

\* What the proofs read of the constants and the types.
LEMMA CadenceFacts ==
  /\ Every \in Nat \ {0} /\ Config.uint8_modulus \in Nat \ {0}
  /\ 0 % Every = 0
  /\ TypeOK => meta \in Metas /\ rtc \in Metas /\ meta.no_wifi_cycles \in Nat
                 /\ rtc.no_wifi_cycles \in Nat
<1>1. Every \in Nat \ {0} /\ Config.uint8_modulus \in Nat \ {0}
  BY ConfigAssumption DEF Every, Positive
<1>2. 0 % Every = 0
  BY <1>1
<1>3. ASSUME TypeOK
      PROVE  meta \in Metas /\ rtc \in Metas /\ meta.no_wifi_cycles \in Nat /\ rtc.no_wifi_cycles \in Nat
  BY <1>1, <1>3 DEF TypeOK, Metas
<1>. QED  BY <1>1, <1>2, <1>3

(***************************************************************************)
(* The counter outside the end of a cold cycle without WiFi.               *)
(***************************************************************************)
\* Updates of other fields.
LEMMA CountKept ==
  ASSUME NEW m \in Metas, NEW t, NEW u, NEW outcome, NEW auth, NEW b, NEW kind
  PROVE  /\ Fetched(m, outcome, auth, t).no_wifi_cycles = m.no_wifi_cycles
         /\ ColdBootDone(m).no_wifi_cycles = 0
         /\ [ColdBootDone(m) EXCEPT !.last_ntp_sync = t].no_wifi_cycles = 0
         /\ [m EXCEPT !.last_ntp_sync = t].no_wifi_cycles = m.no_wifi_cycles
         /\ [m EXCEPT !.framebuffer_valid = b].no_wifi_cycles = m.no_wifi_cycles
         /\ [m EXCEPT !.expected_wake_at = t].no_wifi_cycles = m.no_wifi_cycles
         /\ [m EXCEPT !.last_display_update = t].no_wifi_cycles = m.no_wifi_cycles
         /\ [m EXCEPT !.framebuffer_valid = TRUE, !.last_deep_clean = t, !.last_light_full = t,
                      !.partial_count = 0].no_wifi_cycles = m.no_wifi_cycles
BY DEF Fetched, ColdBootDone, Metas

LEMMA AppliedKeepsCount ==
  ASSUME NEW m \in Metas, NEW t, NEW kind \in {"None", "LightFull", "Partial"}
  PROVE  Applied(m, kind, t).no_wifi_cycles = m.no_wifi_cycles
BY DEF Applied, Metas

\* The counter of the working copy: kept, loaded or zero.
LEMMA MetaSources ==
  ASSUME TypeOK, Next
  PROVE  meta'.no_wifi_cycles \in {meta.no_wifi_cycles, rtc.no_wifi_cycles, 0}
<1>. USE CadenceFacts
<1>1. CASE meta' \in {meta, rtc} \/ Forget
  BY <1>1 DEF Forget, MetaZero
<1>2. CASE Setup \/ Loop \/ Press \/ BwReset \/ DiagExit \/ AuthSleep \/ Cold \/ ColdNoNet \/ ColdNoNetSleep
           \/ ColdBootCheck \/ Warm \/ WifiDown \/ OfflineSleep \/ ClockLost \/ Schedule \/ Decide
           \/ RescueStart \/ RescueTurn \/ RescueStop \/ RescueWait \/ SleepOrLoop \/ Environment
  BY <1>1, <1>2 DEF Setup, Loop, Press, BwReset, DiagExit, AuthSleep, Cold, ColdNoNet, ColdNoNetSleep,
     ColdBootCheck, Warm, WifiDown, OfflineSleep, ClockLost, Schedule, Decide, RescueStart, RescueTurn,
     RescueStop, RescueWait, SleepOrLoop, DeepSleep, Environment, WakeByTimer, WakeByButton, PauseEnds,
     Reset, PowerLoss, StartSetup, SntpSetsClock, HorizonReached, vars
<1>3. CASE \E outcome, auth : meta' = Fetched(meta, outcome, auth, Reading')
  <2>1. PICK outcome, auth : meta' = Fetched(meta, outcome, auth, Reading')
    BY <1>3
  <2>. QED  BY <2>1, CountKept
<1>4. CASE Diag \/ ColdFetch \/ Fetch \/ RescueRetry
  <2>1. meta' = meta \/ \E outcome, auth : meta' = Fetched(meta, outcome, auth, Reading')
    <3>1. CASE Diag          BY <3>1 DEF Diag
    <3>2. CASE ColdFetch     BY <3>2 DEF ColdFetch
    <3>3. CASE Fetch         BY <3>3 DEF Fetch, FetchCycle
    <3>4. CASE RescueRetry   BY <3>4 DEF RescueRetry, FetchCycle
    <3>. QED  BY <1>4, <3>1, <3>2, <3>3, <3>4
  <2>. QED  BY <1>1, <1>3, <2>1
<1>5. CASE ColdConnect
  <2>1. meta' = meta \/ meta' = [ColdBootDone(meta) EXCEPT !.last_ntp_sync = Reading']
    BY <1>5 DEF ColdConnect
  <2>2. CASE meta' = [ColdBootDone(meta) EXCEPT !.last_ntp_sync = Reading']
    BY <2>2, CountKept
  <2>. QED  BY <2>1, <2>2
<1>6. CASE AuthScreen
  BY <1>6, CountKept DEF AuthScreen
<1>7. CASE ClockOk
  <2>1. meta' = meta \/ meta' = [meta EXCEPT !.last_ntp_sync = Reading']
    BY <1>7 DEF ClockOk
  <2>2. CASE meta' = [meta EXCEPT !.last_ntp_sync = Reading']
    BY <2>2, CountKept
  <2>. QED  BY <2>1, <2>2
<1>8. CASE BwSave \/ ColdFinish \/ Nightly
  <2>1. meta \in Metas
    OBVIOUS
  <2>2. CASE BwSave
    <3>1. meta' = [meta EXCEPT !.framebuffer_valid = TRUE, !.last_deep_clean = Reading,
                               !.last_light_full = Reading, !.partial_count = 0]
      BY <2>2 DEF BwSave
    <3>. QED  BY <2>1, <3>1 DEF Metas
  <2>3. CASE ColdFinish
    <3>1. meta' = [meta EXCEPT !.last_display_update = Reading, !.last_deep_clean = Reading,
                               !.last_light_full = Reading]
      BY <2>3 DEF ColdFinish
    <3>. QED  BY <2>1, <3>1 DEF Metas
  <2>4. CASE Nightly
    <3>1. meta' = [meta EXCEPT !.last_display_update = planNow, !.last_deep_clean = planNow,
                               !.last_light_full = planNow, !.partial_count = 0]
      BY <2>4 DEF Nightly
    <3>. QED  BY <2>1, <3>1 DEF Metas
  <2>. QED  BY <1>8, <2>2, <2>3, <2>4
<1>9. CASE ColdSave \/ NightlySave \/ PushSave
  <2>1. PICK b : meta' = [meta EXCEPT !.framebuffer_valid = b]
    BY <1>9 DEF ColdSave, NightlySave, SaveUnchecked, PushSave
  <2>. QED  BY <2>1, CountKept
<1>10. CASE Push
  <2>. DEFINE stamped == [meta EXCEPT !.last_display_update = Reading]
  <2>1. PICK first, f : meta' = Applied(IF Restamped(first) THEN stamped ELSE meta,
                                        PlanFor(f), Reading)
    BY <1>10 DEF Push
  <2>2. stamped \in Metas /\ stamped.no_wifi_cycles = meta.no_wifi_cycles
    BY ReadingType, FieldTypes, CountKept
  <2>. HIDE DEF stamped
  <2>. QED  BY <2>1, <2>2, PlanForValues, AppliedKeepsCount
<1>. QED  BY <1>2, <1>4, <1>5, <1>6, <1>7, <1>8, <1>9, <1>10
          DEF Next, Device, ColdCycle, WarmCycle

\* The counter in RTC memory: kept, saved or zero.
LEMMA RtcSources ==
  ASSUME TypeOK, Next, ~ColdNoNetSleep
  PROVE  rtc'.no_wifi_cycles \in {meta.no_wifi_cycles, rtc.no_wifi_cycles, 0}
<1>. USE CadenceFacts
<1>1. CASE rtc' = rtc
  BY <1>1
<1>2. CASE \/ Setup \/ Loop \/ Press \/ BwReset \/ Diag \/ DiagExit \/ AuthScreen
           \/ Cold \/ ColdConnect \/ ColdNoNet \/ ColdFetch \/ ColdBootCheck \/ ColdFinish
           \/ Warm \/ WifiDown \/ OfflineSleep \/ ClockOk \/ ClockLost \/ Fetch \/ Schedule
           \/ Decide \/ Nightly \/ Push \/ RescueStart \/ RescueTurn \/ RescueStop \/ RescueWait
           \/ RescueRetry
  BY <1>1, <1>2 DEF Setup, Loop, Press, BwReset, Diag, DiagExit, AuthScreen, Cold, ColdConnect,
     ColdNoNet, ColdFetch, ColdBootCheck, ColdFinish, Warm, WifiDown, OfflineSleep, ClockOk,
     ClockLost, Fetch, Schedule, Decide, Nightly, Push, RescueStart, RescueTurn, RescueStop,
     RescueWait, RescueRetry, slotVars
<1>3. CASE BwSave
  BY <1>3, CountKept DEF BwSave
<1>4. CASE ColdSave \/ NightlySave \/ PushSave
  <2>1. PICK b : rtc' = [rtc EXCEPT !.framebuffer_valid = b]
    BY <1>4 DEF ColdSave, NightlySave, SaveUnchecked, PushSave, SaveFramebuffer
  <2>. QED  BY <2>1, CountKept
<1>5. CASE AuthSleep
  BY <1>5, CountKept DEF AuthSleep, SaveMeta, AfterAuthScreen
<1>6. CASE SleepOrLoop
  BY <1>6, CountKept DEF SleepOrLoop, SaveMeta, MetaAtSleep
<1>7. CASE Environment
  BY <1>1, <1>7 DEF Environment, WakeByTimer, WakeByButton, PauseEnds, Reset, PowerLoss, MetaZero,
     SntpSetsClock, HorizonReached, slotVars, vars
<1>. QED  BY <1>2, <1>3, <1>4, <1>5, <1>6, <1>7 DEF Next, Device, ColdCycle, WarmCycle

(***************************************************************************)
(* Every step keeps the invariant.                                         *)
(***************************************************************************)
\* Which steps count or paint.
LEMMA HistorySteps ==
  ASSUME Next, CountNoNet
  PROVE  \/ pc = "ColdNoNet" /\ pc' = "ColdNoNetSleep" /\ NoNetRepaint /\ sincePaint' = 0 /\ meta' = meta
         \/ ColdNoNetSleep /\ sincePaint' = sincePaint + 1
         \/ /\ sincePaint' = sincePaint /\ ~ColdNoNetSleep
            /\ pc' = "ColdNoNetSleep" => meta' = meta /\ (pc = "ColdNoNetSleep" \/ ~NoNetRepaint)
<1>1. CASE pc' = "ColdNoNetSleep"
  <2>1. \/ pc = "ColdNoNet" /\ meta' = meta
        \/ pc = "ColdNoNetSleep" /\ meta' = meta
    BY <1>1 DEF Next, Device, Environment, Setup, SelectCycle, Loop, Press, BwReset, BwSave, Diag,
       DiagExit, AuthScreen, AuthSleep, ColdCycle, Cold, ColdConnect, ColdNoNet, ColdNoNetSleep,
       ColdFetch, ColdBootCheck, ColdFinish, ColdSave, SaveUnchecked, WarmCycle, Warm, WifiDown,
       OfflineSleep, ClockOk, ClockLost, Fetch, Schedule, Decide, Nightly, NightlySave, Push,
       PushSave, RescueStart, RescueTurn, RescueStop, RescueWait, RescueRetry, SleepOrLoop,
       DeepSleep, WakeByTimer, WakeByButton, PauseEnds, Reset, PowerLoss, StartSetup, SntpSetsClock,
       HorizonReached, vars
  <2>. QED  BY <1>1, <2>1 DEF CountNoNet, ColdNoNetSleep, DeepSleep
<1>2. CASE pc' # "ColdNoNetSleep" /\ ColdNoNetSleep
  BY <1>2 DEF CountNoNet, ColdNoNetSleep, DeepSleep
<1>3. CASE pc' # "ColdNoNetSleep" /\ ~ColdNoNetSleep
  <2>1. ~(pc = "ColdNoNetSleep" /\ pc' = "Asleep")
    <3>1. SUFFICES ASSUME pc = "ColdNoNetSleep", pc' = "Asleep" PROVE FALSE
      OBVIOUS
    <3>. QED  BY <1>3, <3>1 DEF Next, Device, Environment, Setup, Loop, Press, BwReset, BwSave, Diag,
       DiagExit, AuthScreen, AuthSleep, ColdCycle, Cold, ColdConnect, ColdNoNet,
       ColdFetch, ColdBootCheck, ColdFinish, ColdSave, SaveUnchecked, WarmCycle, Warm, WifiDown,
       OfflineSleep, ClockOk, ClockLost, Fetch, Schedule, Decide, Nightly, NightlySave, Push,
       PushSave, RescueStart, RescueTurn, RescueStop, RescueWait, RescueRetry, SleepOrLoop,
       WakeByTimer, WakeByButton, PauseEnds, Reset, PowerLoss, StartSetup, SntpSetsClock,
       HorizonReached, vars
  <2>. QED  BY <1>3, <2>1 DEF CountNoNet
<1>. QED  BY <1>1, <1>2, <1>3

\* The cycle that counts one more: the remainder grows with the history, or
\* starts again at zero, at a multiple of the interval or at the wrap.
LEMMA CountOneMore ==
  ASSUME TypeOK, CadenceInv, ColdNoNetSleep, sincePaint' = sincePaint + 1
  PROVE  CadenceInv'
<1>. DEFINE c == meta.no_wifi_cycles
            c1 == rtc'.no_wifi_cycles
<1>1. /\ c \in 0..(Config.uint8_modulus - 1) /\ pc' = "Asleep" /\ meta'.no_wifi_cycles = 0
      /\ c1 = (c + 1) % Config.uint8_modulus
  BY DEF ColdNoNetSleep, SaveMeta, AfterNoNet, DeepSleep, Forget, MetaZero, TypeOK, Metas
<1>2. c \in Nat /\ Every \in Nat \ {0} /\ 0 % Every = 0
  BY CadenceFacts
<1>3. sincePaint <= c % Every /\ sincePaint \in Nat
  BY <1>2 DEF CadenceInv, ColdNoNetSleep
<1>4. c % Every \in 0..(Every - 1) /\ (c + 1) % Every = IF (c % Every) + 1 = Every THEN 0 ELSE (c % Every) + 1
  BY <1>2, NextRemainder
<1>5. c1 = c + 1 \/ c1 = 0
  <2>1. Config.uint8_modulus \in Nat \ {0}
    BY CadenceFacts
  <2>2. (c + 1) % Config.uint8_modulus
          = IF (c % Config.uint8_modulus) + 1 = Config.uint8_modulus
            THEN 0 ELSE (c % Config.uint8_modulus) + 1
    BY <1>2, <2>1, NextRemainder
  <2>3. c % Config.uint8_modulus = c
    BY <1>1, <2>1
  <2>. QED  BY <1>1, <2>2, <2>3
<1>. HIDE DEF c, c1
<1>6. c1 % Every # 0 => sincePaint' <= c1 % Every
  BY <1>2, <1>3, <1>4, <1>5
<1>7. sincePaint' \in 0..Every
  BY <1>2, <1>3, <1>4
<1>. QED  BY <1>1, <1>2, <1>6, <1>7 DEF CadenceInv, Counts, c1, Every

\* Every step of the specification.
LEMMA StepCadence ==
  ASSUME TypeOK, CadenceInv, [Next /\ CountNoNet]_<<vars, sincePaint>>
  PROVE  CadenceInv'
<1>. USE CadenceFacts
<1>1. CASE UNCHANGED <<vars, sincePaint>>
  BY <1>1 DEF vars, CadenceInv, Counts, Every
<1>2. CASE Next /\ ColdNoNetSleep /\ sincePaint' = sincePaint + 1
  BY <1>2, CountOneMore
<1>3. ASSUME Next, ~ColdNoNetSleep, sincePaint' \in {0, sincePaint},
             pc' = "ColdNoNetSleep" => sincePaint' <= meta'.no_wifi_cycles % Every
      PROVE  CadenceInv'
  <2>1. ASSUME NEW x \in {meta.no_wifi_cycles, rtc.no_wifi_cycles, 0}
        PROVE  x % Every # 0 => sincePaint' <= x % Every
    <3>1. x % Every \in Nat
      BY <2>1
    <3>2. x % Every # 0 => sincePaint <= x % Every
      BY <2>1 DEF CadenceInv, Counts
    <3>. QED  BY <1>3, <3>1, <3>2
  <2>2. sincePaint' \in 0..Every
    BY <1>3 DEF CadenceInv
  <2>3. Counts(rtc)' /\ Counts(meta)'
    <3>1. /\ meta'.no_wifi_cycles \in {meta.no_wifi_cycles, rtc.no_wifi_cycles, 0}
          /\ rtc'.no_wifi_cycles \in {meta.no_wifi_cycles, rtc.no_wifi_cycles, 0}
      BY <1>3, MetaSources, RtcSources
    <3>. QED  BY <2>1, <3>1 DEF Counts, Every
  <2>. QED  BY <1>3, <2>2, <2>3 DEF CadenceInv, Every
<1>4. CASE /\ Next /\ pc = "ColdNoNet" /\ pc' = "ColdNoNetSleep" /\ NoNetRepaint
           /\ sincePaint' = 0 /\ meta' = meta
  <2>1. ~ColdNoNetSleep
    BY <1>4 DEF ColdNoNetSleep
  <2>2. 0 <= meta'.no_wifi_cycles % Every
    BY <1>4, NextRemainder
  <2>. QED  BY <1>3, <1>4, <2>1, <2>2
<1>5. CASE /\ Next /\ sincePaint' = sincePaint /\ ~ColdNoNetSleep
           /\ pc' = "ColdNoNetSleep" => meta' = meta /\ (pc = "ColdNoNetSleep" \/ ~NoNetRepaint)
  <2>1. pc' = "ColdNoNetSleep" => sincePaint' <= meta'.no_wifi_cycles % Every
    BY <1>5 DEF CadenceInv, Counts, NoNetRepaint, Every
  <2>. QED  BY <1>3, <1>5, <2>1
<1>. QED  BY <1>1, <1>2, <1>4, <1>5, HistorySteps

(***************************************************************************)
(* The theorem.                                                            *)
(***************************************************************************)
\* However long the outage and whatever interrupts it, the screen is never
\* older than the configured number of cycles, for every width of the counter:
\* its wrap only shortens one interval (handleColdBootOutcome).
THEOREM NeverOverdue == CadenceSpec => []ScreenNeverOverdue
<1>1. Init /\ sincePaint = 0 => CadenceInv
  BY CadenceFacts DEF Init, MetaZero, CadenceInv, Counts
<1>2. TypeOK /\ CadenceInv /\ [Next /\ CountNoNet]_<<vars, sincePaint>> => CadenceInv'
  BY StepCadence
<1>3. TypeOK /\ [Next /\ CountNoNet]_<<vars, sincePaint>> => TypeOK'
  BY StepTypes
<1>4. CadenceInv => ScreenNeverOverdue
  BY DEF CadenceInv, ScreenNeverOverdue, Every
<1>. QED  BY <1>1, <1>2, <1>3, <1>4, InitTypeOK, PTL DEF CadenceSpec
=============================================================================
