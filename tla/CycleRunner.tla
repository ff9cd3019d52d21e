---------------------------- MODULE CycleRunner -----------------------------
(***************************************************************************)
(* The firmware's wake/fetch/render/sleep cycle (src/src/logic/            *)
(* cycle_runner.cpp, entered from setup() and loop() in src/src/main.cpp)  *)
(* together with what it drives: the RTC memory slots, the e-paper glass,  *)
(* the wall clock and the network.                                         *)
(*                                                                         *)
(* pc names the point the single thread has reached.  A cycle is cut into  *)
(* actions where time passes (connect, NTP, fetch, pauses) and between a   *)
(* write to the glass and the write to RTC memory that records it, so that *)
(* a reset can strike in between.                                          *)
(***************************************************************************)
EXTENDS Policies

VARIABLES
  now,       \* real time
  clk,       \* what the system clock is worth: see Reading
  meta,      \* the cycle's working copy of PersistedMeta
  rtc,       \* PersistedMeta in RTC memory (g_meta)
  store,     \* framebuffer slot in RTC memory (g_rle, decoded)
  sched,     \* the schedule slot in RTC memory holds hints
  curr,      \* g_frame_new, from a render to the save of its frame
  glass,     \* the image on the e-paper panel
  panelRam,  \* the panel controller's RAM holds the image on the glass
  pc,        \* where the thread is
  deepWake,  \* CycleDeps::deep_wake
  wake,      \* wake cause, reset reason, boot button down on loop() entry
  trigger,   \* CycleTrigger of the warm cycle
  ctx,       \* what a push belongs to
  fc,        \* FetchCycleResult
  plan,      \* SleepDecision
  planNow,   \* the local `now` the sleep is planned from
  rescue,    \* locals of runRescueFetch
  wakeAt,    \* real time at which the current sleep or pause ends, else 0
  ghosts,    \* history: partial refreshes since the last full one
  residue,   \* history: the glass was left showing something unrecorded
  resets     \* unplanned resets so far

clockVars == <<now, clk>>
slotVars  == <<rtc, store, sched>>
panelVars == <<glass, panelRam, ghosts, residue>>
localVars == <<fc, plan, planNow, rescue>>
flowVars  == <<deepWake, wake, trigger, ctx>>
vars == <<now, clk, meta, rtc, store, sched, curr, glass, panelRam, pc, deepWake,
          wake, trigger, ctx, fc, plan, planNow, rescue, wakeAt, ghosts, residue,
          resets>>

Frame(body, stamp) == [body |-> body, stamp |-> stamp]
NoFrame == Frame("none", 0)

MetaZero ==
  [framebuffer_valid |-> FALSE, has_any_data |-> FALSE, auth_error_seen |-> FALSE,
   cold_boot_retries |-> 0, no_wifi_cycles |-> 0, partial_count |-> 0,
   last_light_full |-> 0, last_deep_clean |-> 0, last_display_update |-> 0,
   last_success_at |-> 0, last_ntp_sync |-> 0, expected_wake_at |-> 0]

NoFetch == [ok |-> FALSE, complete |-> FALSE, state |-> "Normal",
            t_ref |-> NoDeparture, shown |-> NoDeparture]
NoWake == [cause |-> "Timer", reason |-> "Normal", pressed |-> FALSE]
NoRescue == [attempts |-> 0, waits |-> 0, anchored_at |-> 0]

(***************************************************************************)
(* IClock::now().  An unsynchronised clock counts from the reset and reads *)
(* as (almost) zero; "Correcting" is an ahead clock whose SNTP daemon has  *)
(* been started and will set it at some later moment.                      *)
(***************************************************************************)
Reading == CASE clk = "Good"     -> now
             [] clk = "Unsynced" -> 0
             [] OTHER            -> now + World.skew

Elapse(durations) == \E d \in durations : now' = now + d

\* configTzTime followed by the poll of isSynced(): a clock that already reads
\* plausibly is reported as synchronised at once.
NtpSynced ==
  \/ clk = "Unsynced" /\ TRUE \in World.ntp /\ clk' = "Good"
  \/ clk = "Good" /\ UNCHANGED clk
  \/ clk \in {"Ahead", "Correcting"} /\ clk' \in {"Correcting", "Good"}

NtpFails == clk = "Unsynced" /\ FALSE \in World.ntp /\ UNCHANGED clk

Init ==
  /\ now = World.epoch /\ clk = "Unsynced"
  /\ meta = MetaZero /\ rtc = MetaZero /\ store = NoFrame /\ sched = FALSE
  /\ curr = NoFrame /\ glass = NoFrame /\ panelRam = FALSE
  /\ pc = "Setup" /\ deepWake = TRUE
  /\ wake = [NoWake EXCEPT !.cause = "ColdBoot"]
  /\ trigger = "Timer" /\ ctx = "none"
  /\ fc = NoFetch /\ plan = StayActive /\ planNow = 0 /\ rescue = NoRescue
  /\ wakeAt = 0
  /\ ghosts = 0 /\ residue = FALSE /\ resets = 0

(***************************************************************************)
(* Display and store.                                                      *)
(***************************************************************************)
PaintFull(f) == glass' = f /\ panelRam' = TRUE /\ ghosts' = 0

\* loadFramebuffer returns a frame
Loadable == meta.framebuffer_valid /\ rtc.framebuffer_valid /\ store # NoFrame

\* saveFramebuffer writes the slot and g_meta.framebuffer_valid itself
SaveFramebuffer(saved) ==
  /\ store' = IF saved THEN curr ELSE NoFrame
  /\ rtc' = [rtc EXCEPT !.framebuffer_valid = saved]
  /\ UNCHANGED sched

SaveMeta(m) == rtc' = m /\ UNCHANGED <<store, sched>>

\* The picture render() draws for a state; boards and scans differ with the data.
Bodies(state) == CASE state = "Normal"  -> World.boards
                   [] state = "Offline" -> World.scans
                   [] OTHER             -> {state}

\* Entering a sleep or a pause: the locals of the cycle are gone.
Forget ==
  /\ meta' = MetaZero /\ curr' = NoFrame /\ trigger' = "Timer" /\ ctx' = "none"
  /\ fc' = NoFetch /\ plan' = StayActive /\ planNow' = 0 /\ rescue' = NoRescue

DeepSleep(seconds) ==
  /\ pc' = "Asleep" /\ wakeAt' = now + seconds /\ Forget /\ deepWake' = TRUE
  /\ UNCHANGED <<clockVars, panelVars, wake, resets>>

(***************************************************************************)
(* setup() and loop().                                                     *)
(***************************************************************************)
Overlay == wake.reason # "Normal" /\ Config.brownout_show_s > 0

Setup ==
  /\ pc = "Setup"
  /\ meta' = rtc /\ deepWake' = TRUE
  /\ \/ /\ Overlay                                   \* showBrownoutScreen
        /\ PaintFull(Frame("Brownout", 0)) /\ residue' = TRUE
        /\ Elapse(0..Config.brownout_show_s)
     \/ ~Overlay /\ UNCHANGED <<panelVars, now>>
  /\ pc' = SelectCycle(wake.cause, rtc.cold_boot_retries, rtc.has_any_data)
  /\ wake' = NoWake
  /\ UNCHANGED <<clk, slotVars, curr, trigger, ctx, localVars, wakeAt, resets>>

Loop ==
  /\ pc = "Loop"
  /\ meta' = rtc /\ deepWake' = FALSE
  /\ pc' = IF wake.pressed THEN "Press" ELSE "Warm"
  /\ wake' = NoWake
  /\ UNCHANGED <<clockVars, slotVars, curr, panelVars, trigger, ctx, localVars, wakeAt,
                 resets>>

\* runButtonWake and pollButtonAndRunWarm after classifyPress
Press ==
  /\ pc = "Press"
  /\ \E p \in World.press :
       pc' = CASE p = "Long" -> "BwReset" [] p = "Double" -> "Diag" [] OTHER -> "Warm"
  /\ trigger' = "Button"
  /\ UNCHANGED <<clockVars, meta, slotVars, curr, panelVars, deepWake, wake, ctx,
                 localVars, wakeAt, resets>>

(***************************************************************************)
(* runBwReset: deep-clean the panel and redraw the stored frame, or an     *)
(* empty board when there is none.                                         *)
(***************************************************************************)
BwReset ==
  /\ pc = "BwReset"
  /\ curr' = IF Loadable THEN store ELSE Frame("Empty", 0)
  /\ PaintFull(curr') /\ residue' = FALSE
  /\ pc' = "BwSave"
  /\ UNCHANGED <<clockVars, meta, slotVars, flowVars, localVars, wakeAt, resets>>

BwSave ==
  /\ pc = "BwSave"
  /\ LET m == [meta EXCEPT !.framebuffer_valid = TRUE, !.last_deep_clean = Reading,
                           !.last_light_full = Reading, !.partial_count = 0]
     IN  /\ meta' = m /\ rtc' = m
         /\ \/ Loadable /\ UNCHANGED store
            \/ ~Loadable /\ \E saved \in World.saved :
                              store' = IF saved THEN curr ELSE NoFrame
  /\ pc' = "Warm"
  /\ UNCHANGED <<clockVars, sched, curr, panelVars, flowVars, localVars, wakeAt, resets>>

(***************************************************************************)
(* doFetchCycle.  "Partial" lost at least one batch but not all of them.   *)
(* A HAFAS answer decides the auth flag, an OGD batch can only raise it.   *)
(***************************************************************************)
AuthAfter(outcome) ==
  {meta.auth_error_seen} \cup World.auth_errors
    \cup (IF outcome = "Failed" THEN {} ELSE {FALSE})

Fetched(m, outcome, auth, t) ==
  IF outcome = "Failed" THEN [m EXCEPT !.auth_error_seen = auth]
  ELSE [m EXCEPT !.auth_error_seen = auth, !.has_any_data = TRUE, !.last_success_at = t]

\* The earliest slot mergeSlots may leave: departures are points of real time,
\* those before the reading are dropped
Departures ==
  {NoDeparture : d \in {d \in World.departures : d = NoDeparture \/ now + d < Reading}}
    \cup {now + d : d \in {d \in World.departures \ {NoDeparture} : now + d >= Reading}}

StateOf(m, link, t) ==
  SelectDisplayState(m.auth_error_seen, m.has_any_data, link, t, m.last_success_at)

\* r is the FetchCycleResult, m the meta after the call
FetchCycle(r, m, outcome) ==
  \E auth \in AuthAfter(outcome), link \in World.link, dep \in Departures' :
    /\ m = Fetched(meta, outcome, auth, Reading')
    /\ r = [ok |-> outcome # "Failed", complete |-> outcome = "Complete",
            state |-> StateOf(m, link, Reading'), t_ref |-> dep, shown |-> dep]

(***************************************************************************)
(* runDiagMode: a best-effort fetch, then pages until a long press or the  *)
(* timeout.  Nothing is written to RTC memory.                             *)
(***************************************************************************)
Diag ==
  /\ pc = "Diag"
  /\ Elapse(World.delays) /\ UNCHANGED clk
  /\ \/ World.wifi \ {"Up"} # {} /\ UNCHANGED meta
     \/ /\ "Up" \in World.wifi
        /\ \E outcome \in World.fetch, auth \in BOOLEAN :
             /\ auth \in AuthAfter(outcome)
             /\ meta' = Fetched(meta, outcome, auth, Reading')
  /\ PaintFull(Frame("Diag", 0)) /\ residue' = TRUE
  /\ pc' = "DiagPages"
  /\ UNCHANGED <<slotVars, curr, flowVars, localVars, wakeAt, resets>>

DiagExit ==
  /\ pc = "DiagPages"
  /\ Elapse(0..Config.diag_max_s) /\ UNCHANGED clk
  /\ pc' = "Warm"
  /\ UNCHANGED <<meta, slotVars, curr, panelVars, flowVars, localVars, wakeAt, resets>>

(***************************************************************************)
(* runColdCycle: boot screen, WiFi and NTP, first fetch, boot check, board *)
(***************************************************************************)
BootScreenWanted == ~meta.framebuffer_valid /\ meta.cold_boot_retries = 0

Cold ==
  /\ pc = "Cold"
  /\ IF BootScreenWanted THEN PaintFull(Frame("Boot", 0)) /\ UNCHANGED residue
                         ELSE UNCHANGED panelVars
  /\ pc' = "ColdConnect" /\ ctx' = "Cold"
  /\ UNCHANGED <<clockVars, meta, slotVars, curr, deepWake, wake, trigger, localVars,
                 wakeAt, resets>>

ColdBootDone(m) == [m EXCEPT !.cold_boot_retries = 0, !.no_wifi_cycles = 0]

ColdConnect ==
  /\ pc = "ColdConnect"
  /\ Elapse(World.delays)
  /\ \/ /\ "Up" \in World.wifi /\ NtpSynced
        /\ meta' = [ColdBootDone(meta) EXCEPT !.last_ntp_sync = Reading']
        /\ pc' = "ColdFetch"
     \/ "Up" \in World.wifi /\ NtpFails /\ pc' = "ColdNoNet" /\ UNCHANGED meta
     \/ "Down" \in World.wifi /\ pc' = "ColdNoNet" /\ UNCHANGED <<meta, clk>>
     \/ "AuthFailed" \in World.wifi /\ pc' = "AuthScreen" /\ UNCHANGED <<meta, clk>>
  /\ UNCHANGED <<slotVars, curr, panelVars, flowVars, localVars, wakeAt, resets>>

NoNetRepaint == meta.no_wifi_cycles % Config.no_wifi_repaint_every = 0

ColdNoNet ==
  /\ pc = "ColdNoNet"
  /\ \/ /\ NoNetRepaint /\ residue' = FALSE
        /\ \E s \in World.scans : PaintFull(Frame(s, 0)) /\ curr' = Frame(s, 0)
     \/ ~NoNetRepaint /\ UNCHANGED <<panelVars, curr>>
  /\ pc' = "ColdNoNetSleep"
  /\ UNCHANGED <<clockVars, meta, slotVars, flowVars, localVars, wakeAt, resets>>

\* Mutant: the counter stops at its maximum instead of wrapping.
AfterNoNetSaturating(m) ==
  [m EXCEPT !.cold_boot_retries = IF @ < Config.cold_boot_max_retries THEN @ + 1 ELSE @,
            !.no_wifi_cycles = IF @ + 1 < Config.uint8_modulus THEN @ + 1 ELSE @,
            !.framebuffer_valid = FALSE]

AfterNoNet(m) ==
  [m EXCEPT !.cold_boot_retries = IF @ < Config.cold_boot_max_retries THEN @ + 1 ELSE @,
            !.no_wifi_cycles = (@ + 1) % Config.uint8_modulus,
            !.framebuffer_valid = FALSE]

ColdNoNetSleep ==
  /\ pc = "ColdNoNetSleep"
  /\ SaveMeta(AfterNoNet(meta)) /\ DeepSleep(Config.cold_boot_retry_s)

\* The wrong-password screen, reached from either cycle
AuthScreen ==
  /\ pc = "AuthScreen"
  /\ curr' = Frame("WifiAuth", 0) /\ PaintFull(curr') /\ residue' = FALSE
  /\ meta' = IF ctx = "Cold" THEN ColdBootDone(meta) ELSE meta
  /\ pc' = "AuthSleep"
  /\ UNCHANGED <<clockVars, slotVars, flowVars, localVars, wakeAt, resets>>

\* Mutant: the frame from before the screen stays valid.
AfterAuthScreenKeeping(m) == m

AfterAuthScreen(m) == [m EXCEPT !.framebuffer_valid = FALSE]

AuthSleep ==
  /\ pc = "AuthSleep"
  /\ SaveMeta(AfterAuthScreen(meta)) /\ DeepSleep(Config.wifi_auth_sleep_s)

ColdFetch ==
  /\ pc = "ColdFetch"
  /\ Elapse(World.delays) /\ UNCHANGED clk
  /\ \E outcome \in World.fetch, auth \in BOOLEAN :
       /\ auth \in AuthAfter(outcome)
       /\ meta' = Fetched(meta, outcome, auth, Reading')
       /\ fc' = [NoFetch EXCEPT !.ok = outcome # "Failed", !.complete = outcome = "Complete"]
  /\ \/ "Kept" \in World.schedule /\ UNCHANGED sched
     \/ "Refreshed" \in World.schedule /\ sched' = TRUE
  /\ pc' = "ColdBootCheck"
  /\ UNCHANGED <<rtc, store, curr, panelVars, flowVars, plan, planNow, rescue, wakeAt,
                 resets>>

ColdBootCheck ==
  /\ pc = "ColdBootCheck"
  /\ \/ /\ Config.boot_info_show_s > 0
        /\ curr' = Frame("BootCheck", 0) /\ PaintFull(curr') /\ UNCHANGED residue
        /\ Elapse(0..Config.boot_info_show_s)
     \/ Config.boot_info_show_s = 0 /\ UNCHANGED <<curr, panelVars, now>>
  /\ pc' = "ColdFinish"
  /\ UNCHANGED <<clk, meta, slotVars, flowVars, localVars, wakeAt, resets>>

ColdFinish ==
  /\ pc = "ColdFinish"
  /\ \E link \in World.link, dep \in Departures :
       LET state == StateOf(meta, link, Reading)
       IN  /\ \E b \in Bodies(state) : curr' = Frame(b, Stamp(Reading))
           /\ fc' = [fc EXCEPT !.state = state, !.t_ref = dep, !.shown = dep]
           /\ plan' = PlanSleep(state = "Normal" /\ fc.ok, dep, Reading)
  /\ planNow' = Reading
  /\ PaintFull(curr') /\ residue' = FALSE
  /\ meta' = [meta EXCEPT !.last_display_update = Reading, !.last_deep_clean = Reading,
                          !.last_light_full = Reading]
  /\ pc' = "ColdSave"
  /\ UNCHANGED <<clockVars, slotVars, flowVars, rescue, wakeAt, resets>>

\* finishColdCycle and doNightlyClean ignore what saveFramebuffer returns
SaveUnchecked(here) ==
  /\ pc = here
  /\ \E saved \in World.saved : SaveFramebuffer(saved)
  /\ meta' = [meta EXCEPT !.framebuffer_valid = TRUE]
  /\ pc' = "Sleep"
  /\ UNCHANGED <<clockVars, curr, panelVars, flowVars, localVars, wakeAt, resets>>

ColdSave == SaveUnchecked("ColdSave")

(***************************************************************************)
(* runWarmCycle up to the fetch                                            *)
(***************************************************************************)
Warm ==
  /\ pc = "Warm"
  /\ Elapse(World.delays) /\ UNCHANGED clk
  /\ \E w \in World.wifi :
       pc' = CASE w = "Up" -> "Clock" [] w = "Down" -> "WifiDown" [] OTHER -> "AuthScreen"
  /\ UNCHANGED <<meta, slotVars, curr, panelVars, flowVars, localVars, wakeAt, resets>>

\* handleWarmWifiDown, no credentials problem.  The trace aside, nothing is
\* saved before the deep sleep: OfflineSleep has no saveMeta.
WifiDown ==
  /\ pc = "WifiDown"
  /\ LET state == StateOf(meta, FALSE, Reading)
     IN  \/ /\ state = "Offline"
            /\ fc' = [NoFetch EXCEPT !.state = state]
            /\ ctx' = "Offline" /\ pc' = "Push"
            /\ UNCHANGED <<clockVars, meta, slotVars, curr, panelVars, deepWake, wake,
                           trigger, plan, planNow, rescue, wakeAt, resets>>
         \/ /\ state # "Offline"
            /\ DeepSleep(Config.poll_interval_s) /\ UNCHANGED slotVars

OfflineSleep ==
  /\ pc = "OfflineSleep"
  /\ DeepSleep(Config.poll_interval_s) /\ UNCHANGED slotVars

\* ensureClockSynced, then the periodic NTP refresh
\* Mutant: only a clock that is ahead is doubted.
ClockDoubtfulAhead == ClockDriftedAhead(Reading, meta.expected_wake_at)

ClockDoubtful == ~IsPlausible(Reading) \/ ClockDriftedAhead(Reading, meta.expected_wake_at)
NtpDue == Reading - meta.last_ntp_sync > Config.ntp_interval_s

ClockOk ==
  /\ pc = "Clock" /\ UNCHANGED now
  /\ \/ (ClockDoubtful \/ NtpDue) /\ NtpSynced
        /\ meta' = [meta EXCEPT !.last_ntp_sync = Reading']
     \/ ~ClockDoubtful /\ ~NtpDue /\ UNCHANGED <<clk, meta>>
  /\ pc' = "Fetch"
  /\ UNCHANGED <<slotVars, curr, panelVars, flowVars, localVars, wakeAt, resets>>

ClockLost ==
  /\ pc = "Clock" /\ ClockDoubtful /\ NtpFails
  /\ DeepSleep(Config.cold_boot_retry_s) /\ UNCHANGED slotVars

Fetch ==
  /\ pc = "Fetch"
  /\ Elapse(World.delays) /\ UNCHANGED clk
  /\ \E outcome \in World.fetch : FetchCycle(fc', meta', outcome)
  /\ planNow' = Reading'
  /\ pc' = "Schedule"
  /\ UNCHANGED <<slotVars, curr, panelVars, flowVars, plan, rescue, wakeAt, resets>>

\* needScheduleRefresh and refreshSchedule; new hints change what is shown but
\* not the merged view the sleep is planned from.
Schedule ==
  /\ pc = "Schedule" /\ UNCHANGED clk
  /\ \/ "Kept" \in World.schedule /\ UNCHANGED <<sched, fc, now>>
     \/ /\ "Refreshed" \in World.schedule
        /\ Elapse(World.delays) /\ sched' = TRUE
        /\ \E dep \in Departures' : fc' = [fc EXCEPT !.shown = dep]
  /\ pc' = "Decide"
  /\ UNCHANGED <<meta, rtc, store, curr, panelVars, flowVars, plan, planNow, rescue,
                 wakeAt, resets>>

(***************************************************************************)
(* finishWarmCycle                                                         *)
(***************************************************************************)
PushWanted == fc.ok \/ fc.state # "Normal" \/ trigger = "Button"

Decide ==
  /\ pc = "Decide"
  /\ plan' = PlanSleep(fc.ok, fc.t_ref, planNow)
  /\ IF ShouldPromoteToNightlyClean(plan', planNow, meta.last_deep_clean)
     THEN pc' = "Nightly" /\ UNCHANGED ctx
     ELSE IF PushWanted THEN pc' = "Push" /\ ctx' = "Board"
                        ELSE pc' = "RescueStart" /\ UNCHANGED ctx
  /\ UNCHANGED <<clockVars, meta, slotVars, curr, panelVars, deepWake, wake, trigger, fc,
                 planNow, rescue, wakeAt, resets>>

Nightly ==
  /\ pc = "Nightly"
  /\ \E b \in Bodies(fc.state) : curr' = Frame(b, Stamp(planNow))
  /\ PaintFull(curr') /\ residue' = FALSE
  /\ meta' = [meta EXCEPT !.last_display_update = planNow, !.last_deep_clean = planNow,
                          !.last_light_full = planNow, !.partial_count = 0]
  /\ pc' = "NightlySave"
  /\ UNCHANGED <<clockVars, slotVars, flowVars, localVars, wakeAt, resets>>

NightlySave == SaveUnchecked("NightlySave")

(***************************************************************************)
(* renderAndPush: the frame is first stamped with the time of the stored   *)
(* one, so that an unchanged board compares equal; a change is restamped   *)
(* and planned again.  A button press stamps the present time at once.     *)
(***************************************************************************)
ForceStamp == trigger = "Button" /\ ctx \in {"Board", "Offline"}

PlanFor(frame) == PlanRefresh(store, frame, Loadable, Reading, meta.last_light_full,
                              meta.partial_count, deepWake)

\* first is the frame as stamped before the diff
Restamped(first) == ForceStamp \/ PlanFor(first) # "None"

\* What a windowed update of the region where store and f differ leaves on the
\* panel.  With untrusted RAM everything outside the window is garbage.
AfterPartial(f) ==
  IF ~panelRam THEN {Frame("Garbled", f.stamp)}
  ELSE IF glass = store THEN {f}
  ELSE IF store.body = f.body THEN {[glass EXCEPT !.stamp = f.stamp]}
  ELSE {f, Frame("Garbled", f.stamp)}

Draw(kind, f) ==
  \/ kind = "None" /\ UNCHANGED panelVars
  \/ kind = "LightFull" /\ PaintFull(f) /\ residue' = FALSE
  \/ /\ kind = "Partial"
     /\ glass' \in AfterPartial(f) /\ panelRam' = TRUE /\ ghosts' = ghosts + 1
     /\ residue' = (residue \/ ~panelRam)

\* applyDisplayDecision's bookkeeping
Applied(m, kind, t) ==
  CASE kind = "None"      -> m
    [] kind = "Partial"   -> [m EXCEPT !.partial_count = @ + 1]
    [] kind = "LightFull" -> [m EXCEPT !.last_light_full = t, !.partial_count = 0]

Push ==
  /\ pc = "Push"
  /\ \E b \in Bodies(fc.state) :
       LET first == Frame(b, Stamp(IF ForceStamp THEN Reading ELSE meta.last_display_update))
           f == IF Restamped(first) THEN Frame(b, Stamp(Reading)) ELSE first
           m == IF Restamped(first) THEN [meta EXCEPT !.last_display_update = Reading]
                                    ELSE meta
       IN  curr' = f /\ Draw(PlanFor(f), f) /\ meta' = Applied(m, PlanFor(f), Reading)
  /\ pc' = "PushSave"
  /\ UNCHANGED <<clockVars, slotVars, flowVars, localVars, wakeAt, resets>>

PushSave ==
  /\ pc = "PushSave"
  /\ \E saved \in World.saved :
       SaveFramebuffer(saved) /\ meta' = [meta EXCEPT !.framebuffer_valid = saved]
  /\ \/ ctx = "Offline" /\ pc' = "OfflineSleep" /\ UNCHANGED <<plan, planNow>>
     \/ ctx = "Board" /\ pc' = "RescueStart" /\ UNCHANGED <<plan, planNow>>
     \/ /\ ctx = "Rescue" /\ pc' = "Sleep"
        /\ planNow' = Reading /\ plan' = PlanSleep(fc.ok, fc.t_ref, Reading)
  /\ UNCHANGED <<clockVars, curr, panelVars, flowVars, fc, rescue, wakeAt, resets>>

(***************************************************************************)
(* runRescueFetch: bounded attempts inside a window after the push.        *)
(***************************************************************************)
RescueStart ==
  /\ pc = "RescueStart"
  /\ \/ fc.complete /\ pc' = "Sleep" /\ UNCHANGED rescue
     \/ /\ ~fc.complete /\ pc' = "Rescue"
        /\ rescue' = [NoRescue EXCEPT !.anchored_at = Reading]
  /\ UNCHANGED <<clockVars, meta, slotVars, curr, panelVars, flowVars, fc, plan, planNow,
                 wakeAt, resets>>

RescueTriesLeft == /\ rescue.attempts < Config.rescue_max_attempts
                   /\ rescue.waits <= Config.rescue_max_attempts
RescueStep == NextRescueStep(Reading, rescue.anchored_at)

\* The head of the loop
RescueTurn ==
  /\ pc = "Rescue"
  /\ pc' = IF RescueTriesLeft THEN "RescueTry" ELSE "Sleep"
  /\ UNCHANGED <<clockVars, meta, slotVars, curr, panelVars, flowVars, localVars, wakeAt,
                 resets>>

RescueStop ==
  /\ pc = "RescueTry" /\ RescueStep = "Stop"
  /\ pc' = "Sleep"
  /\ UNCHANGED <<clockVars, meta, slotVars, curr, panelVars, flowVars, localVars, wakeAt,
                 resets>>

\* Mutant: the waits are not counted.
RescueWaitUncounted ==
  /\ pc = "RescueTry" /\ RescueStep = "Wait"
  /\ Elapse(0..RescueWaitFor(Reading, rescue.anchored_at)) /\ UNCHANGED clk
  /\ pc' = "Rescue"
  /\ UNCHANGED <<meta, slotVars, curr, panelVars, flowVars, localVars, wakeAt, resets>>

\* A press ends the pause early, and a clock that stands still shows no time pass.
RescueWait ==
  /\ pc = "RescueTry" /\ RescueStep = "Wait"
  /\ Elapse(0..RescueWaitFor(Reading, rescue.anchored_at)) /\ UNCHANGED clk
  /\ rescue' = [rescue EXCEPT !.waits = @ + 1]
  /\ pc' = "Rescue"
  /\ UNCHANGED <<meta, slotVars, curr, panelVars, flowVars, fc, plan, planNow, wakeAt,
                 resets>>

RescueRetry ==
  /\ pc = "RescueTry" /\ RescueStep = "Retry"
  /\ UNCHANGED clk
  /\ rescue' = [rescue EXCEPT !.attempts = @ + 1]
  /\ \E outcome \in World.fetch, d \in World.delays :
       \/ /\ outcome = "Complete" /\ now' = now + d
          /\ FetchCycle(fc', meta', outcome)
          /\ pc' = "Push" /\ ctx' = "Rescue"
       \/ /\ outcome # "Complete"
          /\ \E pause \in 0..Config.rescue_retry_pause_s : now' = now + d + pause
          /\ \E auth \in AuthAfter(outcome) : meta' = Fetched(meta, outcome, auth, Reading')
          /\ pc' = "Rescue" /\ UNCHANGED <<fc, ctx>>
  /\ UNCHANGED <<slotVars, curr, panelVars, deepWake, wake, trigger, plan, planNow, wakeAt,
                 resets>>

(***************************************************************************)
(* doSleepOrLoop: the only regular saveMeta of a cycle.                    *)
(***************************************************************************)
SleepSeconds == IF plan.mode = "DeepSleep" THEN plan.seconds ELSE Config.poll_interval_s

MetaAtSleep ==
  [meta EXCEPT !.expected_wake_at =
     IF IsPlausible(planNow) THEN planNow + SleepSeconds ELSE 0]

SleepOrLoop ==
  /\ pc = "Sleep"
  /\ SaveMeta(MetaAtSleep)
  /\ \/ plan.mode = "DeepSleep" /\ DeepSleep(plan.seconds)
     \/ /\ plan.mode = "Active"
        /\ pc' = "Paused" /\ wakeAt' = now + Config.poll_interval_s /\ Forget
        /\ UNCHANGED <<clockVars, panelVars, deepWake, wake, resets>>

(***************************************************************************)
(* Waking up: by the timer, by the boot button, by an unplanned reset.     *)
(* Across a deep sleep the clock may be lost or come back ahead.  A button *)
(* interrupts a pause() or wakes the chip (EXT0).                          *)
(***************************************************************************)
InTime == now <= World.horizon

ClockAfter(c) == IF c = "Good" THEN World.clock ELSE IF c = "Correcting" THEN {"Ahead"} ELSE {c}

StartSetup(cause, reason) ==
  /\ pc' = "Setup" /\ Forget /\ deepWake' = TRUE /\ panelRam' = FALSE
  /\ wake' = [cause |-> cause, reason |-> reason, pressed |-> FALSE] /\ wakeAt' = 0
  /\ UNCHANGED <<sched, glass, ghosts>>

WakeByTimer ==
  /\ pc = "Asleep" /\ InTime
  /\ now' = wakeAt /\ clk' \in ClockAfter(clk)
  /\ StartSetup("Timer", "Normal") /\ UNCHANGED <<rtc, store, residue, resets>>

WakeByButton ==
  /\ pc = "Asleep" /\ InTime /\ World.press # {}
  /\ now' \in now .. wakeAt /\ clk' \in ClockAfter(clk)
  /\ StartSetup("Button", "Normal") /\ UNCHANGED <<rtc, store, residue, resets>>

PauseEnds(pressed) ==
  /\ pc = "Paused" /\ InTime
  /\ \/ ~pressed /\ now' = wakeAt
     \/ pressed /\ World.press # {} /\ now' \in now .. wakeAt
  /\ wake' = [wake EXCEPT !.pressed = pressed] /\ wakeAt' = 0
  /\ pc' = "Loop"
  /\ UNCHANGED <<clk, meta, slotVars, curr, panelVars, deepWake, trigger, ctx, localVars,
                 resets>>

\* Points at which the glass has been painted and RTC memory does not know it
Unrecorded == {"ColdFinish", "ColdSave", "ColdNoNetSleep", "AuthSleep", "NightlySave",
               "PushSave", "BwSave"}

\* esp_reset_reason distinguishes these; RTC memory survives all of them
Reset(reason) ==
  /\ pc # "Setup" /\ resets < World.max_resets /\ InTime
  /\ resets' = resets + 1 /\ clk' \in ClockAfter(clk) /\ UNCHANGED now
  /\ StartSetup("ColdBoot", reason)
  /\ residue' = (residue \/ pc \in Unrecorded)
  /\ UNCHANGED <<rtc, store>>

\* A power-on is reported as a normal reset, with RTC memory cleared
PowerLoss ==
  /\ "PowerLoss" \in World.resets /\ pc # "Setup" /\ resets < World.max_resets /\ InTime
  /\ resets' = resets + 1 /\ clk' = "Unsynced" /\ UNCHANGED now
  /\ pc' = "Setup" /\ Forget /\ deepWake' = TRUE /\ panelRam' = FALSE
  /\ wake' = [NoWake EXCEPT !.cause = "ColdBoot"] /\ wakeAt' = 0
  /\ rtc' = MetaZero /\ store' = NoFrame /\ sched' = FALSE
  /\ UNCHANGED <<glass, ghosts, residue>>

\* The SNTP daemon sets the clock in the background
SntpSetsClock ==
  /\ clk = "Correcting" /\ pc \notin {"Asleep", "Setup"}
  /\ clk' = "Good"
  /\ UNCHANGED <<now, meta, slotVars, curr, panelVars, pc, flowVars, localVars, wakeAt,
                 resets>>

\* The bound of a run
HorizonReached == pc \in {"Asleep", "Paused"} /\ ~InTime /\ UNCHANGED vars

ColdCycle == \/ Cold \/ ColdConnect \/ ColdNoNet \/ ColdNoNetSleep \/ ColdFetch
             \/ ColdBootCheck \/ ColdFinish \/ ColdSave

WarmCycle == \/ Warm \/ WifiDown \/ OfflineSleep \/ ClockOk \/ ClockLost \/ Fetch \/ Schedule
             \/ Decide \/ Nightly \/ NightlySave \/ Push \/ PushSave
             \/ RescueStart \/ RescueTurn \/ RescueStop \/ RescueWait \/ RescueRetry

\* One step of the firmware
Device == \/ Setup \/ Loop \/ Press \/ BwReset \/ BwSave \/ Diag \/ DiagExit
          \/ AuthScreen \/ AuthSleep \/ ColdCycle \/ WarmCycle \/ SleepOrLoop

Environment == \/ WakeByTimer \/ WakeByButton
               \/ \E pressed \in BOOLEAN : PauseEnds(pressed)
               \/ \E reason \in World.resets \ {"PowerLoss"} : Reset(reason)
               \/ PowerLoss \/ SntpSetsClock \/ HorizonReached

Next == Device \/ Environment

Spec == Init /\ [][Next]_vars

\* The thread runs until it sleeps
FairSpec == Spec /\ WF_vars(Device)
=============================================================================
