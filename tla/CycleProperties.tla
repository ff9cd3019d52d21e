-------------------------- MODULE CycleProperties ---------------------------
(***************************************************************************)
(* What the cycle of module CycleRunner must and must not do.              *)
(***************************************************************************)
EXTENDS CycleRunner

(***************************************************************************)
(* Types                                                                   *)
(***************************************************************************)
Locations ==
  {"Setup", "Loop", "Asleep", "Paused", "Press", "BwReset", "BwSave", "Diag", "DiagPages",
   "Cold", "ColdConnect", "ColdNoNet", "ColdNoNetSleep", "AuthScreen", "AuthSleep",
   "ColdFetch", "ColdBootCheck", "ColdFinish", "ColdSave", "Warm", "WifiDown",
   "OfflineSleep", "Clock", "Fetch", "Schedule", "Decide", "Nightly", "NightlySave",
   "Push", "PushSave", "RescueStart", "Rescue", "RescueTry", "Sleep"}

States == {"Auth", "Boot", "Offline", "Normal"}

\* What can be on the glass: the screens of the states, those painted outside
\* the render of a state, and what an update with untrusted RAM leaves
Pictures == World.boards \cup World.scans \cup
  {"none", "Auth", "Boot", "WifiAuth", "BootCheck", "Brownout", "Diag", "Empty", "Garbled"}

Frames == [body : Pictures, stamp : Nat]

Metas ==
  [framebuffer_valid : BOOLEAN, has_any_data : BOOLEAN, auth_error_seen : BOOLEAN,
   cold_boot_retries : 0..Config.cold_boot_max_retries,
   no_wifi_cycles : 0..(Config.uint8_modulus - 1),
   partial_count : 0..Config.partial_hardcap,
   last_light_full : Nat, last_deep_clean : Nat, last_display_update : Nat,
   last_success_at : Nat, last_ntp_sync : Nat, expected_wake_at : Nat]

MaybeTime == Nat \cup {NoDeparture}

FetchResults == [ok : BOOLEAN, complete : BOOLEAN, state : States,
                 t_ref : MaybeTime, shown : MaybeTime]

\* Every variable has its type; in particular the partial counter never
\* passes the hard cap and the retry counter never passes its maximum
\* (planRefresh, handleColdBootOutcome).
TypeOK ==
  /\ now \in Nat /\ clk \in {"Good", "Ahead", "Unsynced", "Correcting"}
  /\ meta \in Metas /\ rtc \in Metas
  /\ store \in Frames /\ sched \in BOOLEAN
  /\ curr \in Frames /\ glass \in Frames /\ panelRam \in BOOLEAN
  /\ pc \in Locations /\ deepWake \in BOOLEAN
  /\ wake \in [cause : {"ColdBoot", "Timer", "Button"},
               reason : {"Normal", "Brownout", "WatchdogOrPanic", "Other"},
               pressed : BOOLEAN]
  /\ trigger \in {"Timer", "Button"}
  /\ ctx \in {"none", "Cold", "Board", "Offline", "Rescue"}
  /\ fc \in FetchResults
  /\ plan \in [mode : {"DeepSleep", "Active"}, seconds : Nat]
  /\ planNow \in Nat
  /\ rescue \in [attempts : Nat, waits : Nat, anchored_at : Nat]
  /\ wakeAt \in Nat /\ ghosts \in Nat /\ residue \in BOOLEAN /\ resets \in Nat

Resting == pc \in {"Asleep", "Paused"}

(***************************************************************************)
(* The glass and the framebuffer slot.                                     *)
(***************************************************************************)

\* Between cycles a stored frame that claims to be valid is what the glass
\* shows.  The differential refresh, the identical-frame skip and the B/W
\* reset all rest on this.  The exceptions are those `residue` records: an
\* overlay or diagnostic page, a reset between paint and save, and a partial
\* refresh on untrusted panel RAM (renderAndPush, handleColdBootOutcome,
\* handleWarmWifiDown, runBwReset, Esp32PersistentStore).
GlassFaithful ==
  Resting /\ rtc.framebuffer_valid /\ store # NoFrame /\ ~residue => glass = store

\* No more partial refreshes than the hard cap accumulate on the glass
\* between two full ones, although partial_count lives in RTC memory and some
\* ways out of a cycle do not save it (planRefresh, applyDisplayDecision).
GhostsBounded == ghosts <= Config.partial_hardcap

\* A "boot" picture reaches the glass only while the device has never had a
\* board, whatever reset, retry or button wake led there: the regression the
\* comments of selectCycle describe.  runBwReset is excepted, it redraws what
\* is stored (selectCycle, showBootScreen, selectDisplayState).
BootScreenOnlyWithoutBoard ==
  [][glass'.body = "Boot" /\ glass' # glass /\ pc # "BwReset" => ~meta.has_any_data]_vars

(***************************************************************************)
(* How long the device sleeps.                                             *)
(***************************************************************************)
FallsAsleep == pc # "Asleep" /\ pc' = "Asleep"
ThroughSleepOrLoop == FallsAsleep /\ pc = "Sleep"

ShortRetries == {Config.poll_interval_s, Config.cold_boot_retry_s,
                 Config.api_failure_retry_s}

\* A cycle that got no data never sleeps longer than the short retries, even
\* when the timetable or an earlier plan points hours ahead; a wrong WiFi
\* password alone may sleep long (planSleep, runRescueFetch, finishWarmCycle).
NoLongSleepWithoutData ==
  [][FallsAsleep /\ ~fc.ok /\ pc # "AuthSleep"
       => wakeAt' - now \in ShortRetries]_vars

\* No sleep outlasts the longest interval of the configuration and the
\* farthest departure: a plan never rests on a clock that has lost the date,
\* the "50-year deep sleep" of ensureClockSynced (ensureClockSynced, planSleep,
\* runRescueFetch's re-plan).
Farthest == {Config.wifi_auth_sleep_s, Config.no_data_sleep_s} \cup ShortRetries
              \cup (World.departures \ {NoDeparture})
NoAbsurdSleep ==
  [][FallsAsleep => \E d \in Farthest : wakeAt' - now <= d]_vars

\* A sleep planned from a departure: the warm cycle plans from every fetch that
\* answered, the cold one only when it also shows the board.
PlannedFromDeparture ==
  fc.ok /\ fc.t_ref # NoDeparture /\ (ctx = "Cold" => fc.state = "Normal")

\* A planned sleep ends before the departure it was planned from, although the
\* plan is made from a reading that a schedule refresh, a push and a failing
\* rescue make stale, and although SNTP may set the clock in between
\* (finishWarmCycle, finishColdCycle, planSleep, doSleepOrLoop).
WakesBeforeBus ==
  [][ThroughSleepOrLoop /\ PlannedFromDeparture => wakeAt' <= fc.t_ref]_vars

\* Before a sleep long enough for the nightly clean the panel has been deep
\* cleaned within the interval, unless a rescue fetch re-planned the sleep
\* (shouldPromoteToNightlyClean, finishWarmCycle).
CleanedRecently ==
  /\ meta.last_deep_clean # 0
  /\ planNow - meta.last_deep_clean < Config.nightly_deep_clean_interval_s
LongPlan == plan.mode = "DeepSleep" /\ plan.seconds > Config.long_sleep_for_nightly_clean_s
NightlyCleanUnlessRescued ==
  pc = "Sleep" /\ LongPlan /\ ctx # "Rescue" => CleanedRecently

(***************************************************************************)
(* The rescue fetch and the end of a cycle.                                *)
(***************************************************************************)
RescuePush == pc = "Push" /\ ctx = "Rescue" /\ glass' # glass

\* The extra refresh of a rescue never lands back-to-back with the push it
\* follows, whatever presses cut its pauses short (runRescueFetch,
\* nextRescueStep).
RescueNotBackToBack ==
  [][RescuePush => now - rescue.anchored_at >= Config.rescue_window_start_s]_vars

\* Every cycle ends in a sleep or a pause, even under a clock that does not
\* advance (runRescueFetch bounds its waits for this case).
CycleEnds == ~Resting ~> Resting
=============================================================================
