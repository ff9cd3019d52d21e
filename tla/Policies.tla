------------------------------ MODULE Policies ------------------------------
(***************************************************************************)
(* The pure decision functions of src/src/logic: which cycle a wake runs,  *)
(* which screen it shows, how the panel is refreshed, how long the device  *)
(* sleeps and when a rescue fetch is due.  They read no state of their     *)
(* own; module CycleRunner calls them from its actions.                    *)
(*                                                                         *)
(* Config is the program's CycleConfig, with the few tunables the policies *)
(* take as compile-time constants.  World says what the environment may do *)
(* and bounds a run.  All times are in one unit, chosen by the run.        *)
(*                                                                         *)
(* Definitions marked "Mutant" are plausible mistakes.  No specification   *)
(* uses them; put in place of the definition they precede, each makes the  *)
(* property named in PROJECT.json fail.                                    *)
(***************************************************************************)
EXTENDS Integers

CONSTANTS
  Config,        \* tunables of the firmware (config.h, cycle_runner.h)
  World,         \* what network, clock, user and power supply may do
  NoDeparture    \* "no valid slot on the merged board"

Positive == Nat \ {0}

ASSUME ConfigAssumption ==
  Config \in [
    poll_interval_s : Positive,       cold_boot_retry_s : Positive,
    wifi_auth_sleep_s : Positive,     no_data_sleep_s : Positive,
    api_failure_retry_s : Positive,   cold_boot_max_retries : Positive,
    no_wifi_repaint_every : Positive, partial_hardcap : Positive,
    light_full_every_s : Nat,         offline_threshold_s : Nat,
    ntp_interval_s : Nat,             max_wake_overshoot_s : Nat,
    wake_before_bus_s : Nat,          boot_margin_s : Nat,
    active_threshold_s : Positive,    long_sleep_for_nightly_clean_s : Nat,
    nightly_deep_clean_interval_s : Nat,
    rescue_window_start_s : Nat,      rescue_window_end_s : Nat,
    rescue_retry_pause_s : Nat,       rescue_max_attempts : Nat,
    boot_info_show_s : Nat,           brownout_show_s : Nat,
    diag_max_s : Nat,                 stamp_unit_s : Positive,
    uint8_modulus : Positive ]

\* departures are offsets of the earliest departure from the moment of a fetch;
\* epoch is both the first plausible reading (MIN_PLAUSIBLE_EPOCH) and the
\* time at which a run starts; horizon and max_resets bound a run.
ASSUME WorldAssumption ==
  World \in [
    wifi : SUBSET {"Up", "Down", "AuthFailed"},
    fetch : SUBSET {"Complete", "Partial", "Failed"},
    auth_errors : SUBSET {TRUE},
    link : SUBSET BOOLEAN,            ntp : SUBSET BOOLEAN,
    schedule : SUBSET {"Kept", "Refreshed"},
    saved : SUBSET BOOLEAN,           press : SUBSET {"Short", "Long", "Double"},
    resets : SUBSET {"PowerLoss", "Brownout", "WatchdogOrPanic", "Other"},
    clock : SUBSET {"Good", "Ahead", "Unsynced"},
    boards : SUBSET STRING,           scans : SUBSET STRING,
    delays : SUBSET Nat,              departures : SUBSET (Nat \cup {NoDeparture}),
    skew : Nat, epoch : Positive, horizon : Nat, max_resets : Nat ]

ASSUME NoDepartureAssumption == NoDeparture \notin Int

(***************************************************************************)
(* Routing (selectCycle) and the screen of a cycle (selectDisplayState).   *)
(***************************************************************************)
\* Mutant: every reset that is not a deep-sleep wake counts as a cold boot.
SelectCycleByCause(cause, cold_boot_retries, has_any_data) ==
  IF cause = "Button" THEN "Press"
  ELSE IF cause = "ColdBoot" \/ cold_boot_retries > 0 \/ ~has_any_data THEN "Cold" ELSE "Warm"

SelectCycle(cause, cold_boot_retries, has_any_data) ==
  IF cause = "Button" THEN "Press"
  ELSE IF cold_boot_retries > 0 \/ ~has_any_data THEN "Cold" ELSE "Warm"

SelectDisplayState(auth_error_seen, has_any_data, wifi_up, now, last_success) ==
  CASE auth_error_seen -> "Auth"
    [] ~auth_error_seen /\ ~has_any_data -> "Boot"
    [] /\ ~auth_error_seen /\ has_any_data
       /\ ~wifi_up /\ now - last_success > Config.offline_threshold_s -> "Offline"
    [] OTHER -> "Normal"

(***************************************************************************)
(* planRefresh: a full refresh when the previous frame is unusable, the    *)
(* last full is too old, too many partials have accumulated, or the panel  *)
(* RAM cannot be trusted.                                                  *)
(***************************************************************************)
\* Mutant: one partial too many.
FullRefreshDueLate(now, last_light_full, partial_count, panel_ram_untrusted) ==
  \/ last_light_full = 0
  \/ now - last_light_full >= Config.light_full_every_s
  \/ partial_count > Config.partial_hardcap
  \/ panel_ram_untrusted

FullRefreshDue(now, last_light_full, partial_count, panel_ram_untrusted) ==
  \/ last_light_full = 0
  \/ now - last_light_full >= Config.light_full_every_s
  \/ partial_count >= Config.partial_hardcap
  \/ panel_ram_untrusted

PlanRefresh(prev, curr, prev_valid, now, last_light_full, partials, untrusted) ==
  CASE ~prev_valid -> "LightFull"
    [] prev_valid /\ prev = curr -> "None"
    [] /\ prev_valid /\ prev # curr
       /\ FullRefreshDue(now, last_light_full, partials, untrusted) -> "LightFull"
    [] OTHER -> "Partial"

(***************************************************************************)
(* planSleep and the nightly promotion.  t_ref is the earliest valid slot. *)
(***************************************************************************)
Sleep(seconds) == [mode |-> "DeepSleep", seconds |-> seconds]
StayActive == [mode |-> "Active", seconds |-> 0]

\* Mutant: a failed fetch plans from the timetable like any other.
PlanSleepFromHints(api_ok, t_ref, now) ==
  IF t_ref = NoDeparture THEN Sleep(Config.no_data_sleep_s)
  ELSE LET delta == t_ref - Config.wake_before_bus_s - Config.boot_margin_s - now
       IN  IF delta >= Config.active_threshold_s THEN Sleep(delta) ELSE StayActive

\* Mutant: the lead before the departure is forgotten.
PlanSleepWithoutLead(api_ok, t_ref, now) ==
  IF ~api_ok THEN Sleep(Config.api_failure_retry_s)
  ELSE IF t_ref = NoDeparture THEN Sleep(Config.no_data_sleep_s)
  ELSE IF t_ref - now >= Config.active_threshold_s THEN Sleep(t_ref - now) ELSE StayActive

PlanSleep(api_ok, t_ref, now) ==
  IF ~api_ok THEN Sleep(Config.api_failure_retry_s)
  ELSE IF t_ref = NoDeparture THEN Sleep(Config.no_data_sleep_s)
  ELSE LET delta == t_ref - Config.wake_before_bus_s - Config.boot_margin_s - now
       IN  IF delta >= Config.active_threshold_s THEN Sleep(delta) ELSE StayActive

\* Mutant: due only after the interval.
NeedsNightlyDeepCleanLate(now, last_deep_clean) ==
  \/ last_deep_clean = 0
  \/ now - last_deep_clean > Config.nightly_deep_clean_interval_s /\ now >= last_deep_clean

NeedsNightlyDeepClean(now, last_deep_clean) ==
  \/ last_deep_clean = 0
  \/ now - last_deep_clean >= Config.nightly_deep_clean_interval_s /\ now >= last_deep_clean

ShouldPromoteToNightlyClean(plan, now, last_deep_clean) ==
  /\ plan.mode = "DeepSleep"
  /\ plan.seconds > Config.long_sleep_for_nightly_clean_s
  /\ NeedsNightlyDeepClean(now, last_deep_clean)

(***************************************************************************)
(* nextRescueStep; RescueWaitFor is the wait it returns with "Wait".       *)
(***************************************************************************)
\* Mutant: no lower bound of the window.
NextRescueStepAtOnce(now, anchored_at) ==
  IF now < anchored_at \/ now - anchored_at > Config.rescue_window_end_s
  THEN "Stop" ELSE "Retry"

NextRescueStep(now, anchored_at) ==
  CASE now < anchored_at \/ now - anchored_at > Config.rescue_window_end_s -> "Stop"
    [] /\ now >= anchored_at /\ now - anchored_at <= Config.rescue_window_end_s
       /\ now - anchored_at < Config.rescue_window_start_s -> "Wait"
    [] OTHER -> "Retry"

RescueWaitFor(now, anchored_at) == Config.rescue_window_start_s - (now - anchored_at)

(***************************************************************************)
(* clockDriftedAhead: the reading lies too far past the planned wake-up.   *)
(***************************************************************************)
IsPlausible(reading) == reading >= World.epoch

ClockDriftedAhead(now, expected_wake_at) ==
  IsPlausible(expected_wake_at) /\ now > expected_wake_at + Config.max_wake_overshoot_s

(***************************************************************************)
(* The text of "upd HH:MM": readings of one minute print the same, and a   *)
(* zero time prints nothing.                                               *)
(***************************************************************************)
Stamp(t) == IF t = 0 THEN 0 ELSE 1 + t \div Config.stamp_unit_s

=============================================================================
