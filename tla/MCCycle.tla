------------------------------ MODULE MCCycle -------------------------------
(***************************************************************************)
(* Model values for the runs of CycleRunner.  Times are scaled so that     *)
(* every interval of config.h keeps its place in the order                 *)
(*   poll < api retry, cold retry < offline < no-data < light full < NTP,  *)
(* as far as the question of the run needs it.                             *)
(***************************************************************************)
EXTENDS CycleProperties

MCConfig ==
  [poll_interval_s |-> 1,       cold_boot_retry_s |-> 2,
   wifi_auth_sleep_s |-> 4,     no_data_sleep_s |-> 4,
   api_failure_retry_s |-> 2,   cold_boot_max_retries |-> 2,
   no_wifi_repaint_every |-> 2, partial_hardcap |-> 2,
   light_full_every_s |-> 5,    offline_threshold_s |-> 2,
   ntp_interval_s |-> 20,       max_wake_overshoot_s |-> 20,
   wake_before_bus_s |-> 1,     boot_margin_s |-> 1,
   active_threshold_s |-> 1,    long_sleep_for_nightly_clean_s |-> 4,
   nightly_deep_clean_interval_s |-> 6,
   rescue_window_start_s |-> 1, rescue_window_end_s |-> 2,
   rescue_retry_pause_s |-> 1,  rescue_max_attempts |-> 2,
   boot_info_show_s |-> 0,      brownout_show_s |-> 1,
   diag_max_s |-> 1,            stamp_unit_s |-> 1,
   uint8_modulus |-> 256]

\* A calm world: everything answers, nobody presses, nothing resets.
Calm ==
  [wifi |-> {"Up"}, fetch |-> {"Complete"}, auth_errors |-> {}, link |-> {TRUE},
   ntp |-> {TRUE}, schedule |-> {"Kept"}, saved |-> {TRUE}, press |-> {},
   resets |-> {}, clock |-> {"Good"}, boards |-> {"A", "B"}, scans |-> {"NoNet"},
   delays |-> {0}, departures |-> {0, 8},
   skew |-> 0, epoch |-> 30,
   horizon |-> 38, max_resets |-> 0]

\* panel.cfg: every way the glass and the framebuffer slot can part company, every
\* way out of a cycle that saves the partial counter or does not, and the cold path,
\* its retries and what can interrupt it
PanelConfig ==
  [MCConfig EXCEPT !.partial_hardcap = 1, !.offline_threshold_s = 0, !.boot_info_show_s = 1]
PanelWorld ==
  [Calm EXCEPT !.wifi = {"Up", "Down", "AuthFailed"}, !.fetch = {"Complete", "Failed"},
               !.ntp = BOOLEAN, !.saved = BOOLEAN,
               !.press = {"Short", "Long"}, !.resets = {"PowerLoss", "Brownout"},
               !.max_resets = 2, !.departures = {0}, !.horizon = 31]

\* sleep.cfg: stale plans, ahead and lost clocks, failing and late answers
SleepConfig ==
  [MCConfig EXCEPT !.wake_before_bus_s = 4, !.max_wake_overshoot_s = 3,
                   !.wifi_auth_sleep_s = 6, !.nightly_deep_clean_interval_s = 5]
SleepWorld ==
  [Calm EXCEPT !.wifi = {"Up", "AuthFailed"}, !.fetch = {"Complete", "Partial", "Failed"},
               !.ntp = BOOLEAN, !.schedule = {"Kept", "Refreshed"},
               !.clock = {"Good", "Ahead", "Unsynced"}, !.boards = {"A"}, !.delays = {0, 1},
               !.departures = {0, 12, NoDeparture}, !.skew = 5, !.horizon = 32]

\* rescue.cfg: incomplete snapshots, presses that cut pauses, waits in which no
\* time passes
RescueWorld ==
  [Calm EXCEPT !.wifi = {"Up", "Down"}, !.fetch = {"Complete", "Partial", "Failed"},
               !.press = {"Short", "Double"}, !.boards = {"A"}, !.delays = {0, 1},
               !.departures = {0}, !.horizon = 31]
=============================================================================
