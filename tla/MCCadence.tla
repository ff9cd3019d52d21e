----------------------------- MODULE MCCadence ------------------------------
(***************************************************************************)
(* Model values for the runs of NoNetCadence.                              *)
(***************************************************************************)
EXTENDS NoNetCadence, MCCycle

\* An eight-valued counter wraps within the horizon; a repaint every third cycle
\* does not divide it, as 5 does not divide 256.
CadenceConfig ==
  [MCConfig EXCEPT !.no_wifi_repaint_every = 3, !.uint8_modulus = 8, !.cold_boot_retry_s = 1]
CadenceWorld ==
  [Calm EXCEPT !.wifi = {"Up", "Down"}, !.fetch = {"Failed"}, !.auth_errors = {TRUE},
               !.press = {"Short"}, !.resets = {"PowerLoss", "Other"}, !.max_resets = 2,
               !.boards = {"A"}, !.departures = {0}, !.horizon = 38]
=============================================================================
