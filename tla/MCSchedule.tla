----------------------------- MODULE MCSchedule -----------------------------
(***************************************************************************)
(* Model values for ScheduleHints: a day of eight minutes of two seconds.  *)
(* Line 58A runs past midnight towards Hietzing; a foreign line shares the *)
(* stop of 58B and eats into its answers.                                  *)
(***************************************************************************)
EXTENDS ScheduleHints

MCStreams == <<"58A_ATZ", "58A_HIETZING", "58B_ATZ", "SBAHN_HBF">>
MCDiva == [s \in ToSet(MCStreams) |-> CASE s = "58B_ATZ" -> 2 [] s = "SBAHN_HBF" -> 0 [] OTHER -> 1]
MCTimetable == [l \in (ToSet(MCStreams) \ {"SBAHN_HBF"}) \cup {"N62"} |->
                  CASE l = "58A_ATZ"      -> {4, 6, 12, 14}
                    [] l = "58A_HIETZING" -> {0, 4, 8, 14}
                    [] l = "58B_ATZ"      -> {4, 8, 10}
                    [] l = "N62"          -> {0, 6}]
MCStopOf == [l \in DOMAIN MCTimetable |-> IF l \in {"58B_ATZ", "N62"} THEN 2 ELSE 1]
MCDelays == {-1, 1, 4, 9}

\* a board that has loaded its hints the evening before: what a cold boot in the
\* evening and its first refresh, every call answered, lead to
InitLoaded ==
  /\ now \in {Day + b : b \in Boots}
  /\ hint = FetchSchedule([d \in Divas |-> TRUE]) /\ fetchedAt = now
  /\ took = [s \in ToSet(Streams) |-> IF Diva[s] \in Divas THEN now ELSE 0]
SpecLoaded == InitLoaded /\ [][Next]_vars
=============================================================================
