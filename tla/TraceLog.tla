------------------------------ MODULE TraceLog ------------------------------
(***************************************************************************)
(* What the diagnostic event memory promises (src/src/data/CycleTrace.h):  *)
(* a compact history of the latest cycles and, kept apart so that it does  *)
(* not scroll out with them, of the latest anomalies.  Newest first, no    *)
(* gaps, bounded; a cycle is entered together with its anomaly or not at   *)
(* all; losing power empties both.  Module CycleTrace implements this with *)
(* two rings in RTC memory.                                                *)
(***************************************************************************)
EXTENDS Integers, Sequences

CONSTANTS CycleRecords, ErrorRecords, CycleCap, ErrorCap

VARIABLES cycles, errors

\* The log with rec entered, cut to its cap
Entered(rec, log, cap) ==
  [i \in 1..(IF Len(log) < cap THEN Len(log) + 1 ELSE cap) |->
     IF i = 1 THEN rec ELSE log[i - 1]]

Init == cycles = <<>> /\ errors = <<>>

LogCycle ==
  /\ \E rec \in CycleRecords : cycles' = Entered(rec, cycles, CycleCap)
  /\ \/ \E err \in ErrorRecords : errors' = Entered(err, errors, ErrorCap)
     \/ UNCHANGED errors

LosePower == cycles' = <<>> /\ errors' = <<>>

Next == LogCycle \/ LosePower

Spec == Init /\ [][Next]_<<cycles, errors>>
=============================================================================
