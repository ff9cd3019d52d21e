----------------------------- MODULE SlotMerger -----------------------------
(***************************************************************************)
(* What a row of the board shows: the realtime departures of a stream and  *)
(* its timetable hints merged into at most SLOTS_PER_STREAM departures     *)
(* (src/src/logic/slot_merger.cpp).  A slot array is the sequence of its   *)
(* valid entries: the code fills it from the front.                        *)
(***************************************************************************)
EXTENDS Integers, SequencesExt

CONSTANTS
  Minute,    \* SECONDS_PER_MINUTE
  MaxSlots   \* SLOTS_PER_STREAM

ASSUME MergerAssumption == Minute \in Nat \ {0} /\ MaxSlots \in Nat \ {0}

Departure(t, source) == [when |-> t, source |-> source]
Hints(times) == [i \in DOMAIN times |-> Departure(times[i], "Hint")]
MinuteOf(d) == d.when \div Minute

\* before the first later departure
Place(out, cand) ==
  InsertAt(out, 1 + Cardinality({i \in DOMAIN out : out[i].when <= cand.when}), cand)

\* Mutant: a full list is never displaced by an earlier departure
MutInsertSorted(out, cand) ==
  IF (\E i \in DOMAIN out : MinuteOf(out[i]) = MinuteOf(cand)) \/ Len(out) = MaxSlots
  THEN out ELSE Place(out, cand)

\* A minute is shown once and by whoever came first; a full list gives up its
\* last departure for an earlier one.
InsertSorted(out, cand) ==
  IF \E i \in DOMAIN out : MinuteOf(out[i]) = MinuteOf(cand) THEN out
  ELSE IF Len(out) < MaxSlots THEN Place(out, cand)
  ELSE IF cand.when < Last(out).when THEN Place(Front(out), cand)
  ELSE out

\* departures that have left are passed over, and so are hints of 0
Offered(d, t) == d.when >= t /\ (d.source = "Hint" => d.when # 0)

\* mergeSlots for one stream; hints are the times of its hint, 0 for none
MergeSlots(realtime, hints, t) ==
  LET all == realtime \o Hints(hints)
      merged[n \in 0..Len(all)] ==
        IF n = 0 THEN <<>>
        ELSE IF Offered(all[n], t) THEN InsertSorted(merged[n - 1], all[n])
        ELSE merged[n - 1]
  IN  merged[Len(all)]

(***************************************************************************)
(* What a reader of the board expects of it: of all departures ahead the   *)
(* next MaxSlots, one per minute, in order, and where realtime and the     *)
(* timetable name the same minute the realtime one.                        *)
(***************************************************************************)
\* What counts of all: of the departures offered, the first of each minute
Kept(all, t) ==
  LET offered == {i \in DOMAIN all : Offered(all[i], t)}
  IN  {all[i] : i \in {i \in offered :
                       \A j \in offered : j < i => MinuteOf(all[j]) # MinuteOf(all[i])}}

NextDepartures(realtime, hints, t) ==
  LET kept == Kept(realtime \o Hints(hints), t)
      rank(d) == Cardinality({e \in kept : e.when < d.when})
  IN  [n \in {n \in 1..MaxSlots : n <= Cardinality(kept)} |->
         CHOOSE d \in kept : rank(d) = n - 1]
=============================================================================
