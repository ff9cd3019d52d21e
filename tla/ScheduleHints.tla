--------------------------- MODULE ScheduleHints ----------------------------
(***************************************************************************)
(* The timetable hints over several days: when they are refreshed          *)
(* (src/src/logic/schedule_refresh.cpp), what one pass over the EFA        *)
(* endpoint asks for and what survives a call that fails                   *)
(* (schedule_fetcher.cpp), how an answer is split at the cutoff            *)
(* (src/src/data/efa_parse.cpp), and what the merged row shows             *)
(* (SlotMerger).  Time is local time, in parts of a minute.                *)
(***************************************************************************)
EXTENDS SlotMerger

CONSTANTS
  Day,          \* SECONDS_PER_DAY
  CutoffHour,   \* cutoff_hour, as a time of day
  QueryHour,    \* query_hour, as a time of day
  MaxAge,       \* SCHEDULE_HINT_MAX_AGE_S
  Limit,        \* departures EFA returns for one call
  Streams,      \* the streams of the board, in filter order
  Diva,         \* the DIVA of each stream, 0 for none
  Timetable,    \* for each line at a stop the times of day it departs at
  StopOf,       \* the DIVA each line of Timetable departs at
  CallOk,       \* what may become of a call: subset of BOOLEAN
  Delays,       \* realtime departures relative to now
  Boots,        \* when the device may be switched on, in the first day
  LastDay       \* bound: days of a behaviour

Lines == DOMAIN Timetable       \* the streams with a DIVA, and foreign lines

ASSUME ScheduleAssumption ==
  /\ Day \in Nat \ {0} /\ CutoffHour \in 0..Day - 1 /\ QueryHour \in 0..Day - 1
  /\ Boots \subseteq 0..Day - 1 /\ MaxAge \in Nat /\ Limit \in Nat /\ CallOk \subseteq BOOLEAN
  /\ LastDay \in Nat \ {0} /\ Delays \subseteq Int
  /\ IsFiniteSet(Lines) /\ Timetable \in [Lines -> SUBSET (0..Day - 1)]
  /\ \A s \in ToSet(Streams) : Diva[s] # 0 => s \in Lines /\ StopOf[s] = Diva[s]

VARIABLES
  now,        \* wall clock
  hint,       \* for each stream its ScheduleHint
  fetchedAt,  \* ScheduleSnapshot::fetched_at
  took        \* history: when the hint of a stream was last replaced

vars == <<now, hint, fetchedAt, took>>

NoHint == [last_today |-> 0, next_today |-> <<0, 0>>, first_tomorrow |-> <<0, 0>>]

Midnight(t) == (t \div Day) * Day

\* Mutant: the boundary is always tomorrow's cutoff
MutComputeCutoff(t) == Midnight(t) + Day + CutoffHour

\* computeCutoff: the next cutoff after t
ComputeCutoff(t) ==
  IF Midnight(t) + CutoffHour > t THEN Midnight(t) + CutoffHour
                                  ELSE Midnight(t) + Day + CutoffHour

\* the anchor of the query, never in the future
QueryTime(t) == IF Midnight(t) + QueryHour > t THEN t ELSE Midnight(t) + QueryHour

(***************************************************************************)
(* The EFA endpoint: the first Limit departures of all lines of a stop.    *)
(***************************************************************************)
Departures(line) == {d * Day + x : d \in 0..LastDay + 2, x \in Timetable[line]}

AnswerTo(diva, t) ==
  LET coming == UNION {{[line |-> l, when |-> d] : d \in {d \in Departures(l) : d >= t}}
                         : l \in {l \in Lines : StopOf[l] = diva}}
      inOrder == FoldSet(LAMBDA d, sorted : Place(sorted, d), <<>>, coming)
  IN  SubSeq(inOrder, 1, IF Len(inOrder) < Limit THEN Len(inOrder) ELSE Limit)

Divas == {Diva[s] : s \in ToSet(Streams)} \ {0}

\* as a function of the call, so that it is worked out once
EfaAnswer == [d \in Divas |-> [t \in 0..(LastDay + 1) * Day |-> AnswerTo(d, t)]]

(***************************************************************************)
(* consumeEfaDoc for one stream: each departure of its line and direction, *)
(* in document order.  Only the last two before the cutoff and the first   *)
(* two after it are kept.                                                  *)
(***************************************************************************)
TakeDeparture(h, t, cutoff) ==
  IF t < cutoff
  THEN [h EXCEPT !.last_today = t, !.next_today = <<h.next_today[2], t>>]
  ELSE IF h.first_tomorrow[1] = 0 THEN [h EXCEPT !.first_tomorrow[1] = t]
  ELSE IF h.first_tomorrow[2] = 0 THEN [h EXCEPT !.first_tomorrow[2] = t]
  ELSE h

ConsumeEfaDoc(doc, s, cutoff) ==
  LET taken[n \in 0..Len(doc)] ==
        IF n = 0 THEN NoHint
        ELSE IF doc[n].line = s THEN TakeDeparture(taken[n - 1], doc[n].when, cutoff)
        ELSE taken[n - 1]
  IN  taken[Len(doc)]

(***************************************************************************)
(* fetchSchedule: one call for each distinct DIVA; a call the heap guard   *)
(* skips counts like one that failed, and is not repeated.                 *)
(***************************************************************************)
FetchSchedule(answered) ==
  [s \in ToSet(Streams) |->
     IF Diva[s] \in Divas /\ answered[Diva[s]]
     THEN ConsumeEfaDoc(EfaAnswer[Diva[s]][QueryTime(now)], s, ComputeCutoff(now))
     ELSE NoHint]

Carries(h) ==
  h.first_tomorrow[1] # 0 \/ h.last_today # 0 \/ \E i \in 1..2 : h.next_today[i] # 0

Apply(r) ==
  /\ hint' = [s \in ToSet(Streams) |-> IF Carries(r[s]) THEN r[s] ELSE hint[s]]
  /\ took' = [s \in ToSet(Streams) |-> IF Carries(r[s]) THEN now ELSE took[s]]

NeedScheduleRefresh ==
  \/ fetchedAt = 0
  \/ now - fetchedAt >= MaxAge
  \/ /\ fetchedAt < Midnight(now)
     /\ \E s \in ToSet(Streams) : hint[s].last_today # 0 /\ now > hint[s].last_today

Init ==
  /\ now \in {Day + b : b \in Boots}
  /\ hint = [s \in ToSet(Streams) |-> NoHint] /\ fetchedAt = 0
  /\ took = [s \in ToSet(Streams) |-> 0]

Tick == now < (LastDay + 1) * Day - 1 /\ now' = now + 1 /\ UNCHANGED <<hint, fetchedAt, took>>

\* refreshSchedule in a cycle that finds the hints due
Refresh ==
  /\ NeedScheduleRefresh
  /\ \E answered \in [Divas -> CallOk] :
       IF \E d \in Divas : answered[d]
       THEN Apply(FetchSchedule(answered)) /\ fetchedAt' = now
       ELSE UNCHANGED <<hint, took, fetchedAt>>
  /\ UNCHANGED now

Next == Tick \/ Refresh
Spec == Init /\ [][Next]_vars

-----------------------------------------------------------------------------
Usable == fetchedAt # 0 /\ now - fetchedAt < MaxAge

HintTimes(s) == IF Usable THEN hint[s].next_today \o hint[s].first_tomorrow ELSE <<>>
Row(realtime, s) == MergeSlots(realtime, HintTimes(s), now)

Realtimes ==
  {[i \in DOMAIN r |-> Departure(now + r[i], "Realtime")] : r \in BoundedSeq(Delays, MaxSlots)}

(***************************************************************************)
(* Whatever hints have survived and whatever realtime departures arrive,   *)
(* in any order, late ones and repeated minutes among them, the row shows  *)
(* the next departures of both, none lost and none twice                   *)
(* (slot_merger.cpp:23-55, 59-95).                                         *)
(***************************************************************************)
RowIsNextDepartures ==
  \A s \in ToSet(Streams) : \A rt \in Realtimes :
    Row(rt, s) = NextDepartures(rt, HintTimes(s), now)

(***************************************************************************)
(* The gap the hints are there to bridge: from the last but one departure  *)
(* before the cutoff to the second one after it a row without realtime     *)
(* shows the very next departures of the stream, of its own line and       *)
(* direction, whatever the calls for other stops did since, provided the   *)
(* answer it was built from reached that far and no line departs twice in  *)
(* a minute (efa_parse.cpp:61-117).                                        *)
(***************************************************************************)
MinutesApart ==
  \A line \in Lines : \A d, e \in Departures(line) : d \div Minute = e \div Minute => d = e

Coming(s, from) == {d \in Departures(s) : d >= from}

NextCutoff(t) ==      \* on the calendar
  CHOOSE c \in t + 1..t + Day : c % Day = CutoffHour

Reaches(s, f) ==      \* the answer of the refresh at f covers two departures past the cutoff
  LET answer == EfaAnswer[Diva[s]][QueryTime(f)]
  IN  Cardinality({i \in DOMAIN answer : answer[i].line = s /\ answer[i].when >= NextCutoff(f)}) >= 2

Bridged(s, f) ==      \* the departures the hints of the refresh at f stand for
  LET before == {d \in Coming(s, f) : d < NextCutoff(f)}
      after == Coming(s, NextCutoff(f))
  IN  {d \in before : Cardinality({e \in before : e > d}) < 2}
        \cup {d \in after : Cardinality({e \in after : e < d}) < 2}

BridgesTheNight ==
  \A s \in ToSet(Streams) :
    MinutesApart /\ took[s] # 0 /\ Usable /\ Reaches(s, took[s]) =>
      LET ahead == {d \in Bridged(s, took[s]) : d >= now}
          shown == {Row(<<>>, s)[i].when : i \in DOMAIN Row(<<>>, s)}
      IN  /\ shown \subseteq ahead
          /\ \A d \in ahead : Cardinality({e \in ahead : e < d}) < MaxSlots => d \in shown

(***************************************************************************)
(* ScheduleHint.h:10-13: the hints are "loaded once a day" so that "the    *)
(* display answers 'wann faehrt der Bus in der Frueh?' in the evening".    *)
(* In the evening, with no refresh due, the row of a stream would name the *)
(* first departure after the coming cutoff.                                *)
(***************************************************************************)
MorningBusKnown ==
  \A s \in {s \in ToSet(Streams) : Diva[s] # 0} :
    now >= Midnight(now) + QueryHour /\ ~NeedScheduleRefresh =>
      \E i \in DOMAIN Row(<<>>, s) :
        Row(<<>>, s)[i].when = CHOOSE d \in Coming(s, ComputeCutoff(now)) :
                                 \A e \in Coming(s, ComputeCutoff(now)) : d <= e
=============================================================================
