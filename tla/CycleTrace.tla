----------------------------- MODULE CycleTrace -----------------------------
(***************************************************************************)
(* The diagnostic event memory: two rings with head and count in one RTC   *)
(* slot with its own magic (src/src/logic/cycle_trace.cpp, the trace slot  *)
(* of Esp32PersistentStore), written once per cycle by traceCycle, which   *)
(* loads the slot, pushes into the copy and saves it.  A reset may strike  *)
(* between any two of these steps.                                         *)
(***************************************************************************)
EXTENDS Integers, Sequences

CONSTANTS
  CycleCap, ErrorCap,   \* CYCLE_TRACE_CAP, ERROR_TRACE_CAP
  Instants,             \* readings of the clock at a cycle's end
  MinPlausible,         \* MIN_PLAUSIBLE_EPOCH
  Triggers,             \* CycleTrigger
  Sleeps, MaxSleep      \* planned sleeps; the largest a uint16_t holds

ASSUME CapAssumption == CycleCap \in Nat \ {0} /\ ErrorCap \in Nat \ {0}
ASSUME ReadingAssumption ==
  Instants \subseteq Nat /\ MinPlausible \in Nat /\ Sleeps \subseteq Nat /\ MaxSleep \in Nat

VARIABLES
  magic,   \* g_trace_magic = TRACE_MAGIC
  slot,    \* g_trace
  work,    \* traceCycle's copy
  step     \* how far traceCycle has come

traceVars == <<magic, slot, work, step>>

\* An entry of a ring that has never been written
Unwritten == [at |-> 0, sleep |-> 0, trigger |-> "Timer"]

EmptyRing(cap) == [buf |-> [i \in 0..(cap - 1) |-> Unwritten], head |-> 0, count |-> 0]
EmptyTrace == [cycles |-> EmptyRing(CycleCap), errors |-> EmptyRing(ErrorCap)]

\* Mutant: count keeps growing, as an 8-bit counter would without the guard
MutRingPush(ring, cap, rec) ==
  [buf   |-> [ring.buf EXCEPT ![ring.head] = rec],
   head  |-> (ring.head + 1) % cap,
   count |-> ring.count + 1]

RingPush(ring, cap, rec) ==
  [buf   |-> [ring.buf EXCEPT ![ring.head] = rec],
   head  |-> (ring.head + 1) % cap,
   count |-> IF ring.count < cap THEN ring.count + 1 ELSE ring.count]

\* Ring index of the idx-th newest entry, 0 <= idx < count.  C++ cuts the
\* remainder of a negative number towards zero, so the code adds cap and takes
\* the remainder again; TLA+ has a nonnegative remainder at once.
NewestIndex(ring, cap, idx) == (ring.head - 1 - idx) % cap

\* What traceCycleAt and traceErrorAt answer for idx = 0, 1, ..., count - 1
Newest(ring, cap) == [i \in 1..ring.count |-> ring.buf[NewestIndex(ring, cap, i - 1)]]

\* traceEpoch
TraceEpoch(now) == IF now >= MinPlausible THEN now ELSE 0

CycleRecord(now, trigger, sleep) ==
  [at |-> TraceEpoch(now), sleep |-> IF sleep < MaxSleep THEN sleep ELSE MaxSleep,
   trigger |-> trigger]
ErrorRecord(now) == [Unwritten EXCEPT !.at = TraceEpoch(now)]

CycleRecordSet == {CycleRecord(n, t, s) : n \in Instants, t \in Triggers, s \in Sleeps}
ErrorRecordSet == {ErrorRecord(n) : n \in Instants}

LoadTrace == IF magic THEN slot ELSE EmptyTrace

TraceInit ==
  /\ magic = FALSE /\ slot = EmptyTrace /\ work = EmptyTrace /\ step = "Idle"

\* traceCycle up to its pushes; every cycle that failed to connect adds an anomaly
TracePush ==
  /\ step = "Idle" /\ step' = "Pushed"
  /\ \E now \in Instants, trigger \in Triggers, sleep \in Sleeps, wifi_failed \in BOOLEAN :
       work' = [cycles |-> RingPush(LoadTrace.cycles, CycleCap, CycleRecord(now, trigger, sleep)),
                errors |-> IF wifi_failed
                           THEN RingPush(LoadTrace.errors, ErrorCap, ErrorRecord(now))
                           ELSE LoadTrace.errors]
  /\ UNCHANGED <<magic, slot>>

\* saveTrace
TraceSave ==
  /\ step = "Pushed" /\ step' = "Idle"
  /\ slot' = work /\ magic' = TRUE /\ work' = EmptyTrace

\* RTC memory survives every reset but a loss of power
TraceReset == step' = "Idle" /\ work' = EmptyTrace /\ UNCHANGED <<magic, slot>>
TracePowerLoss == step' = "Idle" /\ work' = EmptyTrace /\ magic' = FALSE /\ slot' = EmptyTrace

TraceNext == TracePush \/ TraceSave \/ TraceReset \/ TracePowerLoss
TraceSpec == TraceInit /\ [][TraceNext]_traceVars

(***************************************************************************)
(* Properties                                                              *)
(***************************************************************************)
Log == INSTANCE TraceLog WITH
         CycleRecords <- CycleRecordSet, ErrorRecords <- ErrorRecordSet,
         cycles <- Newest(LoadTrace.cycles, CycleCap),
         errors <- Newest(LoadTrace.errors, ErrorCap)

\* What the diagnostic pages read from the two rings is a bounded log, newest
\* first, through wrapping and saturation, and a reset between the pushes and
\* the save loses a whole cycle or nothing (cycle_trace.cpp, traceCycle).
TraceIsLog == Log!Spec
=============================================================================
