----------------------------- MODULE RtcMemory ------------------------------
(***************************************************************************)
(* What the RTC memory holds besides counters: the compressed framebuffer  *)
(* (Esp32PersistentStore with the codec of module Rle) and the diagnostic  *)
(* trace (module CycleTrace).  Nothing in it is written atomically: the    *)
(* encoder fills g_rle in place, pair by pair, before the length and then  *)
(* the valid flag are set, and a reset may strike anywhere in between.     *)
(***************************************************************************)
EXTENDS Rle, CycleTrace

CONSTANT Frames   \* bitmaps the pictures become

ASSUME FramesAssumption == Frames \subseteq Bitmaps

VARIABLES
  g_rle,      \* the slot's bytes, as pairs, beyond the recorded length too
  g_rle_len,  \* bytes of it that count
  g_magic,    \* g_magic = MAGIC
  g_valid,    \* g_meta.framebuffer_valid
  busy,       \* the bitmap being saved, <<>> when none is
  op,         \* pairs of it written so far; one more when the length is set
  saved,      \* history: the bitmap the recorded length belongs to, or <<>>
  touched,    \* history: how many of its pairs, or more, have since been overwritten
  torn        \* history: the bitmap whose save over it was last cut by a reset, or <<>>

slotVars == <<g_rle, g_rle_len, g_magic, g_valid, busy, op, saved, touched, torn>>

\* loadFramebuffer, <<>> when it returns 0
LoadFramebuffer ==
  IF g_magic /\ g_valid /\ g_rle_len \in 1..RleCap
  THEN DecodeDelta(SubSeq(g_rle, 1, g_rle_len \div 2))
  ELSE <<>>

SlotInit ==
  /\ g_rle = <<>> /\ g_rle_len = 0 /\ g_magic = FALSE /\ g_valid = FALSE
  /\ busy = <<>> /\ op = 0 /\ saved = <<>> /\ touched = 0 /\ torn = <<>>

Put(pairs, i, pair) == IF i \in DOMAIN pairs THEN [pairs EXCEPT ![i] = pair] ELSE Append(pairs, pair)

Overwrite(i, pair) ==
  /\ g_rle' = Put(g_rle, i, pair)
  /\ touched' = IF saved # <<>> /\ touched < i THEN i ELSE touched

SaveFramebuffer ==
  /\ busy = <<>> /\ busy' \in Frames
  /\ UNCHANGED <<g_rle, g_rle_len, g_magic, g_valid, op, saved, touched, torn>>

\* rleEncodeDelta: the next pair, over whatever was there
EncodePair ==
  /\ busy # <<>> /\ op < Len(Written(busy))
  /\ Overwrite(op + 1, Written(busy)[op + 1]) /\ op' = op + 1
  /\ UNCHANGED <<g_rle_len, g_magic, g_valid, busy, saved, torn>>

\* Mutant: a frame that does not fit leaves the old length in place
MutSetLength ==
  /\ busy # <<>> /\ op = Len(Written(busy))
  /\ g_rle_len' = (IF EncodedLen(busy) > 0 THEN EncodedLen(busy) ELSE g_rle_len)
  /\ saved' = (IF EncodedLen(busy) > 0 THEN busy ELSE <<>>)
  /\ op' = op + 1 /\ touched' = 0 /\ torn' = <<>>
  /\ UNCHANGED <<g_rle, g_magic, g_valid, busy>>

\* the length it returned, or 0 for a frame that does not fit
SetLength ==
  /\ busy # <<>> /\ op = Len(Written(busy))
  /\ g_rle_len' = EncodedLen(busy)
  /\ saved' = IF EncodedLen(busy) > 0 THEN busy ELSE <<>>
  /\ op' = op + 1 /\ touched' = 0 /\ torn' = <<>>
  /\ UNCHANGED <<g_rle, g_magic, g_valid, busy>>

SetFlag ==
  /\ busy # <<>> /\ op > Len(Written(busy))
  /\ g_valid' = (EncodedLen(busy) > 0) /\ g_magic' = TRUE
  /\ busy' = <<>> /\ op' = 0
  /\ UNCHANGED <<g_rle, g_rle_len, saved, touched, torn>>

\* saveMeta writes the flag of the caller's copy, whatever the slot holds:
\* finishColdCycle and runBwReset set it without asking saveFramebuffer
SaveMeta ==
  /\ busy = <<>>
  /\ g_valid' \in BOOLEAN /\ g_magic' = TRUE
  /\ UNCHANGED <<g_rle, g_rle_len, busy, op, saved, touched, torn>>

\* a count is written before its value: the old one stays, 0 where none was
HalfPair ==
  [run |-> Written(busy)[op + 1].run, v |-> IF op + 1 \in DOMAIN g_rle THEN g_rle[op + 1].v ELSE {}]

\* between two pairs, or within one, or while no frame is saved
SlotReset ==
  /\ \/ /\ UNCHANGED <<g_rle, touched>>
        /\ torn' = IF saved # <<>> /\ busy # <<>> /\ op \in 1..Len(Written(busy)) THEN busy ELSE torn
     \/ /\ busy # <<>> /\ op < Len(Written(busy))
        /\ Overwrite(op + 1, HalfPair) /\ torn' = IF saved # <<>> THEN busy ELSE <<>>
  /\ busy' = <<>> /\ op' = 0
  /\ UNCHANGED <<g_rle_len, g_magic, g_valid, saved>>

SlotPowerLoss ==
  /\ g_rle' = <<>> /\ g_rle_len' = 0 /\ g_magic' = FALSE /\ g_valid' = FALSE
  /\ busy' = <<>> /\ op' = 0 /\ saved' = <<>> /\ touched' = 0 /\ torn' = <<>>

rtcVars == <<traceVars, slotVars>>

Init == TraceInit /\ SlotInit

\* One thread writes both slots, so one is idle while the other is written
Next ==
  \/ busy = <<>> /\ (TracePush \/ TraceSave) /\ UNCHANGED slotVars
  \/ step = "Idle" /\ (SaveFramebuffer \/ EncodePair \/ SetLength \/ SetFlag \/ SaveMeta)
     /\ UNCHANGED traceVars
  \/ TraceReset /\ SlotReset
  \/ TracePowerLoss /\ SlotPowerLoss

Spec == Init /\ [][Next]_rtcVars

(***************************************************************************)
(* Properties                                                              *)
(***************************************************************************)
\* Whatever the callers store as the valid flag, and whether saves fail or are
\* overtaken by resets, loadFramebuffer gives back the bitmap stored last or nothing,
\* until a reset cuts the encoder writing over that bitmap
\* (Esp32PersistentStore::saveFramebuffer, rle.cpp); NeverLoadsAMix is about the rest.
LoadsWhatWasSaved ==
  busy = <<>> /\ torn = <<>> =>
    LoadFramebuffer = IF g_magic /\ g_valid THEN saved ELSE <<>>

\* IPersistentStore.h:62-63: loadFramebuffer gives the framebuffer, or 0 for
\* "nothing stored / invalid".  What its callers take for one, a load of full length,
\* would be the bitmap stored last, or the one whose save over it was cut.
NeverLoadsAMix ==
  busy = <<>> /\ Len(LoadFramebuffer) = FrameLen =>
    LoadFramebuffer \in {saved, torn}
=============================================================================
