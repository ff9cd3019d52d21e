-------------------------------- MODULE Rle ---------------------------------
(***************************************************************************)
(* The framebuffer codec (src/src/render/rle.cpp): a frame is written row  *)
(* by row as the exclusive-or with the row above, then as (count, value)   *)
(* pairs.  A byte is the set of its bits that are one.                     *)
(***************************************************************************)
EXTENDS Integers, Sequences, FiniteSetsExt

CONSTANTS
  Bits,      \* bit positions of a byte
  Rows,      \* rows of the panel
  Stride,    \* bytes per row: FB_STRIDE, EPD_WIDTH / 8
  MaxRun,    \* RLE_MAX_RUN, the largest count one byte holds
  RleCap     \* RLE_CAP, the bytes of the slot

ASSUME RleAssumption ==
  /\ Rows \in Nat \ {0} /\ Stride \in Nat \ {0} /\ MaxRun \in Nat \ {0} /\ RleCap \in Nat

Byte == SUBSET Bits
FrameLen == Rows * Stride
Bitmaps == [1..FrameLen -> Byte]

Xor(a, b) == (a \ b) \cup (b \ a)

\* delta: a byte of the row XOR the one above it
Delta(in) == [i \in DOMAIN in |-> IF i <= Stride THEN in[i] ELSE Xor(in[i], in[i - Stride])]

\* Length of the run starting at ip, cut at what one count byte can say
RunAt(in, ip) ==
  Max({n \in 1..MaxRun : ip + n - 1 <= Len(in) /\ \A k \in 0..(n - 1) : in[ip + k] = in[ip]})

\* The pairs rleEncode writes when the buffer is large enough
Pairs(in) ==
  LET from[ip \in 1..(Len(in) + 1)] ==
        IF ip > Len(in) THEN <<>>
        ELSE <<[run |-> RunAt(in, ip), v |-> in[ip]]>> \o from[ip + RunAt(in, ip)]
  IN  from[1]

\* What lands in the buffer: every pair that still fits
Written(in) == LET pairs == Pairs(Delta(in))
               IN  SubSeq(pairs, 1, Min({Len(pairs), RleCap \div 2}))

\* Bytes rleEncodeDelta reports, 0 when they do not fit
EncodedLen(in) == IF 2 * Len(Pairs(Delta(in))) <= RleCap THEN 2 * Len(Pairs(Delta(in))) ELSE 0

\* rleDecode: the bytes the pairs stand for, <<>> for a zero count or an overflow
Decode(pairs) ==
  LET upTo[n \in 0..Len(pairs)] ==
        IF n = 0 THEN <<>> ELSE upTo[n - 1] \o [i \in 1..pairs[n].run |-> pairs[n].v]
      out == upTo[Len(pairs)]
  IN  IF (\E n \in DOMAIN pairs : pairs[n].run = 0) \/ Len(out) > FrameLen THEN <<>> ELSE out

\* rleDecodeDelta: undo the deltas front to back
DecodeDelta(pairs) ==
  LET in == Decode(pairs)
      plain[i \in DOMAIN in] == IF i <= Stride THEN in[i] ELSE Xor(in[i], plain[i - Stride])
  IN  [i \in DOMAIN in |-> plain[i]]
=============================================================================
