------------------------------- MODULE MCRtc --------------------------------
(***************************************************************************)
(* Model values for the runs of RtcMemory: frames of rows of two bytes,    *)
(* whose runs cross rows and are cut at the longest count; some fill the   *)
(* slot, one overflows it.  The frames of two rows leave room for rings    *)
(* that wrap; among those of three rows are pairs whose mix has the length *)
(* of a frame.                                                             *)
(***************************************************************************)
EXTENDS RtcMemory

MCBits == {0}

\* The frame of two or three rows with these deltas
OfDeltas(d) ==
  [i \in DOMAIN d |-> IF i <= 2 THEN d[i]
                      ELSE IF i <= 4 THEN Xor(d[i], d[i - 2])
                      ELSE Xor(d[i], Xor(d[i - 2], d[i - 4]))]

\* Blank, and by their deltas: two of two pairs, one of three
MCFrames ==
  LET o == {}  x == {0}
  IN  {OfDeltas(d) : d \in {<<o, o, o, o>>, <<x, x, o, o>>, <<o, o, o, x>>, <<x, o, x, x>>}}

\* Blank, filled, and by their deltas: two of three pairs, one of four
MCTallFrames ==
  LET o == {}  x == {0}
  IN  {OfDeltas(d) : d \in {<<o, o, o, o, o, o>>, <<x, x, x, x, x, x>>, <<x, x, o, o, x, x>>,
                            <<o, o, o, x, o, o>>, <<x, o, x, o, o, o>>}}

MCInstant == {9}
MCInstants == {3, 9}
MCTriggers == {"Timer"}
MCSleeps == {1}
=============================================================================
