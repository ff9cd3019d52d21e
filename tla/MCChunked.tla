----------------------------- MODULE MCChunked ------------------------------
(***************************************************************************)
(* Messages for ChunkedStream: up to two chunks of up to two bytes, of     *)
(* which one is a digit and one a carriage return, in every way a server   *)
(* may frame them; and one whose size takes two digits, on a line that     *)
(* does not fit.                                                           *)
(***************************************************************************)
EXTENDS ChunkedStream

Numeral(n) == IF n < 16 THEN <<HexDigits[n + 1]>>
              ELSE <<HexDigits[(n \div 16) + 1], HexDigits[(n % 16) + 1]>>

Message(c, chunked, padding, extension) ==
  LET chunks == Append(c, <<>>)
  IN  [chunked |-> chunked, chunks |-> chunks, extension |-> extension,
       sizes |-> [i \in DOMAIN chunks |-> padding \o Numeral(Len(chunks[i]))]]

MCChunks == BoundedSeq({"1", "CR"}, 2) \ {<<>>}
MCBodies == BoundedSeq(MCChunks, 2)
Long == <<[i \in 1..17 |-> "1"], <<"1">>>>

MCMessages ==
  {Message(c, FALSE, <<>>, <<>>) : c \in MCBodies}
    \cup {Message(c, TRUE, p, <<>>) : c \in MCBodies, p \in {<<>>, <<"0">>}}
    \cup {Message(c, TRUE, <<>>, <<";", "1">>) : c \in MCBodies}
    \cup {Message(Long, TRUE, <<>>, <<";", "1">>)}
=============================================================================
