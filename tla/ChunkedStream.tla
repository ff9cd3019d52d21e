--------------------------- MODULE ChunkedStream ----------------------------
(***************************************************************************)
(* A response body read off the socket while it is still arriving          *)
(* (waitForByte, BlockingClientStream and ChunkedDecodingStream in         *)
(* src/src/hal/Esp32Network.cpp).  The wire carries the bytes the server   *)
(* sends; between any two of them the reader may run dry, give up after    *)
(* its timeout or find the connection closed.                              *)
(***************************************************************************)
EXTENDS Integers, SequencesExt

CONSTANTS
  MaxHex,      \* sizeof(hex) - 1
  Messages     \* what the server may send

VARIABLES
  message,   \* the message: its bytes on the wire, and the body in them
  arrived,   \* bytes of it that have reached the socket
  taken,     \* bytes of it the reader has consumed
  open,      \* the connection is up
  pc,        \* where the reader waits for a byte
  hex,       \* the size line collected so far
  remaining, \* bytes left of the current chunk
  done,      \* done_
  body,      \* history: the bytes handed to the JSON parser
  missed     \* history: a wait before the last chunk came back empty-handed

wireVars == <<message, arrived, open>>
vars == <<wireVars, taken, pc, hex, remaining, done, body, missed>>

CRLF == <<"CR", "LF">>
HexDigits == <<"0", "1", "2", "3", "4", "5", "6", "7",
               "8", "9", "A", "B", "C", "D", "E", "F">>
Digits == {HexDigits[i] : i \in 1..16}
Digit(d) == CHOOSE n \in 0..15 : HexDigits[n + 1] = d
Bytes == Digits \cup {"CR", "LF", ";"}

\* the number that hexadecimal digits stand for
Value(digits) ==
  LET value[n \in 0..Len(digits)] ==
        IF n = 0 THEN 0 ELSE 16 * value[n - 1] + Digit(digits[n])
  IN  value[Len(digits)]

(***************************************************************************)
(* A message: chunks of bytes, of which the last and no other is empty,    *)
(* the digits that say the size of each, and what follows the digits.  No  *)
(* size takes all the room the reader has for it.                          *)
(***************************************************************************)
SaysItsSizes(m) ==
  /\ m.sizes \in Seq(Seq(Digits)) /\ Len(m.sizes) = Len(m.chunks)
  /\ \A i \in DOMAIN m.sizes :
       /\ m.sizes[i] # <<>> /\ Len(m.sizes[i]) < MaxHex
       /\ Value(m.sizes[i]) = Len(m.chunks[i])
  /\ m.extension \in Seq(Bytes \ {"CR", "LF"})
  /\ m.extension # <<>> => Head(m.extension) = ";"

ASSUME MessagesAssumption ==
  /\ MaxHex \in Nat
  /\ \A m \in Messages :
       /\ m.chunks \in Seq(Seq(Bytes)) /\ m.chunks # <<>>
       /\ \A i \in DOMAIN m.chunks : m.chunks[i] = <<>> <=> i = Len(m.chunks)
       /\ m.chunked \in BOOLEAN /\ (m.chunked => SaysItsSizes(m))

(***************************************************************************)
(* The server's framing, chunked or with a Content-Length.                 *)
(***************************************************************************)
SizeLine(m, i) == m.sizes[i] \o m.extension
Frame(m, i) == SizeLine(m, i) \o CRLF \o m.chunks[i] \o CRLF
Frames(m) == [i \in DOMAIN m.chunks |-> Frame(m, i)]
Body(m) == FlattenSeq(m.chunks)
Wire(m) == IF m.chunked THEN FlattenSeq(Frames(m)) ELSE Body(m)

Init ==
  /\ \E m \in Messages :
       message = [chunked |-> m.chunked, bytes |-> Wire(m), body |-> Body(m)]
  /\ arrived = 0 /\ taken = 0 /\ open = TRUE
  /\ pc = (IF message.chunked THEN "Size" ELSE "Plain")
  /\ hex = <<>> /\ remaining = 0 /\ done = FALSE /\ body = <<>> /\ missed = FALSE

Arrive ==
  /\ open /\ arrived < Len(message.bytes) /\ arrived' = arrived + 1
  /\ UNCHANGED <<message, open, taken, pc, hex, remaining, done, body, missed>>

\* the server closes after its last byte, or the connection breaks
Close ==
  /\ open /\ open' = FALSE
  /\ UNCHANGED <<message, arrived, taken, pc, hex, remaining, done, body, missed>>

(***************************************************************************)
(* waitForByte: a byte that is there is taken; with none there the wait    *)
(* ends when the connection is closed or the timeout is over.              *)
(***************************************************************************)
Got(b) == taken < arrived /\ b = message.bytes[taken + 1] /\ taken' = taken + 1

\* Mutant: only a closed connection ends the wait
MutNothing == taken = arrived /\ ~open /\ UNCHANGED taken

Nothing == taken = arrived /\ UNCHANGED taken

\* strtol(hex, 16): white space, then digits up to the first other character
Size(line) ==
  LET first == IF line # <<>> /\ line[1] = "LF" THEN 2 ELSE 1
      last == CHOOSE n \in (first - 1)..Len(line) :
                /\ \A i \in first..n : line[i] \in Digits
                /\ n < Len(line) => line[n + 1] \notin Digits
  IN  Value(SubSeq(line, first, last))

Finish == done' = TRUE /\ pc' = "Eof"

\* ensureChunk: one character of the size line
ReadSize ==
  /\ pc = "Size"
  /\ \/ /\ Nothing /\ Finish /\ missed' = TRUE /\ UNCHANGED hex
     \/ \E b \in Bytes :
          /\ Got(b) /\ UNCHANGED <<done, missed>>
          /\ IF b = "CR" THEN pc' = "SizeLf" /\ UNCHANGED hex
             ELSE pc' = "Size" /\ hex' = IF Len(hex) < MaxHex THEN Append(hex, b) ELSE hex
  /\ UNCHANGED <<wireVars, remaining, body>>

ReadSizeLf ==
  /\ pc = "SizeLf"
  /\ \/ /\ Got("LF") /\ remaining' = Size(hex) /\ hex' = <<>>
        /\ IF Size(hex) > 0 THEN pc' = "Data" /\ UNCHANGED done
                            ELSE done' = TRUE /\ pc' = "Trailer"
        /\ UNCHANGED missed
     \/ /\ taken < arrived /\ message.bytes[taken + 1] # "LF" /\ taken' = taken + 1
        /\ Finish /\ UNCHANGED <<hex, remaining, missed>>
     \/ Nothing /\ Finish /\ missed' = TRUE /\ UNCHANGED <<hex, remaining>>
  /\ UNCHANGED <<wireVars, body>>

\* Mutant: the line end after a chunk is left on the wire
MutAfterData == IF remaining = 1 THEN "Size" ELSE "Data"

AfterData == IF remaining = 1 THEN "Skip" ELSE "Data"

ReadData ==
  /\ pc = "Data"
  /\ \/ \E b \in Bytes :
          /\ Got(b) /\ body' = Append(body, b) /\ remaining' = remaining - 1
          /\ pc' = AfterData /\ UNCHANGED <<done, missed>>
     \/ Nothing /\ Finish /\ missed' = TRUE /\ UNCHANGED <<body, remaining>>
  /\ UNCHANGED <<wireVars, hex>>

\* two waits whose results nobody looks at: after a chunk, and after the last
SkipByte ==
  \/ taken < arrived /\ taken' = taken + 1 /\ UNCHANGED missed
  \/ Nothing /\ missed' = (missed \/ ~done)

Skip ==
  /\ \/ pc = "Skip" /\ pc' = "Skip2"
     \/ pc = "Skip2" /\ pc' = "Size"
     \/ pc = "Trailer" /\ pc' = "Trailer2"
     \/ pc = "Trailer2" /\ pc' = "Eof"
  /\ SkipByte
  /\ UNCHANGED <<wireVars, hex, remaining, done, body>>

\* BlockingClientStream: an empty wait is the end for the JSON parser
ReadPlain ==
  /\ pc = "Plain"
  /\ \/ \E b \in Bytes :
          Got(b) /\ body' = Append(body, b) /\ UNCHANGED <<pc, done, missed>>
     \/ /\ Nothing /\ pc' = "Eof" /\ done' = TRUE
        /\ missed' = (body # message.body) /\ UNCHANGED body
  /\ UNCHANGED <<wireVars, hex, remaining>>

Reader == ReadSize \/ ReadSizeLf \/ ReadData \/ Skip \/ ReadPlain
Next == Arrive \/ Close \/ Reader
Spec == Init /\ [][Next]_vars /\ WF_vars(Reader)

(***************************************************************************)
(* However the bytes trickle in and wherever the reader gives up, the JSON *)
(* parser sees the beginning of the body and never a byte of the framing;  *)
(* and a reader that never had to give up hands over all of it, whatever   *)
(* the body contains (Esp32Network.cpp:86-178).                            *)
(***************************************************************************)
OnlyTheBody ==
  /\ IsPrefix(body, message.body)
  /\ done /\ ~missed => body = message.body

(***************************************************************************)
(* The parser is never left waiting: a server that stalls or hangs up ends *)
(* the read at the latest with the next timeout (Esp32Network.cpp:54-68).  *)
(***************************************************************************)
ReadEnds == <>(pc = "Eof")
=============================================================================
