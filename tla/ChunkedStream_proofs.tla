----------------------- MODULE ChunkedStream_proofs -------------------------
(***************************************************************************)
(* The reader hands over only the body, for every message, every room for  *)
(* the size line and every arrival of the bytes.                           *)
(*                                                                         *)
(* The message is a sequence of frames, and the body a sequence of chunks: *)
(* FlattenLayout says where each begins and what stands there.  The        *)
(* inductive invariant StreamInv locates the reader in them.  What makes   *)
(* it more than a table of offsets are the waits for a line end whose      *)
(* outcome nobody looks at: a reader that missed one or both bytes starts  *)
(* on the next size line too early, and still reads the right size, with   *)
(* the line feed as white space, or none at all and stops.                 *)
(***************************************************************************)
EXTENDS ChunkedStream, SequenceTheorems, NaturalsInduction, WellFoundedInduction, TLAPS

(***************************************************************************)
(* Where the parts of a flattened sequence begin, and what stands there.   *)
(***************************************************************************)
IsLayout(start, seqs) ==
  /\ start \in [0..Len(seqs) -> Nat] /\ start[0] = 0
  /\ Len(FlattenSeq(seqs)) = start[Len(seqs)]
  /\ \A k \in 1..Len(seqs) :
       /\ start[k] = start[k - 1] + Len(seqs[k]) /\ start[k] <= Len(FlattenSeq(seqs))
       /\ \A j \in 1..Len(seqs[k]) : FlattenSeq(seqs)[start[k - 1] + j] = seqs[k][j]

Layout(seqs) == CHOOSE start : IsLayout(start, seqs)

(***************************************************************************)
(* The invariant.                                                          *)
(***************************************************************************)
\* Exactly the first n bytes of the body have been handed over.
HandedOver(n) ==
  n \in 0..Len(message.body) /\ body = SubSeq(message.body, 1, n)

\* The first j characters of a line, as far as there is room.
Collected(line, j) == SubSeq(line, 1, IF j < MaxHex THEN j ELSE MaxHex)

\* What the reader finds before a size line: nothing, or the line feed of the
\* chunk before that it waited for in vain.
Leads(k) == {<<>>} \cup {lead \in {<<"LF">>} : missed /\ k > 1}

\* The last byte of frame k - 1, and of the body in it.
FrameStart(m, k) == Layout(Frames(m))[k - 1]
ChunkStart(m, k) == Layout(m.chunks)[k - 1]

AtSize(m, k) ==
  /\ pc = "Size" /\ HandedOver(ChunkStart(m, k))
  /\ \/ \E lead \in Leads(k) :
          \E j \in 0..(Len(lead) + Len(SizeLine(m, k))) :
            /\ taken = FrameStart(m, k) - Len(lead) + j
            /\ hex = Collected(lead \o SizeLine(m, k), j)
     \/ missed /\ k > 1 /\ taken = FrameStart(m, k) - 2 /\ hex = <<>>

AtSizeLf(m, k) ==
  /\ pc = "SizeLf" /\ HandedOver(ChunkStart(m, k))
  /\ \/ \E lead \in Leads(k) :
          /\ taken = FrameStart(m, k) + Len(SizeLine(m, k)) + 1
          /\ hex = Collected(lead \o SizeLine(m, k), Len(lead) + Len(SizeLine(m, k)))
     \/ missed /\ k > 1 /\ taken = FrameStart(m, k) - 1 /\ hex = <<>>

AtData(m, k) ==
  /\ pc = "Data" /\ hex = <<>> /\ remaining \in 1..Len(m.chunks[k])
  /\ taken = FrameStart(m, k) + Len(SizeLine(m, k)) + 2 + Len(m.chunks[k]) - remaining
  /\ HandedOver(ChunkStart(m, k) + Len(m.chunks[k]) - remaining)

AtSkip(m, k) ==
  /\ k > 1 /\ hex = <<>> /\ HandedOver(ChunkStart(m, k))
  /\ \/ pc = "Skip" /\ taken = FrameStart(m, k) - 2
     \/ pc = "Skip2" /\ taken = FrameStart(m, k) - 1
     \/ pc = "Skip2" /\ taken = FrameStart(m, k) - 2 /\ missed

InFrame(m, k) ==
  m.chunked /\ ~done /\ (AtSize(m, k) \/ AtSizeLf(m, k) \/ AtData(m, k) \/ AtSkip(m, k))

InPlain(m) == ~m.chunked /\ ~done /\ pc = "Plain" /\ HandedOver(taken)

Over ==
  /\ done /\ pc \in {"Trailer", "Trailer2", "Eof"}
  /\ HandedOver(Len(body)) /\ (missed \/ Len(body) = Len(message.body))

Sent(m) == message = [chunked |-> m.chunked, bytes |-> Wire(m), body |-> Body(m)]

Located(m) == Over \/ InPlain(m) \/ \E k \in 1..Len(m.chunks) : InFrame(m, k)

StreamInv ==
  /\ \E m \in Messages : Sent(m) /\ Located(m)
  /\ arrived \in 0..Len(message.bytes) /\ taken \in 0..arrived

(***************************************************************************)
(* Induction over numbers, stated of sets.                                 *)
(***************************************************************************)
LEMMA SetInduction ==
  ASSUME NEW S, 0 \in S, \A n \in Nat : n \in S => n + 1 \in S
  PROVE  Nat \subseteq S
<1>. DEFINE R == {ss \in Nat \X Nat : ss[1] < ss[2]}
<1>1. IsWellFoundedOn(R, Nat)
  BY NatLessThanWellFounded DEF OpToRel
<1>2. \A n, m \in Nat : n < m => <<n, m>> \in R
  OBVIOUS
<1>. HIDE DEF R
<1>3. SUFFICES ASSUME Nat \ S # {} PROVE FALSE
  OBVIOUS
<1>4. PICK m \in Nat \ S : \A n \in Nat \ S : ~(<<n, m>> \in R)
  BY <1>1, <1>3, WFMin
<1>5. m # 0 /\ m - 1 \in Nat /\ m - 1 < m
  BY <1>4
<1>6. m - 1 \in S
  BY <1>2, <1>4, <1>5
<1>. QED  BY <1>4, <1>5, <1>6

(***************************************************************************)
(* Sequences.                                                              *)
(***************************************************************************)
\* Sequences with the same elements are the same.
LEMMA SameSeq ==
  ASSUME NEW S, NEW s \in Seq(S), NEW t \in Seq(S), Len(s) = Len(t),
         \A i \in 1..Len(t) : s[i] = t[i]
  PROVE  s = t
OBVIOUS

\* Two sequences, one behind the other.
IsJoin(u, s, t) ==
  /\ Len(u) = Len(s) + Len(t)
  /\ \A j \in 1..Len(s) : u[j] = s[j]
  /\ \A j \in 1..Len(t) : u[Len(s) + j] = t[j]

LEMMA Joined ==
  ASSUME NEW S, NEW s \in Seq(S), NEW t \in Seq(S)
  PROVE  s \o t \in Seq(S) /\ IsJoin(s \o t, s, t)
<1>1. s \o t \in Seq(S) /\ Len(s \o t) = Len(s) + Len(t)
  OBVIOUS
<1>2. \A i \in 1..(Len(s) + Len(t)) :
        (s \o t)[i] = IF i <= Len(s) THEN s[i] ELSE t[i - Len(s)]
  BY ConcatProperties
<1>3. \A j \in 1..Len(s) : j \in 1..(Len(s) + Len(t)) /\ j <= Len(s)
  OBVIOUS
<1>4. \A j \in 1..Len(t) : /\ Len(s) + j \in 1..(Len(s) + Len(t)) /\ ~(Len(s) + j <= Len(s))
                           /\ (Len(s) + j) - Len(s) = j
  OBVIOUS
<1>5. \A j \in 1..Len(s) : (s \o t)[j] = s[j]
  BY <1>2, <1>3
<1>6. \A j \in 1..Len(t) : (s \o t)[Len(s) + j] = t[j]
  BY <1>2, <1>4
<1>. QED  BY <1>1, <1>5, <1>6 DEF IsJoin

\* The recursion in FlattenSeq, up to the n-th part.
Flattens(f, seqs, n) ==
  \A i \in 1..n : f[i] = IF i = 1 THEN seqs[i] ELSE f[i - 1] \o seqs[i]

\* One more part.
LEMMA FlattenOneMore ==
  ASSUME NEW S, NEW seqs \in Seq(Seq(S)), NEW n \in Nat, n + 1 < Len(seqs),
         NEW g \in [1..(n + 1) -> Seq(S)], Flattens(g, seqs, n + 1)
  PROVE  \E h \in [1..(n + 2) -> Seq(S)] : Flattens(h, seqs, n + 2)
<1>. DEFINE last == g[n + 1] \o seqs[n + 2]
            h == [i \in 1..(n + 2) |-> IF i = n + 2 THEN last ELSE g[i]]
<1>1. last \in Seq(S)
  <2>1. g[n + 1] \in Seq(S) /\ seqs[n + 2] \in Seq(S)
    OBVIOUS
  <2>. QED  BY <2>1
<1>. HIDE DEF last
<1>2. h \in [1..(n + 2) -> Seq(S)]
  BY <1>1
<1>3. \A i \in 1..(n + 1) : h[i] = g[i]
  OBVIOUS
<1>4. h[n + 2] = last
  OBVIOUS
<1>. HIDE DEF h
<1>5. ASSUME NEW i \in 1..(n + 2)
      PROVE  h[i] = IF i = 1 THEN seqs[i] ELSE h[i - 1] \o seqs[i]
  <2>1. CASE i = n + 2
    <3>1. i # 1 /\ i - 1 = n + 1 /\ i - 1 \in 1..(n + 1)
      BY <2>1
    <3>. QED  BY <2>1, <3>1, <1>3, <1>4 DEF last
  <2>2. CASE i # n + 2
    <3>1. i \in 1..(n + 1)
      BY <2>2
    <3>2. i # 1 => i - 1 \in 1..(n + 1)
      BY <3>1
    <3>3. g[i] = IF i = 1 THEN seqs[i] ELSE g[i - 1] \o seqs[i]
      BY <3>1 DEF Flattens
    <3>. QED  BY <3>1, <3>2, <3>3, <1>3
  <2>. QED  BY <2>1, <2>2
<1>. QED  BY <1>2, <1>5 DEF Flattens

\* The recursion has a solution.
LEMMA FlattenExists ==
  ASSUME NEW S, NEW seqs \in Seq(Seq(S)), Len(seqs) > 0
  PROVE  \E f \in [1..Len(seqs) -> Seq(S)] : Flattens(f, seqs, Len(seqs))
<1>. DEFINE Good == {n \in Nat : n < Len(seqs) =>
                       \E g \in [1..(n + 1) -> Seq(S)] : Flattens(g, seqs, n + 1)}
<1>1. \E g \in [1..1 -> Seq(S)] : Flattens(g, seqs, 1)
  <2>. DEFINE g == [i \in 1..1 |-> seqs[1]]
  <2>1. g \in [1..1 -> Seq(S)]
    <3>1. seqs[1] \in Seq(S)
      OBVIOUS
    <3>. QED  BY <3>1
  <2>2. Flattens(g, seqs, 1)
    BY DEF Flattens
  <2>. HIDE DEF g
  <2>. QED  BY <2>1, <2>2
<1>2. 0 \in Good
  <2>1. 0 + 1 = 1
    OBVIOUS
  <2>. QED  BY <1>1, <2>1, Zenon
<1>3. ASSUME NEW n \in Nat, n \in Good PROVE n + 1 \in Good
  <2>1. ASSUME n + 1 < Len(seqs)
        PROVE  \E h \in [1..((n + 1) + 1) -> Seq(S)] : Flattens(h, seqs, (n + 1) + 1)
    <3>1. n < Len(seqs) /\ (n + 1) + 1 = n + 2
      BY <2>1
    <3>2. PICK g \in [1..(n + 1) -> Seq(S)] : Flattens(g, seqs, n + 1)
      BY <1>3, <3>1
    <3>3. \E h \in [1..(n + 2) -> Seq(S)] : Flattens(h, seqs, n + 2)
      BY <2>1, <3>2, FlattenOneMore
    <3>. QED  BY <3>1, <3>3
  <2>. QED  BY <2>1
<1>. HIDE DEF Good
<1>4. Nat \subseteq Good
  BY <1>2, <1>3, SetInduction
<1>5. Len(seqs) - 1 \in Nat /\ Len(seqs) - 1 < Len(seqs) /\ (Len(seqs) - 1) + 1 = Len(seqs)
  OBVIOUS
<1>6. Len(seqs) - 1 \in Good
  BY <1>4, <1>5
<1>. QED  BY <1>5, <1>6 DEF Good

\* What the recursion computes.
LEMMA FlattenIs ==
  ASSUME NEW S, NEW seqs \in Seq(Seq(S)), Len(seqs) > 0
  PROVE  \E f \in [1..Len(seqs) -> Seq(S)] :
           Flattens(f, seqs, Len(seqs)) /\ FlattenSeq(seqs) = f[Len(seqs)]
<1>. DEFINE N == Len(seqs)
            Unrolled(f) == [i \in 1..N |-> IF i = 1 THEN seqs[i] ELSE f[i - 1] \o seqs[i]]
            flat == CHOOSE f : f = Unrolled(f)
<1>1. \A f \in [1..N -> Seq(S)] : Flattens(f, seqs, N) => f = Unrolled(f)
  BY DEF Flattens
<1>2. FlattenSeq(seqs) = flat[N]
  BY DEF FlattenSeq
<1>3. \E f : f = Unrolled(f)
  BY <1>1, FlattenExists
<1>4. flat = Unrolled(flat)
  BY <1>3
<1>. HIDE DEF flat
<1>5. Flattens(flat, seqs, N)
  BY <1>4 DEF Flattens
<1>6. flat \in [1..N -> Seq(S)]
  <2>. DEFINE Good == {n \in Nat : n < N => flat[n + 1] \in Seq(S)}
  <2>1. 0 \in Good
    <3>1. flat[1] = seqs[1] /\ seqs[1] \in Seq(S)
      BY <1>5 DEF Flattens
    <3>. QED  BY <3>1
  <2>2. ASSUME NEW n \in Nat, n \in Good PROVE n + 1 \in Good
    <3>1. ASSUME n + 1 < N PROVE flat[(n + 1) + 1] \in Seq(S)
      <4>1. n + 2 \in 1..N /\ n + 2 # 1 /\ (n + 2) - 1 = n + 1 /\ n < N /\ (n + 1) + 1 = n + 2
        BY <3>1
      <4>2. flat[n + 2] = flat[n + 1] \o seqs[n + 2]
        <5>1. flat[n + 2] = flat[(n + 2) - 1] \o seqs[n + 2]
          BY <1>5, <4>1 DEF Flattens
        <5>. QED  BY <5>1, <4>1
      <4>3. flat[n + 1] \in Seq(S)
        BY <2>2, <4>1
      <4>4. seqs[n + 2] \in Seq(S)
        BY <4>1
      <4>5. flat[n + 1] \o seqs[n + 2] \in Seq(S)
        BY <4>3, <4>4
      <4>. QED  BY <4>1, <4>2, <4>5
    <3>. QED  BY <3>1
  <2>. HIDE DEF Good
  <2>3. Nat \subseteq Good
    BY <2>1, <2>2, SetInduction
  <2>4. ASSUME NEW i \in 1..N PROVE flat[i] \in Seq(S)
    <3>1. i - 1 \in Nat /\ i - 1 < N /\ (i - 1) + 1 = i
      OBVIOUS
    <3>2. i - 1 \in Good
      BY <3>1, <2>3
    <3>. QED  BY <3>1, <3>2 DEF Good
  <2>5. flat = [i \in 1..N |-> flat[i]]
    <3>. DEFINE v(i) == IF i = 1 THEN seqs[i] ELSE flat[i - 1] \o seqs[i]
    <3>1. flat = [i \in 1..N |-> v(i)]
      BY <1>4
    <3>. HIDE DEF v
    <3>. QED  BY <3>1
  <2>. QED  BY <2>4, <2>5
<1>. QED  BY <1>2, <1>5, <1>6

\* The parts of a sequence of sequences lie one behind the other in what it
\* flattens to.
LEMMA FlattenLayout ==
  ASSUME NEW S, NEW seqs \in Seq(Seq(S)), Len(seqs) > 0
  PROVE  FlattenSeq(seqs) \in Seq(S) /\ IsLayout(Layout(seqs), seqs)
<1>. DEFINE N == Len(seqs)
<1>1. PICK f \in [1..N -> Seq(S)] : Flattens(f, seqs, N) /\ FlattenSeq(seqs) = f[N]
  BY FlattenIs
<1>2. \A k \in 1..N : f[k] \in Seq(S) /\ seqs[k] \in Seq(S)
  OBVIOUS
<1>3. f[1] = seqs[1] /\ \A k \in 2..N : f[k] = f[k - 1] \o seqs[k]
  <2>1. \A k \in 2..N : k \in 1..N /\ k # 1
    OBVIOUS
  <2>2. 1 \in 1..N
    OBVIOUS
  <2>. QED  BY <1>1, <2>1, <2>2 DEF Flattens
<1>. DEFINE Begins(s, t) == Len(s) <= Len(t) /\ \A j \in 1..Len(s) : t[j] = s[j]
            Good == {n \in Nat : \A k \in 1..N : k + n <= N => Begins(f[k], f[k + n])}
<1>4. Nat \subseteq Good
  <2>1. 0 \in Good
    <3>1. \A k \in 1..N : k + 0 = k /\ Len(f[k]) \in Nat
      BY <1>2
    <3>. QED  BY <3>1
  <2>2. ASSUME NEW n \in Nat, n \in Good PROVE n + 1 \in Good
    <3>1. ASSUME NEW k \in 1..N, k + (n + 1) <= N PROVE Begins(f[k], f[k + (n + 1)])
      <4>1. k + n \in 1..N /\ k + (n + 1) \in 2..N /\ (k + (n + 1)) - 1 = k + n /\ k + n <= N
        BY <3>1
      <4>2. f[k + (n + 1)] = f[k + n] \o seqs[k + (n + 1)]
        BY <1>3, <4>1
      <4>3. f[k + n] \in Seq(S) /\ seqs[k + (n + 1)] \in Seq(S) /\ f[k] \in Seq(S)
        <5>1. k + (n + 1) \in 1..N
          BY <4>1
        <5>. QED  BY <5>1, <4>1, <1>2
      <4>4. Begins(f[k + n], f[k + n] \o seqs[k + (n + 1)])
        <5>. DEFINE t == seqs[k + (n + 1)]
        <5>1. t \in Seq(S)
          BY <4>3
        <5>. HIDE DEF t, N
        <5>2. /\ Len(f[k + n] \o t) = Len(f[k + n]) + Len(t)
              /\ \A j \in 1..Len(f[k + n]) : (f[k + n] \o t)[j] = f[k + n][j]
          <6>1. IsJoin(f[k + n] \o t, f[k + n], t)
            BY <5>1, <4>3, Joined, Zenon
          <6>. QED  BY <6>1 DEF IsJoin
        <5>3. Len(f[k + n]) \in Nat /\ Len(t) \in Nat
          BY <5>1, <4>3
        <5>4. Begins(f[k + n], f[k + n] \o t)
          BY <5>2, <5>3
        <5>. HIDE DEF Begins
        <5>. QED  BY <5>4 DEF t
      <4>5. Begins(f[k], f[k + n])
        BY <2>2, <4>1
      <4>. HIDE DEF N
      <4>6. \A s, t, u \in Seq(S) : Begins(s, t) /\ Begins(t, u) => Begins(s, u)
        OBVIOUS
      <4>7. f[k + n] \o seqs[k + (n + 1)] \in Seq(S)
        BY <4>3
      <4>. HIDE DEF Begins
      <4>. QED  BY <4>2, <4>3, <4>4, <4>5, <4>6, <4>7
    <3>. HIDE DEF Begins
    <3>. QED  BY <3>1
  <2>. HIDE DEF Good
  <2>. QED  BY <2>1, <2>2, SetInduction
<1>5. \A k \in 1..N : Begins(f[k], f[N])
  <2>. SUFFICES ASSUME NEW k \in 1..N PROVE Begins(f[k], f[N])
    OBVIOUS
  <2>1. N - k \in Nat /\ k + (N - k) = N
    OBVIOUS
  <2>2. N - k \in Good
    BY <1>4, <2>1
  <2>. HIDE DEF Begins
  <2>3. k + (N - k) <= N => Begins(f[k], f[k + (N - k)])
    BY <2>2
  <2>. QED  BY <2>1, <2>3
<1>. DEFINE start == [k \in 0..N |-> IF k = 0 THEN 0 ELSE Len(f[k])]
<1>6. start \in [0..N -> Nat]
  <2>1. \A k \in 0..N : k # 0 => k \in 1..N
    OBVIOUS
  <2>2. \A k \in 1..N : Len(f[k]) \in Nat
    BY <1>2
  <2>. QED  BY <2>1, <2>2
<1>7. start[0] = 0 /\ \A k \in 1..N : start[k] = Len(f[k])
  OBVIOUS
<1>. HIDE DEF start
<1>8. ASSUME NEW k \in 1..N
      PROVE  /\ start[k] = start[k - 1] + Len(seqs[k]) /\ start[k] <= Len(f[N])
             /\ \A j \in 1..Len(seqs[k]) : f[N][start[k - 1] + j] = seqs[k][j]
  <2>1. Begins(f[k], f[N]) /\ start[k] = Len(f[k])
    BY <1>5, <1>7
  <2>2. f[k] \in Seq(S) /\ seqs[k] \in Seq(S)
    BY <1>2
  <2>3. CASE k = 1
    <3>1. start[k - 1] = 0 /\ f[k] = seqs[k]
      BY <2>3, <1>3, <1>7
    <3>2. \A j \in 1..Len(seqs[k]) : 0 + j = j
      OBVIOUS
    <3>. HIDE DEF N
    <3>. QED  BY <2>1, <2>2, <3>1, <3>2
  <2>4. CASE k # 1
    <3>1. k \in 2..N /\ k - 1 \in 1..N
      BY <2>4
    <3>2. f[k] = f[k - 1] \o seqs[k] /\ start[k - 1] = Len(f[k - 1]) /\ f[k - 1] \in Seq(S)
      BY <3>1, <1>3, <1>7, <1>2
    <3>. DEFINE a == f[k - 1]
                t == seqs[k]
    <3>. HIDE DEF a, t, N
    <3>3. a \in Seq(S) /\ t \in Seq(S)
      BY <2>2, <3>2 DEF a, t
    <3>4. Len(a \o t) = Len(a) + Len(t) /\ \A j \in 1..Len(t) : (a \o t)[Len(a) + j] = t[j]
      <4>1. IsJoin(a \o t, a, t)
        BY <3>3, Joined, Zenon
      <4>. QED  BY <4>1 DEF IsJoin
    <3>5. Len(a) \in Nat /\ Len(t) \in Nat
      BY <3>3
    <3>6. \A j \in 1..Len(t) : Len(a) + j \in 1..Len(a \o t)
      BY <3>4, <3>5
    <3>7. f[k] = a \o t /\ start[k - 1] = Len(a) /\ start[k] = Len(a) + Len(t)
      BY <2>1, <3>2, <3>4 DEF a, t
    <3>8. \A j \in 1..Len(t) : f[N][Len(a) + j] = (a \o t)[Len(a) + j]
      BY <2>1, <3>6, <3>7
    <3>9. \A j \in 1..Len(t) : f[N][Len(a) + j] = t[j]
      BY <3>4, <3>8
    <3>. QED  BY <2>1, <3>7, <3>9 DEF t
  <2>. QED  BY <2>3, <2>4
<1>9. IsLayout(start, seqs)
  <2>1. N \in 1..N
    OBVIOUS
  <2>. QED  BY <2>1, <1>1, <1>6, <1>7, <1>8 DEF IsLayout
<1>10. FlattenSeq(seqs) \in Seq(S)
  <2>1. N \in 1..N
    OBVIOUS
  <2>. QED  BY <2>1, <1>1, <1>2
<1>. QED  BY <1>9, <1>10 DEF Layout

(***************************************************************************)
(* The message.                                                            *)
(***************************************************************************)
\* The characters of the framing are no digits.
LEMMA FramingCharacters ==
  /\ "CR" \in Bytes /\ "LF" \in Bytes /\ Digits \subseteq Bytes
  /\ "CR" \notin Digits /\ "LF" \notin Digits /\ ";" \notin Digits
<1>1. \A d \in Digits : d # "CR" /\ d # "LF" /\ d # ";"
  <2>1. ASSUME NEW i \in 1..16
        PROVE  HexDigits[i] # "CR" /\ HexDigits[i] # "LF" /\ HexDigits[i] # ";"
    <3>1. \/ i = 1 \/ i = 2 \/ i = 3 \/ i = 4 \/ i = 5 \/ i = 6 \/ i = 7 \/ i = 8
          \/ i = 9 \/ i = 10 \/ i = 11 \/ i = 12 \/ i = 13 \/ i = 14 \/ i = 15 \/ i = 16
      OBVIOUS
    <3>2. /\ HexDigits[1] = "0" /\ HexDigits[2] = "1" /\ HexDigits[3] = "2" /\ HexDigits[4] = "3"
          /\ HexDigits[5] = "4" /\ HexDigits[6] = "5" /\ HexDigits[7] = "6" /\ HexDigits[8] = "7"
          /\ HexDigits[9] = "8" /\ HexDigits[10] = "9" /\ HexDigits[11] = "A" /\ HexDigits[12] = "B"
          /\ HexDigits[13] = "C" /\ HexDigits[14] = "D" /\ HexDigits[15] = "E" /\ HexDigits[16] = "F"
      BY DEF HexDigits
    <3>3. HexDigits[i] \in {"0", "1", "2", "3", "4", "5", "6", "7",
                           "8", "9", "A", "B", "C", "D", "E", "F"}
      BY <3>1, <3>2
    <3>. QED  BY <3>3
  <2>. QED  BY <2>1 DEF Digits
<1>. QED  BY <1>1 DEF Bytes

\* A size line is a sequence of bytes without a carriage return.
LEMMA SizeLineFacts ==
  ASSUME NEW m \in Messages, m.chunked, NEW k \in 1..Len(m.chunks)
  PROVE  /\ m.sizes[k] \in Seq(Digits) /\ m.extension \in Seq(Bytes \ {"CR", "LF"})
         /\ SizeLine(m, k) \in Seq(Bytes \ {"CR"})
         /\ Len(SizeLine(m, k)) = Len(m.sizes[k]) + Len(m.extension)
         /\ m.chunks[k] \in Seq(Bytes)
<1>1. k \in DOMAIN m.sizes /\ m.sizes[k] \in Seq(Digits)
      /\ m.extension \in Seq(Bytes \ {"CR", "LF"})
  <2>1. m.chunks \in Seq(Seq(Bytes)) /\ SaysItsSizes(m)
    BY MessagesAssumption
  <2>2. /\ m.sizes \in Seq(Seq(Digits)) /\ Len(m.sizes) = Len(m.chunks)
        /\ m.extension \in Seq(Bytes \ {"CR", "LF"})
    BY <2>1 DEF SaysItsSizes
  <2>3. DOMAIN m.sizes = 1..Len(m.sizes)
    BY <2>2
  <2>4. k \in DOMAIN m.sizes
    BY <2>2, <2>3
  <2>. QED  BY <2>2, <2>4
<1>2. \A A, B : A \subseteq B => Seq(A) \subseteq Seq(B)
  OBVIOUS
<1>3. Digits \subseteq Bytes \ {"CR"} /\ Bytes \ {"CR", "LF"} \subseteq Bytes \ {"CR"}
  BY FramingCharacters
<1>4. m.sizes[k] \in Seq(Bytes \ {"CR"}) /\ m.extension \in Seq(Bytes \ {"CR"})
  BY <1>1, <1>2, <1>3, Zenon
<1>5. /\ SizeLine(m, k) \in Seq(Bytes \ {"CR"})
      /\ Len(SizeLine(m, k)) = Len(m.sizes[k]) + Len(m.extension)
  <2>1. SizeLine(m, k) \in Seq(Bytes \ {"CR"}) /\ IsJoin(SizeLine(m, k), m.sizes[k], m.extension)
    BY <1>4, Joined, Zenon DEF SizeLine
  <2>. QED  BY <2>1 DEF IsJoin
<1>6. m.chunks[k] \in Seq(Bytes)
  BY MessagesAssumption
<1>. QED  BY <1>1, <1>5, <1>6

\* What stands where in a frame.
IsFrame(f, line, c) ==
  /\ f \in Seq(Bytes) /\ Len(f) = Len(line) + Len(c) + 4
  /\ \A j \in 1..Len(line) : f[j] = line[j]
  /\ f[Len(line) + 1] = "CR" /\ f[Len(line) + 2] = "LF"
  /\ \A j \in 1..Len(c) : f[Len(line) + 2 + j] = c[j]
  /\ f[Len(line) + Len(c) + 3] = "CR" /\ f[Len(line) + Len(c) + 4] = "LF"

LEMMA Framed ==
  ASSUME NEW line \in Seq(Bytes), NEW c \in Seq(Bytes)
  PROVE  IsFrame(line \o CRLF \o c \o CRLF, line, c)
<1>1. line \in Seq(Bytes) /\ c \in Seq(Bytes)
  OBVIOUS
<1>2. CRLF \in Seq(Bytes) /\ Len(CRLF) = 2 /\ CRLF[1] = "CR" /\ CRLF[2] = "LF"
  <2>1. "CR" \in Bytes /\ "LF" \in Bytes
    BY FramingCharacters
  <2>2. \A a, b \in Bytes : <<a, b>> \in Seq(Bytes)
    OBVIOUS
  <2>. QED  BY <2>1, <2>2 DEF CRLF
<1>. DEFINE s == line \o CRLF
            t == s \o c
<1>3. /\ s \in Seq(Bytes) /\ Len(s) = Len(line) + 2
      /\ \A j \in 1..Len(line) : s[j] = line[j]
      /\ s[Len(line) + 1] = "CR" /\ s[Len(line) + 2] = "LF"
  <2>1. 1 \in 1..Len(CRLF) /\ 2 \in 1..Len(CRLF)
    BY <1>2
  <2>0. s \in Seq(Bytes) /\ IsJoin(s, line, CRLF)
    BY <1>1, <1>2, Joined, Zenon DEF s
  <2>. HIDE DEF s
  <2>2. /\ s \in Seq(Bytes) /\ Len(s) = Len(line) + Len(CRLF)
        /\ \A j \in 1..Len(line) : s[j] = line[j]
        /\ \A j \in 1..Len(CRLF) : s[Len(line) + j] = CRLF[j]
    BY <2>0 DEF IsJoin
  <2>3. s[Len(line) + 1] = CRLF[1] /\ s[Len(line) + 2] = CRLF[2]
    BY <2>1, <2>2
  <2>. QED  BY <1>2, <2>2, <2>3
<1>. HIDE DEF s
<1>4. /\ t \in Seq(Bytes) /\ Len(t) = Len(s) + Len(c)
      /\ \A j \in 1..Len(s) : t[j] = s[j]
      /\ \A j \in 1..Len(c) : t[Len(s) + j] = c[j]
  <2>1. t \in Seq(Bytes) /\ IsJoin(t, s, c)
    BY <1>1, <1>3, Joined, Zenon DEF t
  <2>. HIDE DEF t
  <2>. QED  BY <2>1 DEF IsJoin
<1>. HIDE DEF t
<1>. DEFINE u == t \o CRLF
<1>5. /\ u \in Seq(Bytes) /\ Len(u) = Len(t) + 2
      /\ \A j \in 1..Len(t) : u[j] = t[j]
      /\ u[Len(t) + 1] = "CR" /\ u[Len(t) + 2] = "LF"
  <2>1. 1 \in 1..Len(CRLF) /\ 2 \in 1..Len(CRLF)
    BY <1>2
  <2>0. u \in Seq(Bytes) /\ IsJoin(u, t, CRLF)
    BY <1>2, <1>4, Joined, Zenon DEF u
  <2>. HIDE DEF u
  <2>2. /\ u \in Seq(Bytes) /\ Len(u) = Len(t) + Len(CRLF)
        /\ \A j \in 1..Len(t) : u[j] = t[j]
        /\ \A j \in 1..Len(CRLF) : u[Len(t) + j] = CRLF[j]
    BY <2>0 DEF IsJoin
  <2>3. u[Len(t) + 1] = CRLF[1] /\ u[Len(t) + 2] = CRLF[2]
    BY <2>1, <2>2
  <2>. QED  BY <1>2, <2>2, <2>3
<1>6. u = line \o CRLF \o c \o CRLF
  BY DEF s, t
<1>. HIDE DEF u
<1>7. Len(line) \in Nat /\ Len(c) \in Nat
  BY <1>1
<1>8. Len(s) = Len(line) + 2 /\ Len(t) = Len(line) + 2 + Len(c)
  BY <1>3, <1>4
<1>. HIDE DEF u
<1>9. \A j \in 1..(Len(line) + 2) : u[j] = s[j]
  <2>1. \A j \in 1..(Len(line) + 2) : j \in 1..Len(s) /\ j \in 1..Len(t)
    BY <1>7, <1>8
  <2>. QED  BY <2>1, <1>4, <1>5
<1>10. \A j \in 1..Len(line) : u[j] = line[j]
  <2>1. \A j \in 1..Len(line) : j \in 1..(Len(line) + 2)
    BY <1>7
  <2>. QED  BY <2>1, <1>3, <1>9
<1>11. u[Len(line) + 1] = "CR" /\ u[Len(line) + 2] = "LF"
  <2>1. Len(line) + 1 \in 1..(Len(line) + 2) /\ Len(line) + 2 \in 1..(Len(line) + 2)
    BY <1>7
  <2>. QED  BY <2>1, <1>3, <1>9
<1>12. \A j \in 1..Len(c) : u[Len(line) + 2 + j] = c[j]
  <2>1. \A j \in 1..Len(c) : Len(line) + 2 + j = Len(s) + j /\ Len(s) + j \in 1..Len(t)
    BY <1>7, <1>8
  <2>. QED  BY <2>1, <1>4, <1>5
<1>13. u[Len(line) + Len(c) + 3] = "CR" /\ u[Len(line) + Len(c) + 4] = "LF"
  <2>1. Len(line) + Len(c) + 3 = Len(t) + 1 /\ Len(line) + Len(c) + 4 = Len(t) + 2
    BY <1>7, <1>8
  <2>. QED  BY <2>1, <1>5
<1>14. Len(u) = Len(line) + Len(c) + 4
  BY <1>5, <1>7, <1>8
<1>15. IsFrame(u, line, c)
  BY <1>5, <1>10, <1>11, <1>12, <1>13, <1>14 DEF IsFrame
<1>. QED  BY <1>6, <1>15

LEMMA FrameFacts ==
  ASSUME NEW m \in Messages, m.chunked, NEW k \in 1..Len(m.chunks)
  PROVE  IsFrame(Frame(m, k), SizeLine(m, k), m.chunks[k])
<1>1. \A A, B : A \subseteq B => Seq(A) \subseteq Seq(B)
  OBVIOUS
<1>2. SizeLine(m, k) \in Seq(Bytes \ {"CR"}) /\ m.chunks[k] \in Seq(Bytes)
  BY SizeLineFacts
<1>3. SizeLine(m, k) \in Seq(Bytes)
  BY <1>1, <1>2, Zenon
<1>. QED  BY <1>2, <1>3, Framed DEF Frame

\* Where frames and chunks begin.
LEMMA Starts ==
  ASSUME NEW m \in Messages
  PROVE  /\ Len(m.chunks) \in Nat /\ Len(m.chunks) > 0
         /\ Body(m) \in Seq(Bytes) /\ IsLayout(Layout(m.chunks), m.chunks)
         /\ m.chunked => /\ Wire(m) \in Seq(Bytes) /\ Wire(m) = FlattenSeq(Frames(m))
                         /\ Len(Frames(m)) = Len(m.chunks)
                         /\ IsLayout(Layout(Frames(m)), Frames(m))
<1>1. m.chunks \in Seq(Seq(Bytes)) /\ Len(m.chunks) > 0 /\ Len(m.chunks) \in Nat
  BY MessagesAssumption
<1>2. Body(m) \in Seq(Bytes) /\ IsLayout(Layout(m.chunks), m.chunks)
  BY <1>1, FlattenLayout DEF Body
<1>3. ASSUME m.chunked
      PROVE  /\ Wire(m) \in Seq(Bytes) /\ Wire(m) = FlattenSeq(Frames(m))
             /\ Len(Frames(m)) = Len(m.chunks) /\ IsLayout(Layout(Frames(m)), Frames(m))
  <2>1. \A k \in 1..Len(m.chunks) : Frame(m, k) \in Seq(Bytes)
    BY <1>3, FrameFacts DEF IsFrame
  <2>2. Frames(m) \in Seq(Seq(Bytes)) /\ Len(Frames(m)) = Len(m.chunks)
    <3>1. DOMAIN m.chunks = 1..Len(m.chunks)
      BY <1>1
    <3>2. Frames(m) \in [1..Len(m.chunks) -> Seq(Bytes)]
      BY <2>1, <3>1 DEF Frames
    <3>3. \A n \in Nat : \A f \in [1..n -> Seq(Bytes)] : f \in Seq(Seq(Bytes)) /\ Len(f) = n
      OBVIOUS
    <3>. QED  BY <1>1, <3>2, <3>3
  <2>3. FlattenSeq(Frames(m)) \in Seq(Bytes) /\ IsLayout(Layout(Frames(m)), Frames(m))
    BY <1>1, <2>2, FlattenLayout
  <2>. QED  BY <1>3, <2>2, <2>3 DEF Wire
<1>. QED  BY <1>1, <1>2, <1>3

(***************************************************************************)
(* The size line.                                                          *)
(***************************************************************************)
\* No digits, no value.
LEMMA ValueOfNothing == Value(<<>>) = 0
<1>. DEFINE V(v) == [n \in 0..Len(<<>>) |->
                       IF n = 0 THEN 0 ELSE 16 * v[n - 1] + Digit(<<>>[n])]
            value == CHOOSE v : v = V(v)
<1>1. \E v : v = V(v)
  <2>. DEFINE zero == [n \in 0..0 |-> 0]
  <2>1. \A n \in 0..Len(<<>>) : n = 0
    OBVIOUS
  <2>2. zero = V(zero)
    BY <2>1
  <2>. HIDE DEF V, zero
  <2>. QED  BY <2>2
<1>2. value = V(value)
  BY <1>1
<1>. HIDE DEF value
<1>3. 0 \in 0..Len(<<>>)
  OBVIOUS
<1>4. value[0] = 0
  BY <1>2, <1>3
<1>5. Value(<<>>) = value[0]
  BY DEF Value, value
<1>. QED  BY <1>4, <1>5

\* strtol finds no number in an empty line.
LEMMA SizeOfNothing == Size(<<>>) = 0
<1>. DEFINE Run(n) == /\ \A i \in 1..n : <<>>[i] \in Digits
                      /\ n < Len(<<>>) => <<>>[n + 1] \notin Digits
            last == CHOOSE n \in 0..Len(<<>>) : Run(n)
<1>1. Run(0) /\ 0 \in 0..Len(<<>>) /\ \A n \in 0..Len(<<>>) : n = 0
  OBVIOUS
<1>. HIDE DEF Run
<1>2. last = 0
  BY <1>1
<1>3. Size(<<>>) = Value(SubSeq(<<>>, 1, last))
  BY DEF Size, Run
<1>. HIDE DEF last
<1>4. SubSeq(<<>>, 1, 0) = <<>>
  OBVIOUS
<1>. QED  BY <1>2, <1>3, <1>4, ValueOfNothing

\* strtol reads the digits at the start of a line, after white space if there is any.
LEMMA SizeOf ==
  ASSUME NEW line \in Seq(Bytes), NEW digits \in Seq(Digits), digits # <<>>,
         NEW p \in 0..1, p = 1 => line[1] = "LF", p + Len(digits) <= Len(line),
         \A i \in 1..Len(digits) : line[p + i] = digits[i],
         p + Len(digits) < Len(line) => line[p + Len(digits) + 1] \notin Digits
  PROVE  Size(line) = Value(digits)
<1>. DEFINE D == Len(digits)
            Run(n) == /\ \A i \in (p + 1)..n : line[i] \in Digits
                      /\ n < Len(line) => line[n + 1] \notin Digits
            last == CHOOSE n \in ((p + 1) - 1)..Len(line) : Run(n)
<1>1. D \in Nat /\ D > 0 /\ \A i \in 1..D : digits[i] \in Digits
  OBVIOUS
<1>2. \A i \in (p + 1)..(p + D) : line[i] \in Digits
  <2>1. \A i \in (p + 1)..(p + D) : i - p \in 1..D /\ p + (i - p) = i
    BY <1>1
  <2>. QED  BY <2>1, <1>1
<1>3. IF line # <<>> /\ line[1] = "LF" THEN p = 1 ELSE p = 0
  <2>1. line # <<>>
    BY <1>1
  <2>2. p = 0 => line[1] \in Digits
    <3>1. p = 0 => 1 \in (p + 1)..(p + D)
      BY <1>1
    <3>. QED  BY <1>2, <3>1
  <2>3. p = 0 \/ p = 1
    OBVIOUS
  <2>. QED  BY <2>1, <2>2, <2>3, FramingCharacters
<1>4. Run(p + D) /\ p + D \in ((p + 1) - 1)..Len(line)
  BY <1>1, <1>2
<1>5. ASSUME NEW n \in ((p + 1) - 1)..Len(line), Run(n) PROVE n = p + D
  <2>1. ~(n < p + D)
    <3>1. n < p + D => n + 1 \in (p + 1)..(p + D) /\ n < Len(line)
      BY <1>1
    <3>. QED  BY <3>1, <1>2, <1>5
  <2>2. ~(n > p + D)
    <3>1. n > p + D => p + D + 1 \in (p + 1)..n /\ p + D < Len(line)
      BY <1>1
    <3>. QED  BY <3>1, <1>4, <1>5
  <2>. QED  BY <2>1, <2>2, <1>1
<1>6. last = p + D
  <2>. HIDE DEF Run, D
  <2>. QED  BY <1>4, <1>5
<1>7. Size(line) = Value(SubSeq(line, p + 1, last))
  <2>. DEFINE first == IF line # <<>> /\ line[1] = "LF" THEN 2 ELSE 1
  <2>1. first = p + 1
    BY <1>3
  <2>. HIDE DEF first
  <2>2. Size(line) = Value(SubSeq(line, first, CHOOSE n \in (first - 1)..Len(line) :
                                    /\ \A i \in first..n : line[i] \in Digits
                                    /\ n < Len(line) => line[n + 1] \notin Digits))
    BY DEF Size, first
  <2>. QED  BY <2>1, <2>2
<1>. HIDE DEF last
<1>8. SubSeq(line, p + 1, p + D) = digits
  <2>1. SubSeq(line, p + 1, p + D) \in Seq(Bytes) /\ Len(SubSeq(line, p + 1, p + D)) = D
    BY <1>1
  <2>2. \A i \in 1..D : SubSeq(line, p + 1, p + D)[i] = line[p + i]
    BY <1>1
  <2>3. \A i \in 1..D : SubSeq(line, p + 1, p + D)[i] = digits[i]
    BY <2>2
  <2>4. digits \in Seq(Bytes)
    <3>1. \A A, B : A \subseteq B => Seq(A) \subseteq Seq(B)
      OBVIOUS
    <3>. QED  BY <3>1, FramingCharacters, Zenon
  <2>. QED  BY <2>1, <2>3, <2>4, SameSeq
<1>. QED  BY <1>6, <1>7, <1>8

\* What has been collected of a line.
LEMMA CollectedFacts ==
  ASSUME NEW line \in Seq(Bytes), NEW j \in 0..Len(line)
  PROVE  /\ Collected(line, j) \in Seq(Bytes)
         /\ Len(Collected(line, j)) = IF j < MaxHex THEN j ELSE MaxHex
         /\ \A i \in 1..Len(Collected(line, j)) : Collected(line, j)[i] = line[i]
<1>. DEFINE n == IF j < MaxHex THEN j ELSE MaxHex
<1>1. n \in 0..Len(line)
  BY MessagesAssumption
<1>. HIDE DEF n
<1>2. SubSeq(line, 1, n) \in Seq(Bytes) /\ Len(SubSeq(line, 1, n)) = n
      /\ \A i \in 1..n : SubSeq(line, 1, n)[i] = line[i]
  BY <1>1
<1>3. Collected(line, j) = SubSeq(line, 1, n)
  BY DEF Collected, n
<1>. QED  BY <1>2, <1>3 DEF n

\* A character more is kept while there is room.
LEMMA CollectMore ==
  ASSUME NEW line \in Seq(Bytes), NEW j \in 0..Len(line), j < Len(line)
  PROVE  Collected(line, j + 1) = IF Len(Collected(line, j)) < MaxHex
                                  THEN Append(Collected(line, j), line[j + 1])
                                  ELSE Collected(line, j)
<1>. DEFINE s == Collected(line, j)
            t == Collected(line, j + 1)
<1>1. /\ s \in Seq(Bytes) /\ Len(s) = (IF j < MaxHex THEN j ELSE MaxHex)
      /\ \A i \in 1..Len(s) : s[i] = line[i]
  BY CollectedFacts
<1>2. /\ t \in Seq(Bytes) /\ Len(t) = (IF j + 1 < MaxHex THEN j + 1 ELSE MaxHex)
      /\ \A i \in 1..Len(t) : t[i] = line[i]
  <2>1. j + 1 \in 0..Len(line)
    OBVIOUS
  <2>. QED  BY <2>1, CollectedFacts
<1>3. MaxHex \in Nat /\ line[j + 1] \in Bytes
  BY MessagesAssumption
<1>. HIDE DEF s, t
<1>4. CASE j < MaxHex
  <2>1. Len(s) = j /\ Len(t) = j + 1
    BY <1>1, <1>2, <1>3, <1>4
  <2>2. /\ Append(s, line[j + 1]) \in Seq(Bytes) /\ Len(Append(s, line[j + 1])) = j + 1
        /\ \A i \in 1..(j + 1) : Append(s, line[j + 1])[i] = line[i]
    BY <1>1, <1>3, <2>1
  <2>3. \A u \in Seq(Bytes) : Len(u) = Len(t) /\ (\A i \in 1..Len(t) : u[i] = t[i]) => u = t
    BY <1>2
  <2>4. t = Append(s, line[j + 1])
    BY <1>2, <2>1, <2>2, <2>3
  <2>. QED  BY <1>4, <2>1, <2>4 DEF s, t
<1>5. CASE ~(j < MaxHex)
  <2>1. Len(s) = MaxHex /\ Len(t) = MaxHex
    BY <1>1, <1>2, <1>3, <1>5
  <2>2. \A u \in Seq(Bytes) : Len(u) = Len(t) /\ (\A i \in 1..Len(t) : u[i] = t[i]) => u = t
    BY <1>2
  <2>3. t = s
    BY <1>1, <1>2, <2>1, <2>2
  <2>. QED  BY <2>1, <2>3, <1>3 DEF s, t
<1>. QED  BY <1>4, <1>5

\* Nothing yet.
LEMMA CollectNone == \A line \in Seq(Bytes) : Collected(line, 0) = <<>>
<1>. SUFFICES ASSUME NEW line \in Seq(Bytes) PROVE Collected(line, 0) = <<>>
  OBVIOUS
<1>1. Collected(line, 0) \in Seq(Bytes) /\ Len(Collected(line, 0)) = 0
  <2>1. 0 \in 0..Len(line) /\ (IF 0 < MaxHex THEN 0 ELSE MaxHex) = 0
    BY MessagesAssumption
  <2>. QED  BY <2>1, CollectedFacts
<1>. QED  BY <1>1

\* A lead and a size line, one behind the other.
LEMMA LeadAndLine ==
  ASSUME NEW m \in Messages, m.chunked, NEW k \in 1..Len(m.chunks), NEW lead \in {<<>>, <<"LF">>}
  PROVE  /\ Len(lead) \in 0..1 /\ SizeLine(m, k) \in Seq(Bytes)
         /\ lead \o SizeLine(m, k) \in Seq(Bytes)
         /\ IsJoin(lead \o SizeLine(m, k), lead, SizeLine(m, k))
<1>1. lead \in Seq(Bytes) /\ Len(lead) \in 0..1
  <2>1. \A b \in Bytes : <<b>> \in Seq(Bytes) /\ Len(<<b>>) = 1
    OBVIOUS
  <2>2. <<>> \in Seq(Bytes) /\ Len(<<>>) = 0
    OBVIOUS
  <2>3. "LF" \in Bytes
    BY FramingCharacters
  <2>4. CASE lead = <<>>
    BY <2>2, <2>4
  <2>5. CASE lead = <<"LF">>
    <3>1. <<"LF">> \in Seq(Bytes) /\ Len(<<"LF">>) = 1
      BY <2>1, <2>3
    <3>. QED  BY <2>5, <3>1
  <2>. QED  BY <2>4, <2>5
<1>2. SizeLine(m, k) \in Seq(Bytes)
  <2>1. \A A, B : A \subseteq B => Seq(A) \subseteq Seq(B)
    OBVIOUS
  <2>2. SizeLine(m, k) \in Seq(Bytes \ {"CR"})
    BY SizeLineFacts
  <2>. QED  BY <2>1, <2>2, Zenon
<1>3. lead \o SizeLine(m, k) \in Seq(Bytes) /\ IsJoin(lead \o SizeLine(m, k), lead, SizeLine(m, k))
  BY <1>1, <1>2, Joined, Zenon
<1>. QED  BY <1>1, <1>2, <1>3

\* Digits with or without a line feed in front, and what follows them.
IsSizeText(text, lead, line, digits, extension) ==
  /\ digits \in Seq(Digits) /\ digits # <<>> /\ Len(digits) < MaxHex /\ MaxHex \in Nat
  /\ extension \in Seq(Bytes) /\ (extension # <<>> => extension[1] \notin Digits)
  /\ lead \in Seq(Bytes) /\ Len(lead) \in 0..1 /\ (Len(lead) = 1 => lead[1] = "LF")
  /\ line \in Seq(Bytes) /\ IsJoin(line, digits, extension)
  /\ text \in Seq(Bytes) /\ IsJoin(text, lead, line)

LEMMA TextRead ==
  ASSUME NEW text, NEW lead, NEW line, NEW digits, NEW extension,
         IsSizeText(text, lead, line, digits, extension)
  PROVE  Size(Collected(text, Len(lead) + Len(line))) = Value(digits)
<1>0. /\ digits \in Seq(Digits) /\ digits # <<>> /\ Len(digits) < MaxHex /\ MaxHex \in Nat
      /\ extension \in Seq(Bytes) /\ (extension # <<>> => extension[1] \notin Digits)
      /\ lead \in Seq(Bytes) /\ Len(lead) \in 0..1 /\ (Len(lead) = 1 => lead[1] = "LF")
      /\ line \in Seq(Bytes) /\ IsJoin(line, digits, extension)
      /\ text \in Seq(Bytes) /\ IsJoin(text, lead, line)
  BY DEF IsSizeText
<1>. DEFINE L == Len(line)
            D == Len(digits)
            E == Len(extension)
            p == Len(lead)
            hex0 == Collected(text, p + L)
<1>1. D \in Nat /\ D > 0 /\ E \in Nat /\ D < MaxHex /\ p \in 0..1 /\ MaxHex \in Nat
  BY <1>0
<1>2. L = D + E /\ Len(text) = p + L
  BY <1>0 DEF IsJoin
<1>3. /\ \A i \in 1..D : line[i] = digits[i]
      /\ \A i \in 1..E : line[D + i] = extension[i]
      /\ \A i \in 1..p : text[i] = lead[i]
      /\ \A i \in 1..L : text[p + i] = line[i]
  BY <1>0 DEF IsJoin
<1>4. E > 0 => extension[1] \notin Digits
  BY <1>0
<1>5. p = 1 => lead[1] = "LF"
  BY <1>0
<1>. HIDE DEF L, D, E, p
<1>6. /\ hex0 \in Seq(Bytes) /\ Len(hex0) = IF p + L < MaxHex THEN p + L ELSE MaxHex
      /\ \A i \in 1..Len(hex0) : hex0[i] = text[i]
  <2>1. p + L \in 0..Len(text)
    BY <1>1, <1>2
  <2>. QED  BY <2>1, <1>0, CollectedFacts
<1>. HIDE DEF hex0
<1>7. p + D <= Len(hex0) /\ Len(hex0) <= p + D + E
  BY <1>1, <1>2, <1>6
<1>8. ASSUME NEW i \in 1..D PROVE hex0[p + i] = digits[i]
  <2>1. p + i \in 1..Len(hex0) /\ i \in 1..L
    BY <1>1, <1>2, <1>6, <1>7
  <2>. QED  BY <2>1, <1>3, <1>6
<1>9. p = 1 => hex0[1] = "LF"
  <2>1. p = 1 => 1 \in 1..Len(hex0) /\ 1 \in 1..p
    BY <1>1, <1>6, <1>7
  <2>. QED  BY <2>1, <1>3, <1>5, <1>6
<1>10. ASSUME p + D < Len(hex0) PROVE hex0[p + D + 1] \notin Digits
  <2>1. /\ p + D + 1 \in 1..Len(hex0) /\ D + 1 \in 1..L /\ 1 \in 1..E /\ E > 0
        /\ p + D + 1 = p + (D + 1)
    BY <1>1, <1>2, <1>6, <1>7, <1>10
  <2>2. hex0[p + D + 1] = text[p + D + 1] /\ text[p + (D + 1)] = line[D + 1]
        /\ line[D + 1] = extension[1]
    BY <2>1, <1>3, <1>6
  <2>. QED  BY <2>1, <2>2, <1>4
<1>11. \A i \in 1..Len(digits) : hex0[p + i] = digits[i]
  BY <1>8 DEF D
<1>12. Size(hex0) = Value(digits)
  BY <1>6, <1>7, <1>9, <1>10, <1>11, <1>0, <1>1, SizeOf DEF D
<1>. QED  BY <1>12 DEF hex0, L, p

\* The size read is the size said, with the line feed of the chunk before it
\* in front or without, and although the end of the line may be cut off.
LEMMA SizeRead ==
  ASSUME NEW m \in Messages, m.chunked, NEW k \in 1..Len(m.chunks), NEW lead \in {<<>>, <<"LF">>}
  PROVE  Size(Collected(lead \o SizeLine(m, k), Len(lead) + Len(SizeLine(m, k))))
           = Len(m.chunks[k])
<1>1. m.sizes[k] # <<>> /\ Len(m.sizes[k]) < MaxHex /\ Value(m.sizes[k]) = Len(m.chunks[k])
      /\ MaxHex \in Nat /\ (m.extension # <<>> => Head(m.extension) = ";")
  <2>1. m.chunks \in Seq(Seq(Bytes)) /\ SaysItsSizes(m) /\ MaxHex \in Nat
    BY MessagesAssumption
  <2>2. k \in DOMAIN m.sizes
    <3>1. m.sizes \in Seq(Seq(Digits)) /\ Len(m.sizes) = Len(m.chunks)
      BY <2>1 DEF SaysItsSizes
    <3>2. DOMAIN m.sizes = 1..Len(m.sizes)
      BY <3>1
    <3>. QED  BY <3>1, <3>2
  <2>. QED  BY <2>1, <2>2 DEF SaysItsSizes
<1>2. m.sizes[k] \in Seq(Digits) /\ m.extension \in Seq(Bytes \ {"CR", "LF"})
  BY SizeLineFacts
<1>3. m.sizes[k] \in Seq(Bytes) /\ m.extension \in Seq(Bytes)
  <2>1. \A A, B : A \subseteq B => Seq(A) \subseteq Seq(B)
    OBVIOUS
  <2>2. Bytes \ {"CR", "LF"} \subseteq Bytes /\ Digits \subseteq Bytes
    BY FramingCharacters
  <2>. QED  BY <2>1, <2>2, <1>2, Zenon
<1>4. IsJoin(SizeLine(m, k), m.sizes[k], m.extension)
  BY <1>3, Joined, Zenon DEF SizeLine
<1>5. m.extension # <<>> => m.extension[1] \notin Digits
  <2>1. m.extension # <<>> => Head(m.extension) = m.extension[1]
    BY <1>3
  <2>. QED  BY <2>1, <1>1, FramingCharacters
<1>6. /\ Len(lead) \in 0..1 /\ SizeLine(m, k) \in Seq(Bytes)
      /\ lead \o SizeLine(m, k) \in Seq(Bytes)
      /\ IsJoin(lead \o SizeLine(m, k), lead, SizeLine(m, k))
  BY LeadAndLine
<1>7. lead \in Seq(Bytes) /\ (Len(lead) = 1 => lead[1] = "LF")
  <2>1. CASE lead = <<>>
    <3>1. <<>> \in Seq(Bytes) /\ Len(<<>>) = 0
      OBVIOUS
    <3>2. Len(<<>>) # 1
      BY <3>1
    <3>. QED  BY <2>1, <3>1, <3>2, Zenon
  <2>2. CASE lead = <<"LF">>
    <3>1. "LF" \in Bytes
      BY FramingCharacters
    <3>2. <<"LF">> \in Seq(Bytes) /\ <<"LF">>[1] = "LF"
      BY <3>1
    <3>. QED  BY <2>2, <3>2, Zenon
  <2>. QED  BY <2>1, <2>2
<1>. DEFINE t == lead \o SizeLine(m, k)
<1>8. t \in Seq(Bytes) /\ IsJoin(t, lead, SizeLine(m, k))
  BY <1>6
<1>. HIDE DEF t
<1>9. Size(Collected(t, Len(lead) + Len(SizeLine(m, k)))) = Value(m.sizes[k])
  <2>1. IsSizeText(t, lead, SizeLine(m, k), m.sizes[k], m.extension)
    BY <1>1, <1>2, <1>3, <1>4, <1>5, <1>6, <1>7, <1>8 DEF IsSizeText
  <2>. QED  BY <2>1, TextRead
<1>. QED  BY <1>1, <1>9 DEF t

(***************************************************************************)
(* What the reader meets where.                                            *)
(***************************************************************************)
\* The bytes of a frame.
LEMMA OnTheWire ==
  ASSUME NEW m \in Messages, m.chunked, NEW k \in 1..Len(m.chunks),
         NEW W, W = FrameStart(m, k)
  PROVE  /\ W \in Nat /\ Len(Frame(m, k)) \in Nat
         /\ \A j \in 1..Len(Frame(m, k)) : Wire(m)[W + j] = Frame(m, k)[j]
         /\ k < Len(m.chunks) => FrameStart(m, k + 1) = W + Len(Frame(m, k))
<1>. DEFINE frames == Frames(m)
            start == Layout(frames)
            N == Len(m.chunks)
<1>1. /\ N \in Nat /\ Wire(m) = FlattenSeq(frames) /\ Len(frames) = N /\ IsLayout(start, frames)
  BY Starts
<1>2. frames[k] = Frame(m, k) /\ Frame(m, k) \in Seq(Bytes)
  <2>1. m.chunks \in Seq(Seq(Bytes))
    BY MessagesAssumption
  <2>2. k \in DOMAIN m.chunks
    BY <2>1
  <2>3. Frame(m, k) \in Seq(Bytes)
    BY FrameFacts DEF IsFrame
  <2>. QED  BY <2>2, <2>3 DEF Frames
<1>3. W = start[k - 1] /\ FrameStart(m, k + 1) = start[k]
  <2>1. (k + 1) - 1 = k
    OBVIOUS
  <2>. QED  BY <2>1 DEF FrameStart
<1>. HIDE DEF frames, start, N
<1>4. start \in [0..N -> Nat] /\ k \in 1..N /\ k - 1 \in 0..N
  <2>1. k \in 1..N
    BY DEF N
  <2>. QED  BY <2>1, <1>1 DEF IsLayout
<1>5. /\ start[k] = start[k - 1] + Len(frames[k])
      /\ \A j \in 1..Len(frames[k]) : FlattenSeq(frames)[start[k - 1] + j] = frames[k][j]
  BY <1>1, <1>4 DEF IsLayout
<1>6. start[k - 1] \in Nat /\ Len(Frame(m, k)) \in Nat
  BY <1>2, <1>4
<1>. QED  BY <1>1, <1>2, <1>3, <1>5, <1>6

\* The bytes of a frame, by their place in it; and the line end before it.
LEMMA FrameBytes ==
  ASSUME NEW m \in Messages, m.chunked, NEW k \in 1..Len(m.chunks)
  PROVE  LET W == FrameStart(m, k)
             L == Len(SizeLine(m, k))
             C == Len(m.chunks[k])
         IN  /\ W \in Nat /\ L \in Nat /\ C \in Nat
             /\ \A j \in 1..L : Wire(m)[W + j] = SizeLine(m, k)[j]
             /\ Wire(m)[W + L + 1] = "CR" /\ Wire(m)[W + L + 2] = "LF"
             /\ \A j \in 1..C : Wire(m)[W + L + 2 + j] = m.chunks[k][j]
             /\ Wire(m)[W + L + C + 3] = "CR" /\ Wire(m)[W + L + C + 4] = "LF"
             /\ k < Len(m.chunks) => FrameStart(m, k + 1) = W + L + C + 4
<1>. DEFINE W == FrameStart(m, k)
            line == SizeLine(m, k)
            c == m.chunks[k]
            L == Len(line)
            C == Len(c)
            f == Frame(m, k)
            w == Wire(m)
<1>1. /\ W \in Nat /\ Len(f) \in Nat
      /\ \A j \in 1..Len(f) : w[W + j] = f[j]
      /\ k < Len(m.chunks) => FrameStart(m, k + 1) = W + Len(f)
  BY OnTheWire
<1>2. IsFrame(f, line, c)
  BY FrameFacts
<1>3. L \in Nat /\ C \in Nat
  BY SizeLineFacts
<1>. HIDE DEF W, line, c, f, w, L, C
<1>4. /\ Len(f) = L + C + 4 /\ \A j \in 1..L : f[j] = line[j]
      /\ f[L + 1] = "CR" /\ f[L + 2] = "LF"
      /\ \A j \in 1..C : f[L + 2 + j] = c[j]
      /\ f[L + C + 3] = "CR" /\ f[L + C + 4] = "LF"
  BY <1>2 DEF IsFrame, L, C
<1>5. ASSUME NEW j \in 1..L PROVE w[W + j] = line[j]
  <2>1. j \in 1..Len(f)
    BY <1>3, <1>4
  <2>. QED  BY <2>1, <1>1, <1>4
<1>6. w[W + L + 1] = "CR" /\ w[W + L + 2] = "LF"
  <2>1. /\ L + 1 \in 1..Len(f) /\ W + (L + 1) = W + L + 1
        /\ L + 2 \in 1..Len(f) /\ W + (L + 2) = W + L + 2
    BY <1>1, <1>3, <1>4
  <2>2. w[W + (L + 1)] = f[L + 1] /\ w[W + (L + 2)] = f[L + 2]
    BY <2>1, <1>1
  <2>. QED  BY <2>1, <2>2, <1>4
<1>7. ASSUME NEW j \in 1..C PROVE w[W + L + 2 + j] = c[j]
  <2>1. L + 2 + j \in 1..Len(f) /\ W + (L + 2 + j) = W + L + 2 + j
    BY <1>1, <1>3, <1>4
  <2>2. w[W + (L + 2 + j)] = f[L + 2 + j]
    BY <2>1, <1>1
  <2>. QED  BY <2>1, <2>2, <1>4
<1>8. w[W + L + C + 3] = "CR" /\ w[W + L + C + 4] = "LF"
  <2>1. /\ L + C + 3 \in 1..Len(f) /\ W + (L + C + 3) = W + L + C + 3
        /\ L + C + 4 \in 1..Len(f) /\ W + (L + C + 4) = W + L + C + 4
    BY <1>1, <1>3, <1>4
  <2>2. w[W + (L + C + 3)] = f[L + C + 3] /\ w[W + (L + C + 4)] = f[L + C + 4]
    BY <2>1, <1>1
  <2>. QED  BY <2>1, <2>2, <1>4
<1>9. k < Len(m.chunks) => FrameStart(m, k + 1) = W + L + C + 4
  <2>1. W + Len(f) = W + L + C + 4
    BY <1>1, <1>3, <1>4
  <2>. QED  BY <2>1, <1>1
<1>10. /\ W \in Nat /\ L \in Nat /\ C \in Nat
       /\ \A j \in 1..L : w[W + j] = line[j]
       /\ \A j \in 1..C : w[W + L + 2 + j] = c[j]
  BY <1>1, <1>3, <1>5, <1>7
<1>. QED  BY <1>6, <1>8, <1>9, <1>10, Zenon DEF W, line, c, f, w, L, C

\* The line end before a frame that is not the first.
LEMMA LineEndBefore ==
  ASSUME NEW m \in Messages, m.chunked, NEW k \in 1..Len(m.chunks), k > 1
  PROVE  /\ FrameStart(m, k) \in Nat /\ FrameStart(m, k) >= 4
         /\ Wire(m)[FrameStart(m, k) - 1] = "CR" /\ Wire(m)[FrameStart(m, k)] = "LF"
<1>. DEFINE W == FrameStart(m, k - 1)
            L == Len(SizeLine(m, k - 1))
            C == Len(m.chunks[k - 1])
            w == Wire(m)
            V == FrameStart(m, k)
<1>1. k - 1 \in 1..Len(m.chunks) /\ k - 1 < Len(m.chunks) /\ (k - 1) + 1 = k
  BY Starts
<1>2. /\ W \in Nat /\ L \in Nat /\ C \in Nat
      /\ w[W + L + C + 3] = "CR" /\ w[W + L + C + 4] = "LF"
      /\ k - 1 < Len(m.chunks) => FrameStart(m, (k - 1) + 1) = W + L + C + 4
  BY <1>1, FrameBytes
<1>. HIDE DEF W, L, C, w
<1>3. V = W + L + C + 4
  BY <1>1, <1>2
<1>. HIDE DEF V
<1>4. V \in Nat /\ V >= 4 /\ V - 1 = W + L + C + 3
  BY <1>2, <1>3
<1>5. w[V - 1] = "CR" /\ w[V] = "LF"
  BY <1>2, <1>3, <1>4
<1>. QED  BY <1>4, <1>5 DEF V, w

\* The bytes of a chunk in the body.
LEMMA InTheBody ==
  ASSUME NEW m \in Messages, NEW k \in 1..Len(m.chunks)
  PROVE  LET B == ChunkStart(m, k)
             C == Len(m.chunks[k])
         IN  /\ B \in Nat /\ C \in Nat /\ Len(Body(m)) \in Nat /\ B + C <= Len(Body(m))
             /\ \A j \in 1..C : Body(m)[B + j] = m.chunks[k][j]
             /\ C > 0 => k < Len(m.chunks) /\ ChunkStart(m, k + 1) = B + C
             /\ C = 0 => B = Len(Body(m))
<1>. DEFINE chunks == m.chunks
            start == Layout(chunks)
            N == Len(chunks)
            c == chunks[k]
            C == Len(c)
            B == ChunkStart(m, k)
            flat == FlattenSeq(chunks)
<1>1. N \in Nat /\ N > 0 /\ flat \in Seq(Bytes) /\ IsLayout(start, chunks)
  BY Starts DEF Body
<1>2. c \in Seq(Bytes) /\ (c = <<>> <=> k = N)
  <2>1. m.chunks \in Seq(Seq(Bytes)) /\ (\A i \in DOMAIN m.chunks : m.chunks[i] = <<>> <=> i = N)
    BY MessagesAssumption
  <2>2. k \in DOMAIN m.chunks
    BY <2>1
  <2>. QED  BY <2>1, <2>2
<1>3. B = start[k - 1] /\ ChunkStart(m, k + 1) = start[k] /\ k \in 1..N
  <2>1. (k + 1) - 1 = k
    OBVIOUS
  <2>. QED  BY <2>1 DEF ChunkStart
<1>4. Body(m) = flat
  BY DEF Body
<1>. HIDE DEF chunks, start, N, flat
<1>5. start \in [0..N -> Nat] /\ Len(flat) = start[N]
  BY <1>1 DEF IsLayout, N, flat
<1>6. /\ start[k] = start[k - 1] + C /\ start[k] <= Len(flat)
      /\ \A j \in 1..C : flat[start[k - 1] + j] = c[j]
  BY <1>1, <1>3 DEF IsLayout, flat, N
<1>7. C \in Nat /\ (C = 0 <=> c = <<>>)
  BY <1>2
<1>. HIDE DEF c, C, B
<1>8. B \in Nat /\ Len(flat) \in Nat
  <2>1. k - 1 \in 0..N
    BY <1>1, <1>3
  <2>. QED  BY <2>1, <1>1, <1>3, <1>5
<1>9. B + C <= Len(flat) /\ \A j \in 1..C : flat[B + j] = c[j]
  BY <1>3, <1>6
<1>10. C > 0 => k < N /\ ChunkStart(m, k + 1) = B + C
  <2>1. C > 0 => k # N
    BY <1>2, <1>7
  <2>. QED  BY <2>1, <1>1, <1>3, <1>6
<1>11. C = 0 => B = Len(flat)
  <2>1. C = 0 => k = N
    BY <1>2, <1>7
  <2>2. start[k] = B + C
    BY <1>3, <1>6
  <2>. QED  BY <2>1, <2>2, <1>5, <1>8
<1>. QED  BY <1>4, <1>7, <1>8, <1>9, <1>10, <1>11 DEF c, C, B, chunks, N

(***************************************************************************)
(* The body handed over.                                                   *)
(***************************************************************************)
LEMMA SentFacts ==
  ASSUME NEW m \in Messages, Sent(m)
  PROVE  /\ message.chunked = m.chunked /\ message.bytes = Wire(m) /\ message.body = Body(m)
         /\ message.body \in Seq(Bytes)
<1>1. Body(m) \in Seq(Bytes)
  BY Starts
<1>. QED  BY <1>1 DEF Sent

\* The body has the length it was handed over to.
LEMMA HandedLen ==
  ASSUME NEW s \in Seq(Bytes), NEW n \in 0..Len(s)
  PROVE  SubSeq(s, 1, n) \in Seq(Bytes) /\ Len(SubSeq(s, 1, n)) = n
OBVIOUS

\* The next byte.
LEMMA HandMore ==
  ASSUME NEW s \in Seq(Bytes), NEW n \in 0..Len(s), n < Len(s)
  PROVE  Append(SubSeq(s, 1, n), s[n + 1]) = SubSeq(s, 1, n + 1)
<1>1. /\ SubSeq(s, 1, n) \in Seq(Bytes) /\ Len(SubSeq(s, 1, n)) = n
      /\ \A i \in 1..n : SubSeq(s, 1, n)[i] = s[i]
  OBVIOUS
<1>2. /\ SubSeq(s, 1, n + 1) \in Seq(Bytes) /\ Len(SubSeq(s, 1, n + 1)) = n + 1
      /\ \A i \in 1..(n + 1) : SubSeq(s, 1, n + 1)[i] = s[i]
  OBVIOUS
<1>3. s[n + 1] \in Bytes
  OBVIOUS
<1>. DEFINE a == SubSeq(s, 1, n)
            b == SubSeq(s, 1, n + 1)
            t == Append(a, s[n + 1])
<1>. HIDE DEF a, b
<1>4. /\ a \in Seq(Bytes) /\ Len(a) = n /\ \A i \in 1..n : a[i] = s[i]
      /\ b \in Seq(Bytes) /\ Len(b) = n + 1 /\ \A i \in 1..(n + 1) : b[i] = s[i]
  BY <1>1, <1>2 DEF a, b
<1>5. /\ t \in Seq(Bytes) /\ Len(t) = n + 1
      /\ \A i \in 1..n : t[i] = a[i]
      /\ t[n + 1] = s[n + 1]
  BY <1>3, <1>4
<1>. HIDE DEF t
<1>6. \A i \in 1..(n + 1) : t[i] = b[i]
  <2>1. \A i \in 1..(n + 1) : i \in 1..n \/ i = n + 1
    OBVIOUS
  <2>. QED  BY <2>1, <1>4, <1>5
<1>7. t = b
  BY <1>4, <1>5, <1>6, SameSeq
<1>. QED  BY <1>7 DEF t, a, b

\* A reader that gives up, or has all of it.
LEMMA GivesUp ==
  ASSUME NEW m \in Messages, Sent(m), NEW n, HandedOver(n),
         UNCHANGED <<message, body>>, done' = TRUE, pc' \in {"Trailer", "Trailer2", "Eof"},
         missed' = TRUE \/ n = Len(message.body)
  PROVE  Over'
<1>1. message.body \in Seq(Bytes)
  BY SentFacts
<1>2. n \in 0..Len(message.body) /\ body = SubSeq(message.body, 1, n)
  BY DEF HandedOver
<1>3. Len(body) = n
  BY <1>1, <1>2, HandedLen
<1>4. HandedOver(Len(body))
  BY <1>2, <1>3 DEF HandedOver
<1>5. HandedOver(Len(body))'
  BY <1>4 DEF HandedOver
<1>. QED  BY <1>3, <1>5 DEF Over

(***************************************************************************)
(* One step per action.                                                    *)
(***************************************************************************)
\* A character of the size line.
LEMMA SizeStep ==
  ASSUME NEW m \in Messages, Sent(m), NEW k \in 1..Len(m.chunks), InFrame(m, k),
         taken \in 0..arrived, arrived \in Nat, ReadSize
  PROVE  Located(m)'
<1>. DEFINE W == FrameStart(m, k)
            line == SizeLine(m, k)
            L == Len(line)
            B == ChunkStart(m, k)
<1>1. m.chunked /\ ~done /\ pc = "Size" /\ UNCHANGED <<message, body>>
  BY DEF InFrame, ReadSize, wireVars
<1>2. AtSize(m, k)
  BY <1>1 DEF InFrame, AtSizeLf, AtData, AtSkip
<1>3. message.bytes = Wire(m) /\ message.body = Body(m)
  BY SentFacts
<1>4. /\ W \in Nat /\ L \in Nat /\ Wire(m)[W + L + 1] = "CR"
      /\ \A j \in 1..L : Wire(m)[W + j] = line[j]
  BY <1>1, FrameBytes
<1>5. HandedOver(B)
  BY <1>2 DEF AtSize
<1>6. CASE Nothing
  <2>1. Finish /\ missed' = TRUE
    BY <1>6 DEF ReadSize, Got, Nothing
  <2>2. Over'
    BY <1>1, <1>5, <2>1, GivesUp DEF Finish
  <2>. QED  BY <2>2 DEF Located
<1>7. CASE ~Nothing
  <2>1. PICK b \in Bytes :
          /\ Got(b) /\ UNCHANGED <<done, missed>>
          /\ IF b = "CR" THEN pc' = "SizeLf" /\ UNCHANGED hex
             ELSE pc' = "Size" /\ hex' = IF Len(hex) < MaxHex THEN Append(hex, b) ELSE hex
    BY <1>7 DEF ReadSize
  <2>2. b = Wire(m)[taken + 1] /\ taken' = taken + 1
    BY <1>3, <2>1 DEF Got
  <2>3. HandedOver(B)' /\ ~done' /\ missed' = missed
    BY <1>1, <1>5, <2>1 DEF HandedOver
  <2>4. ASSUME NEW lead \in Leads(k), NEW j \in 0..(Len(lead) + L),
               taken = W - Len(lead) + j, hex = Collected(lead \o line, j)
        PROVE  InFrame(m, k)'
    <3>1. lead \in Leads(k)' /\ lead \in {<<>>, <<"LF">>} /\ (Len(lead) = 1 => k > 1)
      <4>1. Len(<<>>) # 1
        OBVIOUS
      <4>. QED  BY <4>1, <2>3 DEF Leads
    <3>. DEFINE text == lead \o line
                p == Len(lead)
    <3>2. p \in 0..1 /\ line \in Seq(Bytes) /\ text \in Seq(Bytes) /\ IsJoin(text, lead, line)
      BY <1>1, <3>1, LeadAndLine
    <3>3. \A i \in 1..L : line[i] # "CR"
      <4>1. line \in Seq(Bytes \ {"CR"})
        BY <1>1, SizeLineFacts
      <4>. QED  BY <4>1
    <3>4. p = 1 => lead[1] = "LF" /\ k > 1
      <4>1. Len(<<>>) # 1 /\ <<"LF">>[1] = "LF"
        OBVIOUS
      <4>. QED  BY <3>1, <4>1
    <3>5. p = 1 => Wire(m)[W] = "LF"
      BY <1>1, <3>4, LineEndBefore
    <3>6. taken = W - p + j /\ j \in 0..(p + L) /\ hex = Collected(text, j)
      BY <2>4
    <3>. HIDE DEF text, line, W, B, p, L
    <3>7. Len(text) = p + L /\ (\A i \in 1..p : text[i] = lead[i]) /\ \A i \in 1..L : text[p + i] = line[i]
      BY <3>2 DEF IsJoin, p, L
    <3>8. CASE j = p + L
      <4>1. taken + 1 = W + L + 1
        BY <1>4, <3>2, <3>6, <3>8
      <4>2. b = "CR"
        BY <1>4, <2>2, <4>1
      <4>3. pc' = "SizeLf" /\ hex' = Collected(text, p + L) /\ taken' = W + L + 1
        BY <2>1, <2>2, <3>6, <3>8, <4>1, <4>2
      <4>4. AtSizeLf(m, k)'
        BY <2>3, <3>1, <4>3 DEF AtSizeLf, W, L, p, text, line, B
      <4>. QED  BY <1>1, <2>3, <4>4 DEF InFrame
    <3>9. CASE j # p + L
      <4>1. j + 1 \in 0..(p + L) /\ j < Len(text) /\ j \in 0..Len(text)
        BY <1>4, <3>2, <3>6, <3>7, <3>9
      <4>2. b = text[j + 1] /\ b # "CR"
        <5>1. CASE j < p
          <6>1. p = 1 /\ j = 0 /\ taken + 1 = W /\ j + 1 \in 1..p
            BY <1>4, <3>2, <3>6, <5>1
          <6>2. text[j + 1] = "LF"
            BY <3>4, <3>7, <6>1
          <6>. QED  BY <2>2, <3>5, <6>1, <6>2
        <5>2. CASE ~(j < p)
          <6>. DEFINE i == j + 1 - p
          <6>1. i \in 1..L /\ j + 1 = p + i /\ taken + 1 = W + i
            BY <1>4, <3>2, <3>6, <3>9, <5>2
          <6>. HIDE DEF i
          <6>2. text[j + 1] = line[i]
            BY <3>7, <6>1
          <6>3. b = line[i]
            BY <1>4, <2>2, <6>1
          <6>. QED  BY <3>3, <6>1, <6>2, <6>3
        <5>. QED  BY <5>1, <5>2
      <4>3. pc' = "Size" /\ hex' = IF Len(hex) < MaxHex THEN Append(hex, b) ELSE hex
        BY <2>1, <4>2
      <4>4. hex' = Collected(text, j + 1)
        BY <3>2, <3>6, <4>1, <4>2, <4>3, CollectMore
      <4>5. taken' = W - p + (j + 1)
        BY <1>4, <2>2, <3>2, <3>6
      <4>6. AtSize(m, k)'
        BY <2>3, <3>1, <4>1, <4>3, <4>4, <4>5 DEF AtSize, W, L, p, text, line, B
      <4>. QED  BY <1>1, <2>3, <4>6 DEF InFrame
    <3>. QED  BY <3>8, <3>9
  <2>5. ASSUME missed, k > 1, taken = W - 2, hex = <<>>
        PROVE  InFrame(m, k)'
    <3>1. Wire(m)[W - 1] = "CR" /\ taken + 1 = W - 1
      BY <1>1, <1>4, <2>5, LineEndBefore
    <3>2. pc' = "SizeLf" /\ hex' = <<>> /\ taken' = W - 1
      BY <2>1, <2>2, <2>5, <3>1
    <3>3. AtSizeLf(m, k)'
      BY <2>3, <2>5, <3>2 DEF AtSizeLf
    <3>. QED  BY <1>1, <2>3, <3>3 DEF InFrame
  <2>6. InFrame(m, k)'
    BY <1>2, <2>4, <2>5 DEF AtSize
  <2>. QED  BY <2>6 DEF Located
<1>. QED  BY <1>6, <1>7

\* The line feed that ends it.
LEMMA SizeLfStep ==
  ASSUME NEW m \in Messages, Sent(m), NEW k \in 1..Len(m.chunks), InFrame(m, k),
         taken \in 0..arrived, arrived \in Nat, ReadSizeLf
  PROVE  Located(m)'
<1>. DEFINE W == FrameStart(m, k)
            L == Len(SizeLine(m, k))
            C == Len(m.chunks[k])
            B == ChunkStart(m, k)
<1>1. m.chunked /\ ~done /\ pc = "SizeLf" /\ UNCHANGED <<message, body>>
  BY DEF InFrame, ReadSizeLf, wireVars
<1>2. AtSizeLf(m, k)
  BY <1>1 DEF InFrame, AtSize, AtData, AtSkip
<1>3. message.bytes = Wire(m) /\ message.body = Body(m)
  BY SentFacts
<1>4. W \in Nat /\ L \in Nat /\ C \in Nat /\ Wire(m)[W + L + 2] = "LF"
  BY <1>1, FrameBytes
<1>5. HandedOver(B)
  BY <1>2 DEF AtSizeLf
<1>6. /\ B \in Nat /\ Len(Body(m)) \in Nat /\ B + C <= Len(Body(m))
      /\ C = 0 => B = Len(Body(m))
  BY InTheBody
<1>7. CASE taken = arrived
  <2>1. Finish /\ missed' = TRUE
    BY <1>7 DEF ReadSizeLf, Got
  <2>2. Over'
    BY <1>1, <1>5, <2>1, GivesUp DEF Finish
  <2>. QED  BY <2>2 DEF Located
<1>8. CASE taken # arrived
  <2>1. message.bytes[taken + 1] = "LF" /\ (missed \/ Size(hex) = C)
        /\ (Size(hex) > 0 => Size(hex) = C /\ taken + 1 = W + L + 2)
        /\ (Size(hex) > 0 \/ Size(hex) = 0)
    <3>1. ASSUME NEW lead \in Leads(k), taken = W + L + 1,
                 hex = Collected(lead \o SizeLine(m, k), Len(lead) + L)
          PROVE  message.bytes[taken + 1] = "LF" /\ Size(hex) = C /\ taken + 1 = W + L + 2
      <4>1. lead \in {<<>>, <<"LF">>}
        BY DEF Leads
      <4>2. Size(hex) = C
        BY <1>1, <3>1, <4>1, SizeRead
      <4>3. taken + 1 = W + L + 2
        BY <1>4, <3>1
      <4>. QED  BY <1>3, <1>4, <4>2, <4>3
    <3>2. ASSUME missed, k > 1, taken = W - 1, hex = <<>>
          PROVE  message.bytes[taken + 1] = "LF" /\ Size(hex) = 0
      <4>1. Wire(m)[W] = "LF"
        BY <1>1, <3>2, LineEndBefore
      <4>2. taken + 1 = W
        BY <1>4, <3>2
      <4>. QED  BY <1>3, <3>2, <4>1, <4>2, SizeOfNothing
    <3>. HIDE DEF W, L, C
    <3>3. \/ \E lead \in Leads(k) :
               taken = W + L + 1 /\ hex = Collected(lead \o SizeLine(m, k), Len(lead) + L)
          \/ missed /\ k > 1 /\ taken = W - 1 /\ hex = <<>>
      BY <1>2 DEF AtSizeLf, W, L
    <3>4. CASE \E lead \in Leads(k) :
                 taken = W + L + 1 /\ hex = Collected(lead \o SizeLine(m, k), Len(lead) + L)
      <4>1. message.bytes[taken + 1] = "LF" /\ Size(hex) = C /\ taken + 1 = W + L + 2
        BY <3>1, <3>4
      <4>. QED  BY <1>4, <4>1
    <3>5. CASE missed /\ k > 1 /\ taken = W - 1 /\ hex = <<>>
      <4>1. message.bytes[taken + 1] = "LF" /\ Size(hex) = 0 /\ missed
        BY <3>2, <3>5
      <4>. QED  BY <4>1
    <3>. QED  BY <3>3, <3>4, <3>5
  <2>2. /\ taken' = taken + 1 /\ remaining' = Size(hex) /\ hex' = <<>> /\ UNCHANGED missed
        /\ IF Size(hex) > 0 THEN pc' = "Data" /\ UNCHANGED done
                            ELSE done' = TRUE /\ pc' = "Trailer"
    BY <1>8, <2>1 DEF ReadSizeLf, Got, Nothing
  <2>3. CASE Size(hex) > 0
    <3>1. Size(hex) = C /\ C > 0 /\ C \in 1..C /\ taken' = W + L + 2
      BY <1>4, <2>1, <2>2, <2>3
    <3>2. HandedOver(B)' /\ pc' = "Data" /\ hex' = <<>> /\ remaining' = C /\ ~done'
      BY <1>1, <1>5, <2>2, <2>3, <3>1 DEF HandedOver
    <3>. HIDE DEF W, L, C, B
    <3>3. W + L + 2 + C - C = W + L + 2 /\ B + C - C = B
      BY <1>4, <1>6
    <3>4. AtData(m, k)'
      BY <3>1, <3>2, <3>3 DEF AtData, W, L, C, B
    <3>. QED  BY <1>1, <3>2, <3>4 DEF InFrame, Located
  <2>4. CASE ~(Size(hex) > 0)
    <3>1. done' = TRUE /\ pc' = "Trailer" /\ missed' = missed
      BY <2>2, <2>4
    <3>2. missed \/ B = Len(message.body)
      <4>1. missed \/ C = 0
        BY <2>1, <2>4
      <4>. QED  BY <1>3, <1>6, <4>1
    <3>3. missed = TRUE \/ B = Len(message.body)
      BY <3>2, <3>1
    <3>4. Over'
      BY <1>1, <1>5, <3>1, <3>3, GivesUp
    <3>. QED  BY <3>4 DEF Located
  <2>. QED  BY <2>3, <2>4
<1>. QED  BY <1>7, <1>8

\* A byte of a chunk.
LEMMA DataStep ==
  ASSUME NEW m \in Messages, Sent(m), NEW k \in 1..Len(m.chunks), InFrame(m, k),
         taken \in 0..arrived, arrived \in Nat, ReadData
  PROVE  Located(m)'
<1>. DEFINE W == FrameStart(m, k)
            L == Len(SizeLine(m, k))
            C == Len(m.chunks[k])
            B == ChunkStart(m, k)
<1>1. m.chunked /\ ~done /\ pc = "Data" /\ UNCHANGED <<message, hex>>
  BY DEF InFrame, ReadData, wireVars
<1>2. AtData(m, k)
  BY <1>1 DEF InFrame, AtSize, AtSizeLf, AtSkip
<1>3. message.bytes = Wire(m) /\ message.body = Body(m) /\ message.body \in Seq(Bytes)
  BY SentFacts
<1>4. /\ W \in Nat /\ L \in Nat /\ C \in Nat
      /\ \A j \in 1..C : Wire(m)[W + L + 2 + j] = m.chunks[k][j]
      /\ k < Len(m.chunks) => FrameStart(m, k + 1) = W + L + C + 4
  BY <1>1, FrameBytes
<1>5. /\ B \in Nat /\ Len(Body(m)) \in Nat /\ B + C <= Len(Body(m))
      /\ \A j \in 1..C : Body(m)[B + j] = m.chunks[k][j]
      /\ C > 0 => k < Len(m.chunks) /\ ChunkStart(m, k + 1) = B + C
  BY InTheBody
<1>6. /\ remaining \in 1..C /\ hex = <<>> /\ taken = W + L + 2 + C - remaining
      /\ HandedOver(B + C - remaining)
  BY <1>2 DEF AtData
<1>. HIDE DEF W, L, C, B
<1>0. PICK i : i = C - remaining
  OBVIOUS
<1>7. /\ i \in 0..(C - 1) /\ i + 1 \in 1..C /\ C > 0 /\ B + C - remaining = B + i
      /\ taken = W + L + 2 + i /\ C - (remaining - 1) = i + 1
  BY <1>0, <1>4, <1>5, <1>6
<1>10. W \in Nat /\ L \in Nat /\ C \in Nat /\ B \in Nat /\ i \in Nat /\ i + 1 <= C
  BY <1>4, <1>5, <1>7
<1>11. HandedOver(B + i)
  BY <1>6, <1>7
<1>8. CASE Nothing /\ Finish /\ missed' = TRUE /\ UNCHANGED <<body, remaining>>
  <2>1. Over'
    BY <1>1, <1>8, <1>11, GivesUp DEF Finish
  <2>. QED  BY <2>1 DEF Located
<1>9. ASSUME NEW b \in Bytes, Got(b), body' = Append(body, b), remaining' = remaining - 1,
             pc' = AfterData, UNCHANGED <<done, missed>>
      PROVE  Located(m)'
  <2>1. taken' = W + L + 2 + (i + 1)
    <3>1. taken' = taken + 1
      BY <1>9 DEF Got
    <3>. QED  BY <1>7, <1>10, <3>1
  <2>2. b = Body(m)[B + i + 1]
    <3>1. b = Wire(m)[taken + 1] /\ taken + 1 = W + L + 2 + (i + 1) /\ B + i + 1 = B + (i + 1)
      <4>1. b = Wire(m)[taken + 1]
        BY <1>3, <1>9 DEF Got
      <4>2. taken + 1 = W + L + 2 + (i + 1) /\ B + i + 1 = B + (i + 1)
        BY <1>7, <1>10
      <4>. QED  BY <4>1, <4>2
    <3>2. Wire(m)[W + L + 2 + (i + 1)] = m.chunks[k][i + 1] /\ Body(m)[B + (i + 1)] = m.chunks[k][i + 1]
      BY <1>4, <1>5, <1>7
    <3>. QED  BY <3>1, <3>2
  <2>3. HandedOver(B + i + 1)'
    <3>. DEFINE s == message.body
                n == B + i
    <3>1. s \in Seq(Bytes) /\ n \in 0..Len(s) /\ n < Len(s) /\ body = SubSeq(s, 1, n) /\ n + 1 \in 0..Len(s)
      <4>1. n \in 0..Len(s) /\ body = SubSeq(s, 1, n)
        BY <1>11 DEF HandedOver
      <4>. HIDE DEF s
      <4>2. Len(s) = Len(Body(m)) /\ s \in Seq(Bytes)
        BY <1>3 DEF s
      <4>3. B + i < Len(Body(m))
        BY <1>5, <1>10
      <4>4. B + i + 1 \in 0..Len(Body(m))
        BY <1>5, <1>10
      <4>. QED  BY <4>1, <4>2, <4>3, <4>4
    <3>2. b = s[n + 1]
      BY <1>3, <2>2
    <3>. HIDE DEF s, n
    <3>3. body' = SubSeq(s, 1, n + 1)
      BY <1>9, <3>1, <3>2, HandMore
    <3>4. message'.body = s
      BY <1>1 DEF s
    <3>. QED  BY <3>1, <3>3, <3>4 DEF HandedOver, n
  <2>4. CASE remaining = 1
    <3>1. i + 1 = C /\ k + 1 \in 1..Len(m.chunks) /\ k + 1 > 1
      <4>1. k < Len(m.chunks) /\ Len(m.chunks) \in Nat
        BY <1>5, <1>7, Starts
      <4>2. i + 1 = C
        BY <1>0, <1>10, <2>4
      <4>. QED  BY <4>1, <4>2
    <3>2. /\ pc' = "Skip" /\ ~done' /\ hex' = <<>> /\ FrameStart(m, k + 1) = W + L + C + 4
          /\ ChunkStart(m, k + 1) = B + C
      <4>1. k < Len(m.chunks)
        BY <1>5, <1>7
      <4>. QED  BY <1>1, <1>4, <1>5, <1>6, <1>7, <1>9, <2>4, <4>1 DEF AfterData
    <3>3. taken' = FrameStart(m, k + 1) - 2 /\ HandedOver(ChunkStart(m, k + 1))'
      <4>1. B + i + 1 = B + C /\ W + L + 2 + (i + 1) = (W + L + C + 4) - 2
        BY <1>10, <3>1
      <4>. QED  BY <2>1, <2>3, <3>2, <4>1
    <3>4. AtSkip(m, k + 1)'
      BY <3>1, <3>2, <3>3 DEF AtSkip
    <3>. QED  BY <1>1, <3>1, <3>2, <3>4 DEF InFrame, Located
  <2>5. CASE remaining # 1
    <3>1. pc' = "Data" /\ ~done' /\ hex' = <<>>
      BY <1>1, <1>6, <1>9, <2>5 DEF AfterData
    <3>2. remaining' \in 1..C
      BY <1>4, <1>6, <1>9, <2>5
    <3>3. /\ taken' = W + L + 2 + C - remaining'
          /\ B + i + 1 = B + C - remaining'
      BY <1>0, <1>6, <1>9, <1>10, <2>1, <3>2
    <3>4. AtData(m, k)'
      BY <2>3, <3>1, <3>2, <3>3 DEF AtData, W, L, C, B
    <3>. QED  BY <1>1, <3>1, <3>4 DEF InFrame, Located
  <2>. QED  BY <2>4, <2>5
<1>. QED  BY <1>8, <1>9 DEF ReadData

\* A wait for a line end whose outcome nobody looks at.
LEMMA SkipStep ==
  ASSUME NEW m \in Messages, Sent(m), NEW k \in 1..Len(m.chunks), InFrame(m, k),
         taken \in 0..arrived, arrived \in Nat, Skip
  PROVE  Located(m)'
<1>. DEFINE W == FrameStart(m, k)
            B == ChunkStart(m, k)
<1>1. m.chunked /\ ~done /\ UNCHANGED <<message, body, hex, done>> /\ pc \in {"Skip", "Skip2"}
  BY DEF InFrame, AtSize, AtSizeLf, AtData, AtSkip, Skip, wireVars
<1>2. AtSkip(m, k)
  BY <1>1 DEF InFrame, AtSize, AtSizeLf, AtData
<1>3. W \in Nat
  BY <1>1, FrameBytes
<1>4. k > 1 /\ hex = <<>> /\ HandedOver(B)
  BY <1>2 DEF AtSkip
<1>5. hex' = <<>> /\ HandedOver(B)' /\ ~done'
  BY <1>1, <1>4 DEF HandedOver
<1>6. \/ taken' = taken + 1 /\ missed' = missed
      \/ taken' = taken /\ missed'
  BY <1>1 DEF Skip, SkipByte, Nothing
<1>7. CASE pc = "Skip"
  <2>1. pc' = "Skip2" /\ taken = W - 2
    BY <1>2, <1>7 DEF Skip, AtSkip
  <2>2. taken' = W - 1 \/ (taken' = W - 2 /\ missed')
    BY <1>3, <1>6, <2>1
  <2>3. AtSkip(m, k)'
    BY <1>4, <1>5, <2>1, <2>2 DEF AtSkip
  <2>. QED  BY <1>1, <1>5, <2>3 DEF InFrame, Located
<1>8. CASE pc = "Skip2"
  <2>1. pc' = "Size" /\ (taken = W - 1 \/ (taken = W - 2 /\ missed))
    BY <1>2, <1>8 DEF Skip, AtSkip
  <2>2. \/ taken' = W
        \/ taken' = W - 1 /\ missed'
        \/ taken' = W - 2 /\ missed'
    BY <1>3, <1>6, <2>1
  <2>3. ASSUME NEW lead \in {<<>>, <<"LF">>}
        PROVE  /\ Len(lead) \in Nat /\ 0 \in 0..(Len(lead) + Len(SizeLine(m, k)))
               /\ Collected(lead \o SizeLine(m, k), 0) = <<>>
    <3>1. Len(lead) \in 0..1 /\ SizeLine(m, k) \in Seq(Bytes) /\ lead \o SizeLine(m, k) \in Seq(Bytes)
      BY <1>1, LeadAndLine
    <3>. DEFINE L == Len(SizeLine(m, k))
    <3>2. L \in Nat
      BY <3>1
    <3>3. Collected(lead \o SizeLine(m, k), 0) = <<>>
      BY <3>1, CollectNone, Zenon
    <3>. HIDE DEF L
    <3>4. 0 \in 0..(Len(lead) + L) /\ Len(lead) \in Nat
      BY <3>1, <3>2
    <3>. QED  BY <3>3, <3>4 DEF L
  <2>4. Len(<<>>) = 0 /\ Len(<<"LF">>) = 1 /\ W - 0 + 0 = W /\ W - 1 + 0 = W - 1
    BY <1>3
  <2>5. ASSUME NEW lead \in Leads(k)', taken' = W - Len(lead) + 0 PROVE InFrame(m, k)'
    <3>1. lead \in {<<>>, <<"LF">>}
      BY DEF Leads
    <3>2. 0 \in 0..(Len(lead) + Len(SizeLine(m, k))) /\ hex' = Collected(lead \o SizeLine(m, k), 0)
      BY <1>5, <2>3, <3>1
    <3>3. AtSize(m, k)'
      BY <1>5, <2>1, <2>5, <3>2 DEF AtSize
    <3>. QED  BY <1>1, <1>5, <3>3 DEF InFrame
  <2>6. CASE taken' = W
    <3>1. <<>> \in Leads(k)'
      BY DEF Leads
    <3>2. taken' = W - Len(<<>>) + 0
      BY <2>4, <2>6
    <3>. QED  BY <2>5, <3>1, <3>2 DEF Located
  <2>7. CASE taken' = W - 1 /\ missed'
    <3>1. <<"LF">> \in Leads(k)'
      BY <1>4, <2>7 DEF Leads
    <3>2. taken' = W - Len(<<"LF">>) + 0
      BY <2>4, <2>7
    <3>. QED  BY <2>5, <3>1, <3>2 DEF Located
  <2>8. CASE taken' = W - 2 /\ missed'
    <3>1. AtSize(m, k)'
      BY <1>4, <1>5, <2>1, <2>8 DEF AtSize
    <3>. QED  BY <1>1, <1>5, <3>1 DEF InFrame, Located
  <2>. QED  BY <2>2, <2>6, <2>7, <2>8
<1>. QED  BY <1>1, <1>7, <1>8

\* A byte of a body that is not chunked.
LEMMA PlainStep ==
  ASSUME NEW m \in Messages, Sent(m), InPlain(m),
         taken \in 0..arrived, arrived \in 0..Len(message.bytes), ReadPlain
  PROVE  Located(m)'
<1>1. ~m.chunked /\ ~done /\ HandedOver(taken) /\ message' = message
  BY DEF InPlain, ReadPlain, wireVars
<1>2. message.bytes = message.body /\ message.body \in Seq(Bytes)
  BY <1>1, SentFacts DEF Wire
<1>0. PICK n : n = taken
  OBVIOUS
<1>3. n \in 0..Len(message.body) /\ body = SubSeq(message.body, 1, n) /\ HandedOver(n)
  BY <1>0, <1>1 DEF HandedOver
<1>4. ASSUME NEW b \in Bytes, Got(b), body' = Append(body, b), UNCHANGED <<pc, done>>
      PROVE  Located(m)'
  <2>1. n < Len(message.body) /\ taken' = n + 1 /\ b = message.body[n + 1]
        /\ n + 1 \in 0..Len(message.body)
    <3>1. taken < arrived /\ b = message.bytes[taken + 1] /\ taken' = taken + 1
      BY <1>4 DEF Got
    <3>2. Len(message.body) \in Nat
      BY <1>2
    <3>. QED  BY <1>0, <1>2, <1>3, <3>1, <3>2
  <2>2. body' = SubSeq(message.body, 1, n + 1)
    BY <1>2, <1>3, <1>4, <2>1, HandMore
  <2>3. HandedOver(taken)'
    BY <1>1, <2>1, <2>2 DEF HandedOver
  <2>4. InPlain(m)'
    BY <1>1, <1>4, <2>3 DEF InPlain
  <2>. QED  BY <2>4 DEF Located
<1>5. ASSUME pc' = "Eof", done' = TRUE, missed' = (body # message.body), UNCHANGED body
      PROVE  Located(m)'
  <2>1. missed' = TRUE \/ n = Len(message.body)
    <3>1. CASE body # message.body
      BY <1>5, <3>1
    <3>2. CASE body = message.body
      <4>1. Len(body) = n
        BY <1>2, <1>3, HandedLen
      <4>. QED  BY <3>2, <4>1
    <3>. QED  BY <3>1, <3>2
  <2>2. Over'
    BY <1>1, <1>3, <1>5, <2>1, GivesUp
  <2>. QED  BY <2>2 DEF Located
<1>. QED  BY <1>4, <1>5 DEF ReadPlain

\* After the end only the rest of the last line is read.
LEMMA OverStep ==
  ASSUME Over, Next PROVE Over'
<1>1. CASE UNCHANGED <<message, body, done, pc, missed>>
  BY <1>1 DEF Over, HandedOver
<1>2. CASE Skip
  <2>1. UNCHANGED <<message, body, done>> /\ pc' \in {"Trailer2", "Eof"}
    BY <1>2 DEF Over, Skip, wireVars
  <2>2. missed' = missed \/ missed' = (missed \/ ~done)
    BY <1>2 DEF Skip, SkipByte
  <2>3. missed => missed'
    BY <2>2, Zenon
  <2>. QED  BY <2>1, <2>3 DEF Over, HandedOver
<1>. QED  BY <1>1, <1>2 DEF Next, Reader, Arrive, Close, ReadSize, ReadSizeLf, ReadData, ReadPlain, Over

\* What moves on the wire.
LEMMA WireStep ==
  ASSUME arrived \in 0..Len(message.bytes), taken \in 0..arrived, Len(message.bytes) \in Nat, Next
  PROVE  /\ message' = message /\ arrived' \in 0..Len(message.bytes) /\ taken' \in 0..arrived'
<1>1. CASE Arrive
  BY <1>1 DEF Arrive
<1>2. CASE Close
  BY <1>2 DEF Close
<1>3. CASE Reader
  <2>1. message' = message /\ arrived' = arrived
    BY <1>3 DEF Reader, ReadSize, ReadSizeLf, ReadData, Skip, ReadPlain, wireVars
  <2>2. taken' = taken \/ (taken < arrived /\ taken' = taken + 1)
    BY <1>3 DEF Reader, ReadSize, ReadSizeLf, ReadData, Skip, SkipByte, ReadPlain, Got, Nothing
  <2>. QED  BY <2>1, <2>2
<1>. QED  BY <1>1, <1>2, <1>3 DEF Next

(***************************************************************************)
(* The theorems.                                                           *)
(***************************************************************************)
\* At first the reader stands before the first frame.
LEMMA InitStream == Init => StreamInv
<1>. SUFFICES ASSUME Init PROVE StreamInv
  OBVIOUS
<1>1. PICK m \in Messages : message = [chunked |-> m.chunked, bytes |-> Wire(m), body |-> Body(m)]
  BY DEF Init
<1>2. Sent(m)
  BY <1>1 DEF Sent
<1>3. message.chunked = m.chunked /\ message.bytes = Wire(m) /\ message.body = Body(m)
      /\ message.body \in Seq(Bytes)
  BY <1>2, SentFacts
<1>4. /\ Len(m.chunks) \in Nat /\ Len(m.chunks) > 0
      /\ m.chunked => Wire(m) \in Seq(Bytes)
      /\ m.chunked \in BOOLEAN
  BY Starts, MessagesAssumption
<1>5. arrived = 0 /\ taken = 0 /\ Len(message.bytes) \in Nat
  BY <1>3, <1>4 DEF Init, Wire
<1>6. HandedOver(0)
  <2>1. SubSeq(message.body, 1, 0) = <<>> /\ 0 \in 0..Len(message.body)
    BY <1>3
  <2>. QED  BY <2>1 DEF HandedOver, Init
<1>7. CASE m.chunked
  <2>1. 1 \in 1..Len(m.chunks)
    BY <1>4
  <2>2. FrameStart(m, 1) = 0 /\ ChunkStart(m, 1) = 0
    <3>1. Layout(m.chunks)[0] = 0 /\ Layout(Frames(m))[0] = 0
      BY <1>7, Starts DEF IsLayout
    <3>2. 1 - 1 = 0
      OBVIOUS
    <3>. QED  BY <3>1, <3>2 DEF FrameStart, ChunkStart
  <2>. DEFINE lead == <<>>
              p == Len(lead)
              L == Len(SizeLine(m, 1))
  <2>3. lead \in {<<>>, <<"LF">>} /\ lead \in Leads(1) /\ p = 0
    BY DEF Leads
  <2>4. lead \o SizeLine(m, 1) \in Seq(Bytes) /\ L \in Nat
    <3>. HIDE DEF lead
    <3>1. SizeLine(m, 1) \in Seq(Bytes) /\ lead \o SizeLine(m, 1) \in Seq(Bytes)
      BY <1>7, <2>1, <2>3, LeadAndLine
    <3>. QED  BY <3>1
  <2>. HIDE DEF lead, L, p
  <2>5. Collected(lead \o SizeLine(m, 1), 0) = <<>>
    BY <2>4, CollectNone, Zenon
  <2>6. 0 \in 0..(p + L) /\ taken = 0 - p + 0
    BY <1>5, <2>3, <2>4
  <2>0. pc = "Size" /\ hex = <<>> /\ ~done
    BY <1>3, <1>7 DEF Init
  <2>7. AtSize(m, 1)
    <3>1. HandedOver(ChunkStart(m, 1))
      BY <1>6, <2>2
    <3>2. taken = FrameStart(m, 1) - Len(lead) + 0 /\ 0 \in 0..(Len(lead) + Len(SizeLine(m, 1)))
      BY <2>2, <2>6 DEF p, L
    <3>3. hex = Collected(lead \o SizeLine(m, 1), 0)
      BY <2>0, <2>5
    <3>. QED  BY <2>0, <2>3, <3>1, <3>2, <3>3 DEF AtSize
  <2>8. InFrame(m, 1)
    BY <1>7, <2>0, <2>7 DEF InFrame
  <2>. QED  BY <1>2, <1>5, <2>1, <2>8 DEF StreamInv, Located
<1>8. CASE ~m.chunked
  <2>1. InPlain(m)
    BY <1>3, <1>5, <1>6, <1>8 DEF InPlain, Init
  <2>. QED  BY <1>2, <1>5, <2>1 DEF StreamInv, Located
<1>. QED  BY <1>4, <1>7, <1>8

\* A reader that does nothing stays where it is.
LEMMA StandsStill ==
  ASSUME NEW m \in Messages, Located(m),
         UNCHANGED <<message, body, done, pc, taken, hex, remaining, missed>>
  PROVE  Located(m)'
<1>1. CASE Over
  <2>1. Over'
    BY <1>1 DEF Over, HandedOver
  <2>. QED  BY <2>1 DEF Located
<1>2. CASE InPlain(m)
  <2>1. InPlain(m)'
    BY <1>2 DEF InPlain, HandedOver
  <2>. QED  BY <2>1 DEF Located
<1>3. ASSUME NEW k \in 1..Len(m.chunks), InFrame(m, k) PROVE Located(m)'
  <2>1. InFrame(m, k)'
    BY <1>3 DEF InFrame, AtSize, AtSizeLf, AtData, AtSkip, HandedOver, Leads
  <2>. QED  BY <2>1 DEF Located
<1>. QED  BY <1>1, <1>2, <1>3 DEF Located

\* Every step keeps it.
LEMMA StepStream == StreamInv /\ [Next]_vars => StreamInv'
<1>. SUFFICES ASSUME StreamInv, [Next]_vars PROVE StreamInv'
  OBVIOUS
<1>1. CASE UNCHANGED vars
  <2>1. /\ UNCHANGED <<message, body, done, pc, taken, hex, remaining, missed>>
        /\ arrived' = arrived
    BY <1>1 DEF vars, wireVars
  <2>2. PICK m \in Messages : Sent(m) /\ Located(m)
    BY DEF StreamInv
  <2>3. Located(m)' /\ Sent(m)'
    BY <2>1, <2>2, StandsStill DEF Sent
  <2>. QED  BY <2>1, <2>3 DEF StreamInv
<1>2. CASE Next
  <2>1. PICK m \in Messages : Sent(m) /\ Located(m)
    BY DEF StreamInv
  <2>2. arrived \in 0..Len(message.bytes) /\ taken \in 0..arrived
    BY DEF StreamInv
  <2>3. Len(message.bytes) \in Nat
    <3>1. message.bytes = Wire(m)
      BY <2>1, SentFacts
    <3>2. Wire(m) \in Seq(Bytes)
      BY Starts, MessagesAssumption DEF Wire
    <3>. QED  BY <3>1, <3>2
  <2>4. message' = message /\ arrived' \in 0..Len(message.bytes) /\ taken' \in 0..arrived'
    BY <1>2, <2>2, <2>3, WireStep
  <2>5. Sent(m)'
    BY <2>1, <2>4 DEF Sent
  <2>6. arrived \in Nat
    BY <2>2, <2>3
  <2>7. ASSUME Arrive \/ Close PROVE Located(m)'
    <3>1. UNCHANGED <<message, body, done, pc, taken, hex, remaining, missed>>
      BY <2>7 DEF Arrive, Close
    <3>. QED  BY <2>1, <3>1, StandsStill
  <2>8. ASSUME Reader PROVE Located(m)'
    <3>1. CASE Over
      <4>1. Over'
        BY <1>2, <3>1, OverStep
      <4>. QED  BY <4>1 DEF Located
    <3>2. CASE InPlain(m)
      <4>1. ReadPlain
        BY <2>8, <3>2 DEF Reader, InPlain, ReadSize, ReadSizeLf, ReadData, Skip
      <4>. QED  BY <2>1, <2>2, <3>2, <4>1, PlainStep
    <3>3. ASSUME NEW k \in 1..Len(m.chunks), InFrame(m, k) PROVE Located(m)'
      <4>1. ~ReadPlain
        BY <3>3 DEF InFrame, AtSize, AtSizeLf, AtData, AtSkip, ReadPlain
      <4>2. CASE ReadSize
        BY <2>1, <2>2, <2>6, <3>3, <4>2, SizeStep
      <4>3. CASE ReadSizeLf
        BY <2>1, <2>2, <2>6, <3>3, <4>3, SizeLfStep
      <4>4. CASE ReadData
        BY <2>1, <2>2, <2>6, <3>3, <4>4, DataStep
      <4>5. CASE Skip
        BY <2>1, <2>2, <2>6, <3>3, <4>5, SkipStep
      <4>. QED  BY <2>8, <4>1, <4>2, <4>3, <4>4, <4>5 DEF Reader
    <3>. QED  BY <2>1, <3>1, <3>2, <3>3 DEF Located
  <2>9. Located(m)'
    BY <1>2, <2>7, <2>8 DEF Next
  <2>. QED  BY <2>4, <2>5, <2>9 DEF StreamInv
<1>. QED  BY <1>1, <1>2

\* What has been handed over is the beginning of the body, and all of it if
\* the reader ended without a wait in vain.
LEMMA StreamIsBody == StreamInv => OnlyTheBody
<1>. SUFFICES ASSUME StreamInv PROVE OnlyTheBody
  OBVIOUS
<1>1. PICK m \in Messages : Sent(m) /\ Located(m)
  BY DEF StreamInv
<1>2. message.body \in Seq(Bytes)
  BY <1>1, SentFacts
<1>3. PICK n : HandedOver(n)
  BY <1>1 DEF Located, Over, InPlain, InFrame, AtSize, AtSizeLf, AtData, AtSkip
<1>. DEFINE s == message.body
<1>4. s \in Seq(Bytes) /\ n \in 0..Len(s) /\ body = SubSeq(s, 1, n)
  BY <1>2, <1>3 DEF HandedOver
<1>. HIDE DEF s
<1>5. body \in Seq(Bytes) /\ Len(body) = n /\ Len(s) \in Nat
  BY <1>4, HandedLen
<1>6. IsPrefix(body, s)
  <2>1. SubSeq(body, 1, Len(body)) = body
    BY <1>5
  <2>. QED  BY <1>4, <1>5, <2>1 DEF IsPrefix
<1>7. ASSUME done, ~missed PROVE body = s
  <2>1. Over
    BY <1>1, <1>7 DEF Located, InPlain, InFrame
  <2>2. n = Len(s)
    BY <1>5, <1>7, <2>1 DEF Over, s
  <2>3. SubSeq(s, 1, Len(s)) = s
    BY <1>4
  <2>. QED  BY <1>4, <2>2, <2>3
<1>. QED  BY <1>6, <1>7 DEF OnlyTheBody, s

\* Where the reader stands, in every state.
THEOREM StreamInvariant == Spec => []StreamInv
<1>. QED  BY InitStream, StepStream, PTL DEF Spec

\* However the bytes trickle in and wherever the reader gives up, the parser
\* sees the beginning of the body and no byte of the framing, whatever the
\* body contains; a reader that never had to give up hands over all of it.
THEOREM StreamIsClean == Spec => []OnlyTheBody
<1>. QED  BY StreamInvariant, StreamIsBody, PTL
=============================================================================
