-------------------------- MODULE RtcMemory_proofs --------------------------
(***************************************************************************)
(* The two slots of RTC memory, for every capacity, frame size and input.  *)
(*                                                                         *)
(* The framebuffer slot: the decoder's two loops undo the encoder's two,   *)
(* for every bitmap (PairsOfBitmap), and the invariant SlotInv says, pair  *)
(* by pair and through every partial write, which bytes of the slot are    *)
(* those of the bitmap stored last, and which may have been overwritten.   *)
(* The recursions of encoder and decoder are functions on numbers; that    *)
(* they are well defined and what they compute is shown by SetInduction.   *)
(*                                                                         *)
(* The trace slot: the two rings implement the bounded log of TraceLog.    *)
(* The invariant is the type of the slot and of the working copy, and that *)
(* a working copy waiting to be saved is the slot with one cycle and at    *)
(* most one anomaly pushed.                                                *)
(***************************************************************************)
EXTENDS RtcMemory, FiniteSetTheorems, SequenceTheorems, WellFoundedInduction, NaturalsInduction, TLAPS

(***************************************************************************)
(* Induction over numbers, stated of sets: a set of numbers that holds 0   *)
(* and the successor of each of its members holds them all.                *)
(***************************************************************************)
\* A set of numbers has a least member.
LEMMA LeastNatural ==
  ASSUME NEW S \in SUBSET Nat, S # {}
  PROVE  \E m \in S : \A n \in S : m <= n
<1>. DEFINE R == {ss \in Nat \X Nat : ss[1] < ss[2]}
<1>1. IsWellFoundedOn(R, Nat)
  BY NatLessThanWellFounded DEF OpToRel
<1>2. \A n, m \in Nat : n < m => <<n, m>> \in R
  OBVIOUS
<1>. HIDE DEF R
<1>3. PICK m \in S : \A n \in S : ~(<<n, m>> \in R)
  BY <1>1, WFMin
<1>4. ASSUME NEW n \in S PROVE m <= n
  <2>1. ~(n < m)
    BY <1>2, <1>3
  <2>. QED  BY <2>1
<1>. QED  BY <1>4

\* Induction.
LEMMA SetInduction ==
  ASSUME NEW S, 0 \in S, \A n \in Nat : n \in S => n + 1 \in S
  PROVE  Nat \subseteq S
<1>1. SUFFICES ASSUME Nat \ S # {} PROVE FALSE
  OBVIOUS
<1>2. PICK m \in Nat \ S : \A n \in Nat \ S : m <= n
  BY <1>1, LeastNatural
<1>3. m # 0 /\ m - 1 \in Nat
  BY <1>2
<1>4. m - 1 \in S
  BY <1>2, <1>3
<1>. QED  BY <1>2, <1>3, <1>4

(***************************************************************************)
(* The codec: runs, pairs, and the bitmap they spell.                      *)
(***************************************************************************)
\* A count byte and a value byte
Pair == [run : 1..MaxRun, v : Byte]

\* A function on an initial segment is a sequence.
LEMMA SegmentIsSeq ==
  ASSUME NEW S, NEW n \in Nat, NEW f \in [1..n -> S]
  PROVE  f \in Seq(S) /\ Len(f) = n
OBVIOUS

\* A bitmap is a sequence of bytes, of one byte at least.
LEMMA BitmapFacts ==
  /\ FrameLen \in Nat /\ FrameLen > 0
  /\ \A fb \in Bitmaps : fb \in Seq(Byte) /\ Len(fb) = FrameLen
<1>1. FrameLen \in Nat /\ FrameLen > 0
  <2>1. ASSUME NEW a \in Nat \ {0}, NEW b \in Nat \ {0} PROVE a * b \in Nat /\ a * b > 0
    BY <2>1, SMT
  <2>. QED  BY <2>1, RleAssumption DEF FrameLen
<1>. QED  BY <1>1, SegmentIsSeq DEF Bitmaps

\* What a pair holds.
LEMMA PairFacts ==
  ASSUME NEW ps \in Seq(Pair), NEW n \in 1..Len(ps)
  PROVE  ps[n].run \in Nat /\ ps[n].run > 0 /\ ps[n].v \in Byte
<1>1. ps[n] \in Pair
  OBVIOUS
<1>. QED  BY <1>1, RleAssumption DEF Pair

\* The decoder's exclusive-or undoes the encoder's.
LEMMA XorTwice == \A a, b : Xor(Xor(a, b), b) = a
BY DEF Xor

\* A delta of two bytes is a byte.
LEMMA XorType == \A a, b \in Byte : Xor(a, b) \in Byte
BY DEF Xor, Byte

\* A set of numbers from 1 to a bound has a largest one.
LEMMA MaxIsLargest ==
  ASSUME NEW n \in Nat, NEW S \in SUBSET (1..n), S # {}
  PROVE  Max(S) \in S /\ \A y \in S : Max(S) >= y
<1>. DEFINE D == {n - x : x \in S}
<1>1. D \in SUBSET Nat /\ D # {}
  <2>1. \A x \in S : x \in Int /\ x >= 1 /\ x <= n
    OBVIOUS
  <2>2. \A x \in S : n - x \in Nat
    BY <2>1
  <2>. QED  BY <2>2
<1>2. PICK d \in D : \A e \in D : d <= e
  BY <1>1, LeastNatural
<1>3. PICK x \in S : d = n - x
  BY <1>2
<1>4. \A y \in S : x >= y
  <2>. SUFFICES ASSUME NEW y \in S PROVE x >= y
    OBVIOUS
  <2>1. n - y \in D
    OBVIOUS
  <2>. QED  BY <1>2, <1>3, <2>1
<1>. QED  BY <1>3, <1>4 DEF Max

\* A run begins where it is asked for, is not empty and fits a count byte.
LEMMA RunFacts ==
  ASSUME NEW in \in Seq(Byte), NEW ip \in 1..Len(in)
  PROVE  /\ RunAt(in, ip) \in 1..MaxRun /\ ip + RunAt(in, ip) - 1 <= Len(in)
         /\ \A k \in 0..(RunAt(in, ip) - 1) : in[ip + k] = in[ip]
<1>. DEFINE R == {n \in 1..MaxRun : ip + n - 1 <= Len(in) /\ \A k \in 0..(n - 1) : in[ip + k] = in[ip]}
<1>1. MaxRun \in Nat /\ MaxRun > 0
  BY RleAssumption
<1>2. R \in SUBSET (1..MaxRun)
  OBVIOUS
<1>3. 1 \in R
  BY <1>1
<1>4. RunAt(in, ip) \in R
  BY <1>1, <1>2, <1>3, MaxIsLargest DEF RunAt
<1>. QED  BY <1>4

(***************************************************************************)
(* Pairs that spell a bitmap from a position on: there are bounds at which *)
(* each pair begins and ends.                                              *)
(***************************************************************************)
Bounds(ps, in, ip, at) ==
  /\ at \in [0..Len(ps) -> Nat] /\ at[0] = ip - 1 /\ at[Len(ps)] = Len(in)
  /\ \A n \in 1..Len(ps) : /\ at[n] = at[n - 1] + ps[n].run
                           /\ \A i \in (at[n - 1] + 1)..at[n] : in[i] = ps[n].v
Spells(ps, in, ip) == ps \in Seq(Pair) /\ \E at : Bounds(ps, in, ip, at)

\* A run and pairs that spell the rest spell it all.
LEMMA SpellsMore ==
  ASSUME NEW in \in Seq(Byte), NEW ip \in 1..Len(in), NEW run \in 1..MaxRun,
         \A k \in 0..(run - 1) : in[ip + k] = in[ip], NEW ps, Spells(ps, in, ip + run)
  PROVE  Spells(<<[run |-> run, v |-> in[ip]]>> \o ps, in, ip)
<1>. DEFINE p == [run |-> run, v |-> in[ip]]
            qs == <<p>> \o ps
<1>1. p \in Pair /\ p.run = run /\ p.v = in[ip]
  BY DEF Pair
<1>. HIDE DEF p
<1>2. ps \in Seq(Pair)
  BY DEF Spells
<1>3. /\ qs \in Seq(Pair) /\ Len(qs) = Len(ps) + 1 /\ Len(ps) \in Nat /\ qs[1] = p
      /\ \A n \in 2..Len(qs) : qs[n] = ps[n - 1]
  BY <1>1, <1>2
<1>. HIDE DEF qs
<1>4. PICK at : Bounds(ps, in, ip + run, at)
  BY DEF Spells
<1>. DEFINE bt == [n \in 0..Len(qs) |-> IF n = 0 THEN ip - 1 ELSE at[n - 1]]
<1>5. at \in [0..Len(ps) -> Nat] /\ at[0] = ip + run - 1 /\ at[Len(ps)] = Len(in)
  BY <1>4, RleAssumption DEF Bounds
<1>6. /\ bt \in [0..Len(qs) -> Nat] /\ bt[0] = ip - 1 /\ bt[Len(qs)] = Len(in)
      /\ \A n \in 1..Len(qs) : bt[n] = at[n - 1]
  BY <1>3, <1>5
<1>7. ASSUME NEW n \in 1..Len(qs)
      PROVE  bt[n] = bt[n - 1] + qs[n].run /\ \A i \in (bt[n - 1] + 1)..bt[n] : in[i] = qs[n].v
  <2>1. CASE n = 1
    <3>1. bt[1] = ip + run - 1 /\ bt[0] = ip - 1 /\ qs[1].run = run /\ qs[1].v = in[ip]
      BY <1>1, <1>3, <1>5, <1>6
    <3>2. \A i \in ip..(ip + run - 1) : in[i] = in[ip]
      <4>. SUFFICES ASSUME NEW i \in ip..(ip + run - 1) PROVE in[i] = in[ip]
        OBVIOUS
      <4>1. PICK k \in 0..(run - 1) : i = ip + k
        <5>1. i - ip \in 0..(run - 1) /\ i = ip + (i - ip)
          BY RleAssumption
        <5>. QED  BY <5>1
      <4>. QED  BY <4>1
    <3>. HIDE DEF bt
    <3>. QED  BY <2>1, <3>1, <3>2
  <2>2. CASE n # 1
    <3>1. n - 1 \in 1..Len(ps) /\ qs[n] = ps[n - 1] /\ bt[n] = at[n - 1] /\ bt[n - 1] = at[n - 2]
      BY <1>3, <1>6, <2>2
    <3>2. /\ at[n - 1] = at[(n - 1) - 1] + ps[n - 1].run
          /\ \A i \in (at[(n - 1) - 1] + 1)..at[n - 1] : in[i] = ps[n - 1].v
      BY <1>4, <3>1 DEF Bounds
    <3>3. (n - 1) - 1 = n - 2
      BY <1>3
    <3>. HIDE DEF bt
    <3>. QED  BY <3>1, <3>2, <3>3
  <2>. QED  BY <2>1, <2>2
<1>8. Bounds(qs, in, ip, bt)
  BY <1>6, <1>7 DEF Bounds
<1>. QED  BY <1>3, <1>8 DEF Spells, qs, p

\* The encoder's recursion is well defined, and what it writes spells the rest
\* of the bitmap from every position.
LEMMA PairsSpell ==
  ASSUME NEW in \in Seq(Byte)
  PROVE  Spells(Pairs(in), in, 1)
<1>. DEFINE N == Len(in)
            Step(ip, rest) == <<[run |-> RunAt(in, ip), v |-> in[ip]]>> \o rest
            Body(f, D) == [ip \in D |->
               IF ip > N THEN <<>> ELSE Step(ip, f[ip + RunAt(in, ip)])]
            from == CHOOSE f : f = Body(f, 1..(N + 1))
            From(k) == ((N + 1) - k)..(N + 1)
            Reached == {k \in Nat : k <= N => \E f : f = Body(f, From(k))}
<1>1. Pairs(in) = from[1]
  BY DEF Pairs
<1>2. N \in Nat
  OBVIOUS
<1>3. \A ip \in 1..N : RunAt(in, ip) \in 1..MaxRun /\ ip + RunAt(in, ip) \in (ip + 1)..(N + 1)
  <2>. SUFFICES ASSUME NEW ip \in 1..N
       PROVE  RunAt(in, ip) \in 1..MaxRun /\ ip + RunAt(in, ip) \in (ip + 1)..(N + 1)
    OBVIOUS
  <2>. QED  BY RunFacts, RleAssumption
<1>4. 0 \in Reached
  <2>. DEFINE f == [ip \in From(0) |-> <<>>]
  <2>1. f = Body(f, From(0))
    <3>1. \A ip \in From(0) : ip > N
      BY <1>2
    <3>. QED  BY <3>1
  <2>. QED  BY <2>1
<1>5. ASSUME NEW k \in Nat, k \in Reached PROVE k + 1 \in Reached
  <2>. SUFFICES ASSUME k + 1 <= N PROVE \E f : f = Body(f, From(k + 1))
    OBVIOUS
  <2>1. PICK f : f = Body(f, From(k))
    BY <1>2, <1>5
  <2>. DEFINE first == N - k
              g == [ip \in From(k + 1) |-> IF ip = first THEN Step(ip, f[ip + RunAt(in, ip)]) ELSE f[ip]]
  <2>2. first \in 1..N /\ From(k + 1) = {first} \cup From(k) /\ first \notin From(k)
    BY <1>2
  <2>3. \A ip \in From(k) : g[ip] = f[ip]
    BY <2>2
  <2>4. ASSUME NEW ip \in From(k + 1), ip <= N
        PROVE  g[ip] = Step(ip, g[ip + RunAt(in, ip)])
    <3>1. ip \in 1..N /\ ip + RunAt(in, ip) \in From(k)
      BY <1>2, <1>3, <2>2, <2>4
    <3>2. g[ip + RunAt(in, ip)] = f[ip + RunAt(in, ip)]
      BY <2>3, <3>1
    <3>3. CASE ip = first
      <4>1. g[ip] = Step(ip, f[ip + RunAt(in, ip)])
        BY <3>3
      <4>. HIDE DEF g, Step
      <4>. QED  BY <3>2, <4>1
    <3>4. CASE ip # first
      <4>1. ip \in From(k) /\ g[ip] = f[ip]
        BY <2>2, <2>3, <2>4, <3>4
      <4>2. f[ip] = Step(ip, f[ip + RunAt(in, ip)])
        <5>. HIDE DEF Step, From
        <5>. QED  BY <1>2, <2>1, <2>4, <4>1
      <4>. HIDE DEF g, Step
      <4>. QED  BY <3>2, <4>1, <4>2
    <3>. QED  BY <3>3, <3>4
  <2>5. ASSUME NEW ip \in From(k + 1), ip > N
        PROVE  g[ip] = <<>>
    <3>1. ip \in From(k) /\ ip # first
      BY <1>2, <2>2, <2>5
    <3>2. f[ip] = <<>>
      <4>. HIDE DEF Step, From
      <4>. QED  BY <2>1, <2>5, <3>1
    <3>. QED  BY <2>3, <3>1, <3>2
  <2>6. \A ip \in From(k + 1) : ip \in Int
    BY <1>2
  <2>7. g = Body(g, From(k + 1))
    <3>. HIDE DEF Step, From
    <3>1. g = [ip \in From(k + 1) |-> g[ip]]
      OBVIOUS
    <3>. HIDE DEF g
    <3>2. \A ip \in From(k + 1) :
            g[ip] = IF ip > N THEN <<>> ELSE Step(ip, g[ip + RunAt(in, ip)])
      BY <1>2, <2>4, <2>5, <2>6
    <3>. QED  BY <3>1, <3>2
  <2>. QED  BY <2>7
<1>6. Nat \subseteq Reached
  <2>. HIDE DEF Reached
  <2>. QED  BY <1>4, <1>5, SetInduction
<1>7. from = Body(from, 1..(N + 1))
  <2>1. From(N) = 1..(N + 1)
    BY <1>2
  <2>3. N \in Reached
    <3>. HIDE DEF Reached, N
    <3>. QED  BY <1>2, <1>6
  <2>2. \E f : f = Body(f, From(N))
    <3>. HIDE DEF Body, From
    <3>. QED  BY <1>2, <2>3
  <2>. HIDE DEF From
  <2>. QED  BY <2>1, <2>2
<1>. HIDE DEF from
<1>8. \A ip \in 1..N : from[ip] = <<[run |-> RunAt(in, ip), v |-> in[ip]]>> \o from[ip + RunAt(in, ip)]
  <2>. SUFFICES ASSUME NEW ip \in 1..N
       PROVE  from[ip] = <<[run |-> RunAt(in, ip), v |-> in[ip]]>> \o from[ip + RunAt(in, ip)]
    OBVIOUS
  <2>1. ip \in 1..(N + 1) /\ ~(ip > N)
    BY <1>2
  <2>2. from[ip] = Step(ip, from[ip + RunAt(in, ip)])
    <3>. HIDE DEF Step
    <3>. QED  BY <1>7, <2>1
  <2>. QED  BY <2>2
<1>9. from[N + 1] = <<>>
  <2>1. N + 1 \in 1..(N + 1) /\ N + 1 > N
    BY <1>2
  <2>. HIDE DEF Step
  <2>. QED  BY <1>7, <2>1
<1>. DEFINE Good == {k \in Nat : \A ip \in 1..(N + 1) : ip >= (N + 1) - k => Spells(from[ip], in, ip)}
<1>10. 0 \in Good
  <2>1. Spells(<<>>, in, N + 1)
    <3>. DEFINE at == [n \in 0..0 |-> N]
    <3>1. Bounds(<<>>, in, N + 1, at)
      BY <1>2 DEF Bounds
    <3>. QED  BY <3>1 DEF Spells
  <2>2. \A ip \in 1..(N + 1) : ip >= (N + 1) - 0 => ip = N + 1
    BY <1>2
  <2>. HIDE DEF N
  <2>. QED  BY <1>9, <2>1, <2>2
<1>11. ASSUME NEW k \in Nat, k \in Good PROVE k + 1 \in Good
  <2>. SUFFICES ASSUME NEW ip \in 1..(N + 1), ip >= (N + 1) - (k + 1) PROVE Spells(from[ip], in, ip)
    OBVIOUS
  <2>1. CASE ip >= (N + 1) - k
    BY <1>11, <2>1
  <2>2. CASE ip < (N + 1) - k
    <3>1. ip \in 1..N /\ ip + RunAt(in, ip) \in 1..(N + 1) /\ ip + RunAt(in, ip) >= (N + 1) - k
      BY <1>2, <1>3, <2>2
    <3>2. Spells(from[ip + RunAt(in, ip)], in, ip + RunAt(in, ip))
      BY <1>11, <3>1
    <3>3. /\ RunAt(in, ip) \in 1..MaxRun
          /\ \A j \in 0..(RunAt(in, ip) - 1) : in[ip + j] = in[ip]
      BY <3>1, RunFacts
    <3>4. Spells(<<[run |-> RunAt(in, ip), v |-> in[ip]]>> \o from[ip + RunAt(in, ip)], in, ip)
      BY <3>1, <3>2, <3>3, SpellsMore
    <3>. QED  BY <1>8, <3>1, <3>4
  <2>. QED  BY <1>2, <2>1, <2>2
<1>12. Nat \subseteq Good
  <2>. HIDE DEF Good
  <2>. QED  BY <1>10, <1>11, SetInduction
<1>. QED
  <2>1. N \in Good
    <3>. HIDE DEF Good
    <3>. QED  BY <1>2, <1>12
  <2>2. 1 \in 1..(N + 1) /\ 1 >= (N + 1) - N
    BY <1>2
  <2>3. Spells(from[1], in, 1)
    <3>. HIDE DEF N
    <3>. QED  BY <2>1, <2>2
  <2>. QED  BY <1>1, <2>3

\* Bounds do not decrease and stay within the bitmap.
LEMMA BoundsWithin ==
  ASSUME NEW in \in Seq(Byte), NEW ps \in Seq(Pair), NEW at, Bounds(ps, in, 1, at)
  PROVE  \A n \in 0..Len(ps) : at[n] \in 0..Len(in)
<1>. DEFINE L == Len(ps)
            Below == {k \in Nat : \A n \in 0..L : n >= L - k => at[n] \in 0..Len(in)}
<1>1. L \in Nat /\ Len(in) \in Nat /\ at \in [0..L -> Nat] /\ at[L] = Len(in)
  BY DEF Bounds
<1>2. \A n \in 1..L : at[n] = at[n - 1] + ps[n].run /\ ps[n].run \in Nat
  BY PairFacts DEF Bounds
<1>3. 0 \in Below
  <2>1. \A n \in 0..L : n >= L - 0 => n = L
    BY <1>1
  <2>. HIDE DEF L
  <2>. QED  BY <1>1, <2>1
<1>4. ASSUME NEW k \in Nat, k \in Below PROVE k + 1 \in Below
  <2>. SUFFICES ASSUME NEW n \in 0..L, n >= L - (k + 1) PROVE at[n] \in 0..Len(in)
    OBVIOUS
  <2>1. CASE n >= L - k
    BY <1>4, <2>1
  <2>2. CASE n < L - k
    <3>1. n + 1 \in 1..L /\ n + 1 \in 0..L /\ n + 1 >= L - k /\ (n + 1) - 1 = n
      BY <1>1, <2>2
    <3>2. at[n + 1] \in 0..Len(in)
      BY <1>4, <3>1
    <3>3. at[n + 1] = at[n] + ps[n + 1].run /\ ps[n + 1].run \in Nat
      BY <1>2, <3>1
    <3>. QED  BY <1>1, <3>2, <3>3
  <2>. QED  BY <1>1, <2>1, <2>2
<1>5. Nat \subseteq Below
  <2>. HIDE DEF Below
  <2>. QED  BY <1>3, <1>4, SetInduction
<1>. QED
  <2>. SUFFICES ASSUME NEW n \in 0..L PROVE at[n] \in 0..Len(in)
    OBVIOUS
  <2>1. L \in Below
    <3>. HIDE DEF Below
    <3>. QED  BY <1>1, <1>5
  <2>2. n >= L - L
    BY <1>1
  <2>. HIDE DEF L
  <2>. QED  BY <2>1, <2>2

\* The decoder's loop, applied to pairs that spell a bitmap, returns it.
LEMMA DecodeSpelled ==
  ASSUME NEW in \in Seq(Byte), Len(in) <= FrameLen, NEW ps, Spells(ps, in, 1)
  PROVE  Decode(ps) = in
<1>. DEFINE L == Len(ps)
            Run(n) == [i \in 1..ps[n].run |-> ps[n].v]
            Body(f) == [n \in 0..L |-> IF n = 0 THEN <<>> ELSE f[n - 1] \o Run(n)]
            upTo == CHOOSE f : f = Body(f)
<1>1. Decode(ps) = IF (\E n \in DOMAIN ps : ps[n].run = 0) \/ Len(upTo[L]) > FrameLen
                   THEN <<>> ELSE upTo[L]
  BY DEF Decode
<1>2. ps \in Seq(Pair) /\ L \in Nat
  BY DEF Spells
<1>3. PICK at : Bounds(ps, in, 1, at)
  BY DEF Spells
<1>4. \A n \in 0..L : at[n] \in 0..Len(in)
  BY <1>2, <1>3, BoundsWithin
<1>. DEFINE Prefix(n) == [i \in 1..at[n] |-> in[i]]
            spelled == [n \in 0..L |-> Prefix(n)]
<1>5. at[0] = 0 /\ at[L] = Len(in)
  BY <1>3 DEF Bounds
<1>6. ASSUME NEW n \in 1..L PROVE Prefix(n) = Prefix(n - 1) \o Run(n)
  <2>. DEFINE a == at[n - 1]  r == ps[n].run
  <2>0. n - 1 \in 0..L /\ n \in 0..L /\ r \in Nat /\ ps[n].v \in Byte
    BY <1>2, PairFacts
  <2>1. /\ a \in Nat /\ r \in Nat /\ ps[n].v \in Byte
        /\ at[n] = a + r /\ at[n] <= Len(in) /\ Len(in) \in Nat
        /\ \A i \in (a + 1)..at[n] : in[i] = ps[n].v
    BY <1>3, <1>4, <2>0 DEF Bounds
  <2>2. /\ Prefix(n - 1) \in Seq(Byte) /\ Len(Prefix(n - 1)) = a
        /\ Prefix(n) \in Seq(Byte) /\ Len(Prefix(n)) = a + r
    <3>1. \A i \in 1..(a + r) : in[i] \in Byte
      BY <2>1
    <3>2. Prefix(n - 1) \in [1..a -> Byte] /\ Prefix(n) \in [1..(a + r) -> Byte]
      BY <2>1, <3>1
    <3>3. a + r \in Nat
      BY <2>1
    <3>. HIDE DEF Prefix, a, r
    <3>. QED  BY <2>1, <3>2, <3>3, SegmentIsSeq
  <2>3. Run(n) \in Seq(Byte) /\ Len(Run(n)) = r
    <3>1. Run(n) \in [1..r -> Byte]
      BY <2>1
    <3>. HIDE DEF Run, r
    <3>. QED  BY <2>1, <3>1, SegmentIsSeq
  <2>. DEFINE both == Prefix(n - 1) \o Run(n)
  <2>4. /\ both \in Seq(Byte) /\ Len(both) = a + r
        /\ \A i \in 1..(a + r) : both[i] = IF i <= a THEN Prefix(n - 1)[i] ELSE Run(n)[i - a]
    <3>. HIDE DEF Prefix, Run, a, r
    <3>1. /\ both \in Seq(Byte) /\ Len(both) = Len(Prefix(n - 1)) + Len(Run(n))
          /\ \A i \in 1..(Len(Prefix(n - 1)) + Len(Run(n))) :
               both[i] = IF i <= Len(Prefix(n - 1)) THEN Prefix(n - 1)[i] ELSE Run(n)[i - Len(Prefix(n - 1))]
      BY <2>2, <2>3, ConcatProperties
    <3>. HIDE DEF both
    <3>. QED  BY <2>2, <2>3, <3>1
  <2>5. ASSUME NEW i \in 1..(a + r) PROVE both[i] = Prefix(n)[i]
    <3>1. Prefix(n)[i] = in[i]
      BY <2>1
    <3>2. CASE i <= a
      BY <2>1, <2>4, <3>1, <3>2
    <3>3. CASE i > a
      <4>1. i - a \in 1..r /\ Run(n)[i - a] = ps[n].v
        BY <2>1, <3>3
      <4>2. i \in (a + 1)..at[n]
        BY <2>1, <3>3
      <4>3. in[i] = ps[n].v /\ both[i] = Run(n)[i - a]
        BY <2>1, <2>4, <3>3, <4>2
      <4>. QED  BY <3>1, <4>1, <4>3
    <3>. QED  BY <2>1, <3>2, <3>3
  <2>. HIDE DEF Prefix, Run, both, a, r
  <2>6. Prefix(n) = both
    BY <2>2, <2>4, <2>5, SeqEqual
  <2>. QED  BY <2>6 DEF both
<1>7. spelled = Body(spelled)
  <2>1. Prefix(0) = <<>>
    BY <1>5
  <2>2. ASSUME NEW n \in 0..L PROVE spelled[n] = IF n = 0 THEN <<>> ELSE spelled[n - 1] \o Run(n)
    <3>1. spelled[n] = Prefix(n) /\ (n # 0 => n \in 1..L /\ spelled[n - 1] = Prefix(n - 1))
      BY <1>2
    <3>. HIDE DEF spelled, Prefix, Run
    <3>. QED  BY <1>6, <2>1, <3>1
  <2>3. spelled = [n \in 0..L |-> spelled[n]]
    OBVIOUS
  <2>. HIDE DEF spelled, Run
  <2>. QED  BY <2>2, <2>3
<1>8. upTo = Body(upTo)
  <2>. HIDE DEF Body, spelled
  <2>. QED  BY <1>7
<1>. HIDE DEF upTo
<1>. DEFINE Same == {n \in Nat : n <= L => upTo[n] = Prefix(n)}
<1>9. 0 \in Same
  <2>1. upTo[0] = <<>>
    BY <1>2, <1>8
  <2>2. Prefix(0) = <<>>
    BY <1>5
  <2>. HIDE DEF Prefix
  <2>. QED  BY <2>1, <2>2
<1>10. ASSUME NEW n \in Nat, n \in Same PROVE n + 1 \in Same
  <2>. SUFFICES ASSUME n + 1 <= L PROVE upTo[n + 1] = Prefix(n + 1)
    OBVIOUS
  <2>1. n + 1 \in 0..L /\ n + 1 \in 1..L /\ n + 1 # 0 /\ (n + 1) - 1 = n
    BY <1>2
  <2>2. upTo[n] = Prefix(n)
    BY <1>2, <1>10
  <2>3. upTo[n + 1] = upTo[n] \o Run(n + 1)
    <3>. HIDE DEF Run
    <3>. QED  BY <1>8, <2>1
  <2>4. Prefix(n + 1) = Prefix(n) \o Run(n + 1)
    <3>. HIDE DEF Prefix, Run
    <3>. QED  BY <1>6, <2>1
  <2>. HIDE DEF Prefix, Run
  <2>. QED  BY <2>2, <2>3, <2>4
<1>11. Nat \subseteq Same
  <2>. HIDE DEF Same
  <2>. QED  BY <1>9, <1>10, SetInduction
<1>12. upTo[L] = in
  <2>1. L \in Same
    <3>. HIDE DEF Same
    <3>. QED  BY <1>2, <1>11
  <2>2. upTo[L] = Prefix(L)
    <3>. HIDE DEF Prefix
    <3>. QED  BY <1>2, <2>1
  <2>3. Prefix(L) = [i \in 1..Len(in) |-> in[i]]
    BY <1>5
  <2>. HIDE DEF Prefix
  <2>. QED  BY <2>2, <2>3
<1>13. \A n \in DOMAIN ps : ps[n].run # 0
  BY <1>2, PairFacts
<1>. QED  BY <1>1, <1>12, <1>13, BitmapFacts

(***************************************************************************)
(* The delta of a bitmap and its undoing.                                  *)
(***************************************************************************)
\* A delta is as long as its bitmap.
LEMMA DeltaType ==
  ASSUME NEW fb \in Bitmaps
  PROVE  Delta(fb) \in Seq(Byte) /\ Len(Delta(fb)) = FrameLen /\ DOMAIN Delta(fb) = 1..FrameLen
<1>1. FrameLen \in Nat /\ Stride \in Nat /\ Stride > 0
  BY BitmapFacts, RleAssumption
<1>2. \A i \in 1..FrameLen : i > Stride => i - Stride \in 1..FrameLen
  BY <1>1
<1>3. Delta(fb) \in [1..FrameLen -> Byte]
  BY <1>1, <1>2, XorType DEF Delta, Bitmaps
<1>. QED  BY <1>1, <1>3, SegmentIsSeq

\* Undoing the deltas front to back gives the bitmap back.
LEMMA UndoesDelta ==
  ASSUME NEW fb \in Bitmaps, NEW pairs, Decode(pairs) = Delta(fb)
  PROVE  DecodeDelta(pairs) = fb
<1>. DEFINE D == 1..FrameLen
            d == Delta(fb)
            Body(f) == [i \in D |-> IF i <= Stride THEN d[i] ELSE Xor(d[i], f[i - Stride])]
            plain == CHOOSE f : f = Body(f)
<1>1. FrameLen \in Nat /\ Stride \in Nat /\ Stride > 0
  BY BitmapFacts, RleAssumption
<1>2. DOMAIN Decode(pairs) = D /\ DOMAIN fb = D
  BY DeltaType DEF Bitmaps
<1>3. DecodeDelta(pairs) = [i \in D |-> plain[i]]
  BY <1>2 DEF DecodeDelta
<1>4. \A i \in D : d[i] = IF i <= Stride THEN fb[i] ELSE Xor(fb[i], fb[i - Stride])
  BY <1>2 DEF Delta
<1>. HIDE DEF d
<1>5. \A i \in D : fb[i] = IF i <= Stride THEN d[i] ELSE Xor(d[i], fb[i - Stride])
  BY <1>4, XorTwice
<1>6. fb = Body(fb)
  <2>1. fb = [i \in D |-> fb[i]]
    BY DEF Bitmaps
  <2>. QED  BY <1>5, <2>1
<1>7. plain = Body(plain)
  <2>. HIDE DEF Body
  <2>. QED  BY <1>6
<1>. HIDE DEF plain
<1>8. \A i \in D : plain[i] = IF i <= Stride THEN d[i] ELSE Xor(d[i], plain[i - Stride])
  BY <1>7
<1>. DEFINE Same == {n \in Nat : \A i \in D : i <= n => plain[i] = fb[i]}
<1>9. 0 \in Same
  BY <1>1
<1>10. ASSUME NEW n \in Nat, n \in Same PROVE n + 1 \in Same
  <2>. SUFFICES ASSUME NEW i \in D, i <= n + 1 PROVE plain[i] = fb[i]
    OBVIOUS
  <2>1. CASE i <= Stride
    BY <1>5, <1>8, <2>1
  <2>2. CASE i > Stride
    <3>1. i - Stride \in D /\ i - Stride <= n /\ ~(i <= Stride)
      BY <1>1, <2>2
    <3>2. plain[i - Stride] = fb[i - Stride]
      BY <1>10, <3>1
    <3>3. plain[i] = Xor(d[i], plain[i - Stride]) /\ fb[i] = Xor(d[i], fb[i - Stride])
      BY <1>5, <1>8, <3>1
    <3>. QED  BY <3>2, <3>3
  <2>. QED  BY <1>1, <2>1, <2>2
<1>11. Nat \subseteq Same
  <2>. HIDE DEF Same
  <2>. QED  BY <1>9, <1>10, SetInduction
<1>12. \A i \in D : plain[i] = fb[i]
  <2>1. FrameLen \in Same
    <3>. HIDE DEF Same
    <3>. QED  BY <1>1, <1>11
  <2>. QED  BY <1>1, <2>1
<1>. QED
  <2>1. fb = [i \in D |-> fb[i]]
    BY DEF Bitmaps
  <2>. QED  BY <1>3, <1>12, <2>1

\* What the encoder writes for a bitmap: some pairs, and they decode to it.
LEMMA PairsOfBitmap ==
  ASSUME NEW fb \in Bitmaps
  PROVE  /\ Pairs(Delta(fb)) \in Seq(Pair) /\ Len(Pairs(Delta(fb))) > 0
         /\ DecodeDelta(Pairs(Delta(fb))) = fb
<1>. DEFINE d == Delta(fb)  ps == Pairs(d)
<1>1. d \in Seq(Byte) /\ Len(d) = FrameLen /\ FrameLen \in Nat /\ FrameLen > 0
  BY DeltaType, BitmapFacts
<1>. HIDE DEF d
<1>2. Spells(ps, d, 1)
  BY <1>1, PairsSpell
<1>. HIDE DEF ps
<1>3. ps \in Seq(Pair) /\ Len(ps) \in Nat
  BY <1>2 DEF Spells
<1>4. Len(ps) > 0
  <2>1. PICK at : Bounds(ps, d, 1, at)
    BY <1>2 DEF Spells
  <2>. QED  BY <1>1, <1>3, <2>1 DEF Bounds
<1>5. Decode(ps) = d
  BY <1>1, <1>2, DecodeSpelled
<1>6. DecodeDelta(ps) = fb
  BY <1>5, UndoesDelta DEF d
<1>. QED  BY <1>3, <1>4, <1>6 DEF ps, d

(***************************************************************************)
(* The slot.                                                               *)
(***************************************************************************)
\* From the n-th on, the pairs of the slot up to the m-th are those of fb.
Holds(fb, n, m) == \A i \in 1..Len(Written(fb)) : n <= i /\ i <= m => i <= Len(g_rle) /\ g_rle[i] = Written(fb)[i]

SlotInv ==
  /\ g_rle \in Seq(Pair) /\ op \in Nat /\ touched \in Nat
  /\ busy \in Bitmaps \cup {<<>>} /\ saved \in Bitmaps \cup {<<>>} /\ torn \in Bitmaps \cup {<<>>}
  /\ busy = <<>> => op = 0
  /\ busy # <<>> => op <= Len(Written(busy)) + 1 /\ Holds(busy, 1, op)
  /\ busy # <<>> /\ op > Len(Written(busy)) => touched = 0 /\ torn = <<>>
  /\ saved = <<>> => g_rle_len = 0
  /\ saved # <<>> => /\ EncodedLen(saved) > 0 /\ g_rle_len = EncodedLen(saved)
                     /\ Holds(saved, touched + 1, Len(Written(saved)))
                     /\ torn = <<>> => touched <= op

\* What is written is a sequence of pairs, and all of them when they fit.
LEMMA WrittenFacts ==
  ASSUME NEW fb \in Bitmaps
  PROVE  /\ Written(fb) \in Seq(Pair)
         /\ EncodedLen(fb) > 0 => /\ Written(fb) = Pairs(Delta(fb))
                                  /\ EncodedLen(fb) \in 1..RleCap
                                  /\ EncodedLen(fb) \div 2 = Len(Written(fb))
<1>. DEFINE ps == Pairs(Delta(fb))  L == Len(ps)  Half == RleCap \div 2
<1>1. ps \in Seq(Pair) /\ L \in Nat /\ L > 0 /\ RleCap \in Nat
  BY PairsOfBitmap, RleAssumption
<1>2. Half \in Nat
  BY <1>1
<1>3. CASE 2 * L <= RleCap
  <2>1. L <= Half
    BY <1>1, <1>3
  <2>2. Min({L, Half}) = L
    <3>. HIDE DEF L, Half
    <3>. QED  BY <1>1, <1>2, <2>1 DEF Min
  <2>3. Written(fb) = SubSeq(ps, 1, L)
    BY <2>2 DEF Written
  <2>4. Written(fb) = ps
    <3>. HIDE DEF ps
    <3>. QED  BY <1>1, <2>3, SubSeqFull
  <2>5. EncodedLen(fb) = 2 * L
    BY <1>3 DEF EncodedLen
  <2>6. (2 * L) \div 2 = L /\ 2 * L \in 1..RleCap
    <3>. HIDE DEF L
    <3>. QED  BY <1>1, <1>3
  <2>. HIDE DEF L
  <2>. QED  BY <1>1, <2>4, <2>5, <2>6 DEF L
<1>4. CASE ~(2 * L <= RleCap)
  <2>1. EncodedLen(fb) = 0
    BY <1>4 DEF EncodedLen
  <2>2. Min({L, Half}) = Half
    <3>1. Half <= L
      BY <1>1, <1>4
    <3>. HIDE DEF L, Half
    <3>. QED  BY <1>1, <1>2, <3>1 DEF Min
  <2>3. Written(fb) = SubSeq(ps, 1, Half)
    BY <2>2 DEF Written
  <2>4. \A i \in 1..Half : ps[i] \in Pair
    <3>1. Half <= L
      BY <1>1, <1>4
    <3>. HIDE DEF ps, Half
    <3>. QED  BY <1>1, <1>2, <3>1
  <2>5. Written(fb) \in Seq(Pair)
    <3>. HIDE DEF ps, Half
    <3>. QED  BY <1>2, <2>3, <2>4, SubSeqProperties
  <2>. QED  BY <2>1, <2>5
<1>. QED  BY <1>3, <1>4

\* A slot that holds all of a bitmap's pairs loads the bitmap.
LEMMA HeldLoads ==
  ASSUME NEW fb \in Bitmaps, g_rle \in Seq(Pair), Holds(fb, 1, Len(Written(fb))), EncodedLen(fb) > 0
  PROVE  DecodeDelta(SubSeq(g_rle, 1, EncodedLen(fb) \div 2)) = fb
<1>. DEFINE w == Written(fb)  sub == SubSeq(g_rle, 1, Len(w))
<1>1. w \in Seq(Pair) /\ w = Pairs(Delta(fb)) /\ EncodedLen(fb) \div 2 = Len(w) /\ Len(w) > 0
  BY WrittenFacts, PairsOfBitmap
<1>2. \A i \in 1..Len(w) : i <= Len(g_rle) /\ g_rle[i] = w[i]
  BY <1>1 DEF Holds
<1>. HIDE DEF w
<1>3. Len(w) \in Nat /\ Len(w) <= Len(g_rle) /\ \A i \in 1..Len(w) : g_rle[i] \in Pair
  BY <1>1, <1>2
<1>4. /\ sub \in Seq(Pair) /\ Len(sub) = Len(w)
      /\ \A i \in 1..Len(w) : sub[i] = g_rle[1 + i - 1]
  BY <1>3, SubSeqProperties
<1>5. \A i \in 1..Len(w) : sub[i] = w[i]
  BY <1>2, <1>3, <1>4
<1>6. sub = w
  <2>. HIDE DEF sub
  <2>. QED  BY <1>1, <1>4, <1>5, SeqEqual
<1>7. DecodeDelta(w) = fb
  BY <1>1, PairsOfBitmap
<1>. QED  BY <1>1, <1>6, <1>7 DEF w

\* No bitmap is empty.
LEMMA BitmapNotEmpty == \A fb \in Bitmaps : fb # <<>>
BY BitmapFacts

\* The invariant says what loadFramebuffer returns.
LEMMA SlotLoads == SlotInv => LoadsWhatWasSaved
<1>. SUFFICES ASSUME SlotInv, busy = <<>>, torn = <<>>
     PROVE  LoadFramebuffer = IF g_magic /\ g_valid THEN saved ELSE <<>>
  BY DEF LoadsWhatWasSaved
<1>1. CASE saved = <<>>
  <2>1. g_rle_len = 0
    BY <1>1 DEF SlotInv
  <2>. QED  BY <1>1, <2>1, RleAssumption DEF LoadFramebuffer
<1>2. CASE saved # <<>>
  <2>1. /\ saved \in Bitmaps /\ EncodedLen(saved) > 0 /\ g_rle_len = EncodedLen(saved)
        /\ g_rle \in Seq(Pair) /\ touched \in Nat /\ op = 0 /\ touched <= op
        /\ Holds(saved, touched + 1, Len(Written(saved)))
    BY <1>2 DEF SlotInv
  <2>2. touched + 1 = 1
    BY <2>1
  <2>3. Holds(saved, 1, Len(Written(saved)))
    BY <2>1, <2>2
  <2>4. DecodeDelta(SubSeq(g_rle, 1, EncodedLen(saved) \div 2)) = saved
    BY <2>1, <2>3, HeldLoads
  <2>5. g_rle_len \in 1..RleCap
    BY <2>1, WrittenFacts
  <2>. QED  BY <1>2, <2>1, <2>4, <2>5 DEF LoadFramebuffer
<1>. QED  BY <1>1, <1>2

\* An RTC memory without a magic holds no bitmap.
LEMMA InitSlot == SlotInit => SlotInv
BY DEF SlotInit, SlotInv

\* A pair written at a place of the slot, or behind the last one, changes it only.
LEMMA PutFacts ==
  ASSUME NEW ps \in Seq(Pair), NEW i \in Nat, 1 <= i, i <= Len(ps) + 1, NEW pair \in Pair
  PROVE  /\ Put(ps, i, pair) \in Seq(Pair) /\ Len(ps) <= Len(Put(ps, i, pair)) /\ i <= Len(Put(ps, i, pair))
         /\ Put(ps, i, pair)[i] = pair
         /\ \A j \in 1..Len(ps) : j # i => Put(ps, i, pair)[j] = ps[j]
<1>1. CASE i \in DOMAIN ps
  <2>1. Put(ps, i, pair) = [ps EXCEPT ![i] = pair]
    BY <1>1 DEF Put
  <2>. QED  BY <1>1, <2>1
<1>2. CASE i \notin DOMAIN ps
  <2>1. Put(ps, i, pair) = Append(ps, pair) /\ i = Len(ps) + 1
    BY <1>2 DEF Put
  <2>. QED  BY <1>2, <2>1
<1>. QED  BY <1>1, <1>2

\* The pair that is written next: the slot holds those before it, and what the slot
\* held of the bitmap stored last it holds behind it.
LEMMA OverwriteHolds ==
  ASSUME SlotInv, busy # <<>>, op < Len(Written(busy)), NEW pair \in Pair, Overwrite(op + 1, pair)
  PROVE  /\ g_rle' \in Seq(Pair) /\ touched' \in Nat /\ op + 1 <= Len(g_rle') /\ g_rle'[op + 1] = pair
         /\ \A i \in 1..Len(g_rle) : i # op + 1 => i <= Len(g_rle') /\ g_rle'[i] = g_rle[i]
         /\ saved # <<>> => op + 1 <= touched' /\ touched <= touched'
         /\ touched' = touched \/ touched' = op + 1
<1>1. g_rle \in Seq(Pair) /\ op \in Nat /\ touched \in Nat /\ busy \in Bitmaps /\ Holds(busy, 1, op)
  BY DEF SlotInv
<1>2. g_rle' = Put(g_rle, op + 1, pair) /\ touched' = IF saved # <<>> /\ touched < op + 1 THEN op + 1 ELSE touched
  BY DEF Overwrite
<1>. DEFINE L == Len(Written(busy))
<1>3. L \in Nat
  BY <1>1, WrittenFacts
<1>4. op <= Len(g_rle)
  <2>1. CASE op = 0
    BY <1>1, <2>1
  <2>2. CASE op # 0
    <3>1. op \in 1..L /\ 1 <= op /\ op <= op
      BY <1>1, <1>3, <2>2
    <3>. QED  BY <1>1, <3>1 DEF Holds
  <2>. QED  BY <2>1, <2>2
<1>5. op + 1 \in Nat /\ 1 <= op + 1 /\ op + 1 <= Len(g_rle) + 1 /\ Len(g_rle) \in Nat
  BY <1>1, <1>4
<1>6. /\ g_rle' \in Seq(Pair) /\ Len(g_rle) <= Len(g_rle') /\ op + 1 <= Len(g_rle') /\ g_rle'[op + 1] = pair
      /\ \A i \in 1..Len(g_rle) : i # op + 1 => g_rle'[i] = g_rle[i]
  BY <1>1, <1>2, <1>5, PutFacts
<1>7. \A i \in 1..Len(g_rle) : i <= Len(g_rle')
  <2>1. Len(g_rle') \in Nat
    BY <1>6
  <2>. QED  BY <1>5, <1>6, <2>1
<1>8. /\ touched' \in Nat /\ (saved # <<>> => op + 1 <= touched' /\ touched <= touched')
      /\ (touched' = touched \/ touched' = op + 1)
  BY <1>1, <1>2
<1>. QED  BY <1>6, <1>7, <1>8

\* What the slot held of the bitmap stored last it holds behind the pair written.
LEMMA TailHolds ==
  ASSUME SlotInv, saved # <<>>, touched' \in Nat, touched <= touched', op + 1 <= touched', saved' = saved,
         \A i \in 1..Len(g_rle) : i # op + 1 => i <= Len(g_rle') /\ g_rle'[i] = g_rle[i]
  PROVE  Holds(saved, touched + 1, Len(Written(saved)))'
<1>1. /\ saved \in Bitmaps /\ touched \in Nat /\ op \in Nat /\ g_rle \in Seq(Pair)
      /\ Holds(saved, touched + 1, Len(Written(saved)))
  BY DEF SlotInv
<1>. DEFINE L == Len(Written(saved))
<1>2. L \in Nat
  BY <1>1, WrittenFacts
<1>3. ASSUME NEW i \in 1..L, touched' + 1 <= i
      PROVE  i <= Len(g_rle') /\ g_rle'[i] = Written(saved)[i]
  <2>0. i \in Nat /\ 1 <= i /\ i <= L
    BY <1>2
  <2>1. touched + 1 <= i /\ i <= L /\ i # op + 1 /\ i \in Nat /\ 1 <= i
    <3>1. PICK t \in Nat : t = touched'
      OBVIOUS
    <3>2. t + 1 <= i /\ touched <= t /\ op + 1 <= t
      BY <1>3, <3>1
    <3>. HIDE DEF L
    <3>3. touched + 1 <= i /\ i # op + 1
      BY <1>1, <2>0, <3>2
    <3>. QED  BY <2>0, <3>3
  <2>2. i <= Len(g_rle) /\ g_rle[i] = Written(saved)[i]
    BY <1>1, <2>1 DEF Holds
  <2>3. i \in 1..Len(g_rle)
    BY <1>1, <2>1, <2>2
  <2>. QED  BY <2>1, <2>2, <2>3
<1>. QED  BY <1>3 DEF Holds

\* The encoder's next pair.
LEMMA EncodeSlot ==
  ASSUME SlotInv, EncodePair
  PROVE  SlotInv'
<1>. DEFINE L == Len(Written(busy))  pair == Written(busy)[op + 1]
<1>1. /\ busy # <<>> /\ op < L /\ Overwrite(op + 1, pair) /\ op' = op + 1
      /\ UNCHANGED <<g_rle_len, busy, saved, torn>>
  BY DEF EncodePair
<1>2. /\ op \in Nat /\ touched \in Nat /\ busy \in Bitmaps /\ Holds(busy, 1, op)
      /\ g_rle \in Seq(Pair)
  BY <1>1 DEF SlotInv
<1>3. Written(busy) \in Seq(Pair) /\ L \in Nat
  BY <1>2, WrittenFacts
<1>4. pair \in Pair
  BY <1>1, <1>2, <1>3
<1>5. /\ g_rle' \in Seq(Pair) /\ touched' \in Nat /\ op + 1 <= Len(g_rle') /\ g_rle'[op + 1] = pair
      /\ \A i \in 1..Len(g_rle) : i # op + 1 => i <= Len(g_rle') /\ g_rle'[i] = g_rle[i]
      /\ saved # <<>> => op + 1 <= touched' /\ touched <= touched'
      /\ touched' = touched \/ touched' = op + 1
  BY <1>1, <1>4, OverwriteHolds
<1>6. Holds(busy, 1, op)'
  <2>1. ASSUME NEW i \in 1..L, i <= op + 1
        PROVE  i <= Len(g_rle') /\ g_rle'[i] = Written(busy)[i]
    <3>1. CASE i = op + 1
      BY <1>5, <3>1
    <3>2. CASE i # op + 1
      <4>1. i <= op /\ 1 <= i /\ i \in Nat
        BY <1>2, <1>3, <2>1, <3>2
      <4>2. i <= Len(g_rle) /\ g_rle[i] = Written(busy)[i]
        BY <1>2, <4>1 DEF Holds
      <4>3. i \in 1..Len(g_rle)
        BY <1>2, <4>1, <4>2
      <4>. QED  BY <1>5, <3>2, <4>2, <4>3
    <3>. QED  BY <3>1, <3>2
  <2>. QED  BY <1>1, <2>1 DEF Holds
<1>7. saved # <<>> => Holds(saved, touched + 1, Len(Written(saved)))'
  BY <1>1, <1>5, TailHolds
<1>8. torn = <<>> /\ saved # <<>> => touched' <= op'
  <2>1. ASSUME torn = <<>>, saved # <<>> PROVE touched <= op
    BY <2>1 DEF SlotInv
  <2>. QED  BY <1>1, <1>2, <1>5, <2>1
<1>9. op' \in Nat /\ op' <= L + 1 /\ ~(op' > L)
  BY <1>1, <1>2, <1>3
<1>10. Len(Written(busy')) = L /\ EncodedLen(saved') = EncodedLen(saved)
  BY <1>1
<1>. HIDE DEF L, pair
<1>. QED  BY <1>1, <1>5, <1>6, <1>7, <1>8, <1>9, <1>10 DEF SlotInv, L

\* The length is set once the bitmap's pairs are written, and is that of its pairs.
LEMMA LengthSlot ==
  ASSUME SlotInv, SetLength
  PROVE  SlotInv'
<1>. DEFINE L == Len(Written(busy))
<1>1. /\ busy # <<>> /\ op = L /\ g_rle_len' = EncodedLen(busy) /\ op' = op + 1 /\ touched' = 0 /\ torn' = <<>>
      /\ saved' = IF EncodedLen(busy) > 0 THEN busy ELSE <<>>
      /\ g_rle' = g_rle /\ busy' = busy
  BY DEF SetLength
<1>2. busy \in Bitmaps /\ Holds(busy, 1, op) /\ g_rle \in Seq(Pair)
  BY <1>1 DEF SlotInv
<1>3. L \in Nat /\ op \in Nat
  BY <1>1, <1>2, WrittenFacts
<1>4. EncodedLen(busy) > 0 \/ EncodedLen(busy) = 0
  BY <1>2, PairsOfBitmap DEF EncodedLen
<1>5. \A i \in 1..L : i <= Len(g_rle) /\ g_rle[i] = Written(busy)[i]
  <2>1. \A i \in 1..L : 1 <= i /\ i <= op
    BY <1>1, <1>3
  <2>. QED  BY <1>2, <2>1 DEF Holds
<1>6. Holds(busy, 1, op)'
  BY <1>1, <1>5 DEF Holds
<1>7. CASE EncodedLen(busy) > 0
  <2>1. saved' = busy /\ saved' # <<>> /\ EncodedLen(saved') > 0 /\ g_rle_len' = EncodedLen(saved')
    BY <1>1, <1>7
  <2>2. Holds(saved, touched + 1, Len(Written(saved)))'
    BY <1>1, <1>5, <2>1 DEF Holds
  <2>. QED  BY <1>1, <1>2, <1>3, <1>6, <2>1, <2>2 DEF SlotInv
<1>8. CASE EncodedLen(busy) = 0
  <2>1. saved' = <<>> /\ g_rle_len' = 0
    BY <1>1, <1>8
  <2>. QED  BY <1>1, <1>2, <1>3, <1>6, <2>1 DEF SlotInv
<1>. QED  BY <1>4, <1>7, <1>8

\* A reset between two pairs, or when none is being written.
LEMMA CutBetween ==
  ASSUME SlotInv, busy' = <<>>, op' = 0, UNCHANGED <<g_rle, touched, g_rle_len, saved>>,
         torn' = IF saved # <<>> /\ busy # <<>> /\ op \in 1..Len(Written(busy)) THEN busy ELSE torn
  PROVE  SlotInv'
<1>1. torn' \in Bitmaps \cup {<<>>}
  BY DEF SlotInv
<1>2. saved # <<>> => Holds(saved, touched + 1, Len(Written(saved)))'
  BY DEF SlotInv, Holds
<1>3. ASSUME saved # <<>>, torn' = <<>> PROVE touched <= 0
  <2>1. torn = <<>> /\ (busy = <<>> \/ ~(op \in 1..Len(Written(busy))))
    BY <1>3
  <2>2. /\ op \in Nat /\ touched \in Nat /\ touched <= op
        /\ busy = <<>> \/ (busy \in Bitmaps /\ busy # <<>>)
        /\ busy = <<>> => op = 0
        /\ busy # <<>> /\ op > Len(Written(busy)) => touched = 0
    BY <1>3, <2>1 DEF SlotInv
  <2>3. CASE busy = <<>>
    BY <2>2, <2>3
  <2>4. CASE busy \in Bitmaps /\ busy # <<>>
    <3>1. Len(Written(busy)) \in Nat
      BY <2>4, WrittenFacts
    <3>2. op = 0 \/ op > Len(Written(busy))
      BY <2>1, <2>2, <2>4, <3>1
    <3>. QED  BY <2>2, <2>4, <3>2
  <2>. QED  BY <2>2, <2>3, <2>4
<1>. QED  BY <1>1, <1>2, <1>3 DEF SlotInv

\* A reset between the count and the value of a pair.
LEMMA CutWithin ==
  ASSUME SlotInv, busy # <<>>, op < Len(Written(busy)), Overwrite(op + 1, HalfPair),
         torn' = IF saved # <<>> THEN busy ELSE <<>>,
         busy' = <<>>, op' = 0, UNCHANGED <<g_rle_len, saved>>
  PROVE  SlotInv'
<1>1. busy \in Bitmaps /\ op \in Nat /\ touched \in Nat /\ g_rle \in Seq(Pair)
  BY DEF SlotInv
<1>2. Written(busy) \in Seq(Pair) /\ op + 1 \in 1..Len(Written(busy))
  BY <1>1, WrittenFacts
<1>3. HalfPair \in Pair
  <2>1. Written(busy)[op + 1] \in Pair
    BY <1>2
  <2>2. {} \in Byte
    BY DEF Byte
  <2>3. op + 1 \in DOMAIN g_rle => g_rle[op + 1] \in Pair
    BY <1>1
  <2>. QED  BY <2>1, <2>2, <2>3 DEF HalfPair, Pair
<1>4. /\ g_rle' \in Seq(Pair) /\ touched' \in Nat
      /\ \A i \in 1..Len(g_rle) : i # op + 1 => i <= Len(g_rle') /\ g_rle'[i] = g_rle[i]
      /\ saved # <<>> => op + 1 <= touched' /\ touched <= touched'
  BY <1>3, OverwriteHolds
<1>5. saved # <<>> => Holds(saved, touched + 1, Len(Written(saved)))'
  BY <1>4, TailHolds
<1>6. torn' \in Bitmaps \cup {<<>>} /\ (saved # <<>> => torn' # <<>>)
  BY <1>1
<1>. QED  BY <1>4, <1>5, <1>6 DEF SlotInv

\* Every write, reset and loss of power keeps the slot's invariant.
LEMMA StepSlot == SlotInv /\ [Next]_rtcVars => SlotInv'
<1>. SUFFICES ASSUME SlotInv, [Next]_rtcVars PROVE SlotInv'
  OBVIOUS
<1>1. CASE UNCHANGED slotVars
  BY <1>1 DEF slotVars, SlotInv, Holds
<1>2. CASE SaveFramebuffer
  <2>1. busy = <<>> /\ busy' \in Bitmaps /\ UNCHANGED <<g_rle, g_rle_len, op, saved, touched, torn>>
    BY <1>2, FramesAssumption DEF SaveFramebuffer
  <2>2. op = 0 /\ Len(Written(busy')) \in Nat /\ busy' # <<>>
    BY <2>1, WrittenFacts, BitmapNotEmpty DEF SlotInv
  <2>3. Holds(busy, 1, op)' /\ (saved # <<>> => Holds(saved, touched + 1, Len(Written(saved)))')
    BY <2>1, <2>2 DEF SlotInv, Holds
  <2>4. op' <= Len(Written(busy')) + 1 /\ (op' > Len(Written(busy')) => FALSE)
    BY <2>1, <2>2
  <2>. QED  BY <2>1, <2>2, <2>3, <2>4 DEF SlotInv
<1>3. CASE EncodePair
  BY <1>3, EncodeSlot
<1>4. CASE SetLength
  BY <1>4, LengthSlot
<1>5. CASE SetFlag
  <2>1. busy # <<>> /\ op > Len(Written(busy)) /\ busy' = <<>> /\ op' = 0 /\ UNCHANGED <<g_rle, g_rle_len, saved, touched, torn>>
    BY <1>5 DEF SetFlag
  <2>2. touched = 0
    BY <2>1 DEF SlotInv
  <2>. QED  BY <2>1, <2>2 DEF SlotInv, Holds
<1>6. CASE SaveMeta
  BY <1>6 DEF SaveMeta, SlotInv, Holds
<1>7. CASE SlotReset
  <2>1. busy' = <<>> /\ op' = 0 /\ UNCHANGED <<g_rle_len, saved>>
    BY <1>7 DEF SlotReset
  <2>2. CASE /\ UNCHANGED <<g_rle, touched>>
             /\ torn' = IF saved # <<>> /\ busy # <<>> /\ op \in 1..Len(Written(busy)) THEN busy ELSE torn
    BY <2>1, <2>2, CutBetween
  <2>3. CASE /\ busy # <<>> /\ op < Len(Written(busy))
             /\ Overwrite(op + 1, HalfPair) /\ torn' = IF saved # <<>> THEN busy ELSE <<>>
    BY <2>1, <2>3, CutWithin
  <2>. QED  BY <1>7, <2>2, <2>3 DEF SlotReset
<1>8. CASE SlotPowerLoss
  BY <1>8 DEF SlotPowerLoss, SlotInv
<1>. QED
  BY <1>1, <1>2, <1>3, <1>4, <1>5, <1>6, <1>7, <1>8 DEF Next, rtcVars

\* The invariant of the framebuffer slot, through saves cut anywhere, resets and
\* losses of power: its length is that of the bitmap stored last or 0, the pairs of a
\* frame being saved stand at its front, and those of the bitmap stored last stand
\* behind every pair overwritten since.  So a reset inside the encoder leaves a mix
\* under the old length: the pairs it reached are others, the rest are the old ones
\* (Esp32PersistentStore::saveFramebuffer, saveMeta, rleEncodeDelta).
THEOREM SlotInvariant == Spec => []SlotInv
<1>1. Init => SlotInv
  BY InitSlot DEF Init
<1>. QED  BY <1>1, StepSlot, PTL DEF Spec

\* Whatever the bitmaps and the valid flag, and however saves fail, loadFramebuffer
\* gives back the bitmap stored last or nothing, byte for byte, as long as no reset
\* has cut the encoder over a stored bitmap: the codec loses nothing, a frame that
\* does not fit voids the slot, and a reset between length and flag does no harm
\* (Esp32PersistentStore::saveFramebuffer, loadFramebuffer, rle.cpp).
THEOREM LoadsTheBitmap == Spec => []LoadsWhatWasSaved
<1>. QED  BY SlotInvariant, SlotLoads, PTL

(***************************************************************************)
(* The trace slot.                                                         *)
(***************************************************************************)
\* Rings of a capacity whose entries are records of a set
Rings(cap, recs) ==
  [buf : [0..(cap - 1) -> recs], head : 0..(cap - 1), count : 0..cap]

AllCycles == CycleRecordSet \cup {Unwritten}
AllErrors == ErrorRecordSet \cup {Unwritten}
AllTraces == [cycles : Rings(CycleCap, AllCycles), errors : Rings(ErrorCap, AllErrors)]

\* work is what the log becomes when it is saved
WorkExtendsLog ==
  step = "Pushed" =>
    /\ \E rec \in CycleRecordSet :
         Newest(work.cycles, CycleCap) = Log!Entered(rec, Newest(LoadTrace.cycles, CycleCap), CycleCap)
    /\ \/ \E err \in ErrorRecordSet :
            Newest(work.errors, ErrorCap) = Log!Entered(err, Newest(LoadTrace.errors, ErrorCap), ErrorCap)
       \/ Newest(work.errors, ErrorCap) = Newest(LoadTrace.errors, ErrorCap)

TraceInv ==
  /\ magic \in BOOLEAN /\ slot \in AllTraces /\ work \in AllTraces
  /\ step \in {"Idle", "Pushed"}
  /\ WorkExtendsLog

(***************************************************************************)
(* Index arithmetic                                                        *)
(***************************************************************************)
LEMMA WrapForward ==
  ASSUME NEW cap \in Nat \ {0}, NEW h \in 0..(cap - 1)
  PROVE  (h + 1) % cap = (IF h + 1 = cap THEN 0 ELSE h + 1)
OBVIOUS

LEMMA WrapBackward ==
  ASSUME NEW cap \in Nat \ {0}, NEW h \in 0..(cap - 1), NEW idx \in 0..(cap - 1)
  PROVE  (h - 1 - idx) % cap = (IF h - 1 - idx < 0 THEN h - 1 - idx + cap ELSE h - 1 - idx)
OBVIOUS

LEMMA NewestIndexRange ==
  ASSUME NEW cap \in Nat \ {0}, NEW recs, NEW ring \in Rings(cap, recs), NEW idx \in 0..(cap - 1)
  PROVE  /\ NewestIndex(ring, cap, idx) \in 0..(cap - 1)
         /\ NewestIndex(ring, cap, idx) =
              (IF ring.head - 1 - idx < 0 THEN ring.head - 1 - idx + cap ELSE ring.head - 1 - idx)
<1>1. ring.head \in 0..(cap - 1)
  BY DEF Rings
<1>2. NewestIndex(ring, cap, idx) =
        (IF ring.head - 1 - idx < 0 THEN ring.head - 1 - idx + cap ELSE ring.head - 1 - idx)
  BY <1>1, WrapBackward DEF NewestIndex
<1> QED
  BY <1>1, <1>2

(***************************************************************************)
(* A push keeps the ring a ring, and enters its record in what is read.    *)
(***************************************************************************)
LEMMA PushIsRing ==
  ASSUME NEW cap \in Nat \ {0}, NEW recs, NEW ring \in Rings(cap, recs), NEW rec \in recs
  PROVE  RingPush(ring, cap, rec) \in Rings(cap, recs)
<1>1. ring.head \in 0..(cap - 1) /\ ring.count \in 0..cap /\ ring.buf \in [0..(cap - 1) -> recs]
  BY DEF Rings
<1>2. (ring.head + 1) % cap \in 0..(cap - 1)
  BY <1>1, WrapForward
<1>3. (IF ring.count < cap THEN ring.count + 1 ELSE ring.count) \in 0..cap
  BY <1>1
<1>4. [ring.buf EXCEPT ![ring.head] = rec] \in [0..(cap - 1) -> recs]
  BY <1>1
<1> QED
  BY <1>2, <1>3, <1>4 DEF RingPush, Rings

LEMMA PushEnters ==
  ASSUME NEW cap \in Nat \ {0}, NEW recs, NEW ring \in Rings(cap, recs), NEW rec \in recs
  PROVE  Newest(RingPush(ring, cap, rec), cap) = Log!Entered(rec, Newest(ring, cap), cap)
<1> DEFINE pushed == RingPush(ring, cap, rec)
<1> DEFINE size == IF ring.count < cap THEN ring.count + 1 ELSE ring.count
<1>1. ring.head \in 0..(cap - 1) /\ ring.count \in 0..cap /\ ring.buf \in [0..(cap - 1) -> recs]
  BY DEF Rings
<1>2. pushed \in Rings(cap, recs)
  BY PushIsRing
<1>3. /\ pushed.count = size
      /\ pushed.head = (IF ring.head + 1 = cap THEN 0 ELSE ring.head + 1)
      /\ pushed.buf = [ring.buf EXCEPT ![ring.head] = rec]
  BY <1>1, WrapForward DEF RingPush
<1>8. size \in 1..cap /\ size <= ring.count + 1
  BY <1>1
<1>4. Len(Newest(ring, cap)) = ring.count
  BY <1>1 DEF Newest
<1>5. Newest(pushed, cap) = [i \in 1..size |-> pushed.buf[NewestIndex(pushed, cap, i - 1)]]
  BY <1>3 DEF Newest
<1>6. Log!Entered(rec, Newest(ring, cap), cap) =
        [i \in 1..size |-> IF i = 1 THEN rec ELSE Newest(ring, cap)[i - 1]]
  BY <1>1, <1>4 DEF Log!Entered
<1> HIDE DEF pushed, size
<1>7. ASSUME NEW i \in 1..size
      PROVE  pushed.buf[NewestIndex(pushed, cap, i - 1)] =
               IF i = 1 THEN rec ELSE Newest(ring, cap)[i - 1]
  <2>1. i - 1 \in 0..(cap - 1)
    BY <1>8, <1>7
  <2>2. CASE i = 1
    <3>1. NewestIndex(pushed, cap, 0) =
            (IF pushed.head - 1 - 0 < 0 THEN pushed.head - 1 - 0 + cap ELSE pushed.head - 1 - 0)
      BY <1>2, <2>1, <2>2, NewestIndexRange
    <3>2. pushed.head - 1 - 0 = pushed.head - 1 /\ pushed.head \in 0..(cap - 1)
      BY <1>1, <1>3
    <3>3. NewestIndex(pushed, cap, 0) = ring.head
      BY <1>1, <1>3, <3>1, <3>2
    <3> QED
      BY <1>1, <1>3, <2>2, <3>3
  <2>3. CASE i # 1
    <3>1. i - 2 \in 0..(cap - 1) /\ i - 1 \in 1..ring.count
      BY <1>1, <1>7, <1>8, <2>1, <2>3
    <3>2. NewestIndex(pushed, cap, i - 1) =
            (IF pushed.head - 1 - (i - 1) < 0 THEN pushed.head - 1 - (i - 1) + cap
             ELSE pushed.head - 1 - (i - 1))
      BY <1>2, <2>1, NewestIndexRange
    <3>3. NewestIndex(ring, cap, i - 2) =
            (IF ring.head - 1 - (i - 2) < 0 THEN ring.head - 1 - (i - 2) + cap
             ELSE ring.head - 1 - (i - 2))
      BY <3>1, NewestIndexRange
    <3>8. pushed.head - 1 - (i - 1) = pushed.head - i /\ ring.head - 1 - (i - 2) = ring.head + 1 - i
      BY <1>1, <1>2, <3>1 DEF Rings
    <3>9. NewestIndex(pushed, cap, i - 1) =
            IF pushed.head - i < 0 THEN pushed.head - i + cap ELSE pushed.head - i
      BY <3>2, <3>8
    <3>10. NewestIndex(ring, cap, i - 2) =
             IF ring.head + 1 - i < 0 THEN ring.head + 1 - i + cap ELSE ring.head + 1 - i
      BY <3>3, <3>8
    <3>11. pushed.head = ring.head + 1 \/ (pushed.head = 0 /\ ring.head + 1 = cap)
      BY <1>3
    <3>12. i \in 2..cap
      BY <1>8, <1>7, <2>3
    <3>4. /\ NewestIndex(pushed, cap, i - 1) = NewestIndex(ring, cap, i - 2)
          /\ NewestIndex(ring, cap, i - 2) # ring.head
          /\ NewestIndex(ring, cap, i - 2) \in 0..(cap - 1)
      <4> DEFINE h == ring.head
      <4>1. h \in 0..(cap - 1) /\ h \in Int /\ cap \in Int /\ i \in Int
        BY <1>1, <3>12
      <4>2. CASE pushed.head = h + 1
        <5>1. NewestIndex(pushed, cap, i - 1) = IF h + 1 - i < 0 THEN h + 1 - i + cap ELSE h + 1 - i
          BY <3>9, <4>1, <4>2
        <5> HIDE DEF h
        <5> QED
          BY <5>1, <3>10, <3>12, <4>1 DEF h
      <4>3. CASE pushed.head = 0 /\ h + 1 = cap
        <5>1. NewestIndex(pushed, cap, i - 1) = cap - i
          BY <3>9, <3>12, <4>1, <4>3
        <5>2. NewestIndex(ring, cap, i - 2) = cap - i
          BY <3>10, <3>12, <4>1, <4>3
        <5> QED
          BY <5>1, <5>2, <3>12, <4>1, <4>3
      <4> QED
        BY <3>11, <4>2, <4>3
    <3>5. pushed.buf[NewestIndex(pushed, cap, i - 1)] = ring.buf[NewestIndex(ring, cap, i - 2)]
      BY <1>1, <1>3, <3>4
    <3>6. Newest(ring, cap)[i - 1] = ring.buf[NewestIndex(ring, cap, (i - 1) - 1)]
      BY <3>1 DEF Newest
    <3>7. (i - 1) - 1 = i - 2
      BY <3>1
    <3> QED
      BY <2>3, <3>5, <3>6, <3>7
  <2> QED
    BY <2>2, <2>3
<1> QED
  BY <1>5, <1>6, <1>7 DEF pushed

(***************************************************************************)
(* The invariant                                                           *)
(***************************************************************************)
LEMMA EmptyIsTrace == EmptyTrace \in AllTraces
BY CapAssumption DEF EmptyTrace, EmptyRing, AllTraces, Rings, AllCycles, AllErrors

LEMMA LoadIsTrace ==
  ASSUME TraceInv
  PROVE  LoadTrace \in AllTraces
BY EmptyIsTrace DEF TraceInv, LoadTrace

LEMMA InitTraceInv == TraceInit => TraceInv
BY EmptyIsTrace DEF TraceInit, TraceInv, WorkExtendsLog

LEMMA StepTraceInv == TraceInv /\ [TraceNext]_traceVars => TraceInv'
<1> SUFFICES ASSUME TraceInv, [TraceNext]_traceVars PROVE TraceInv'
  OBVIOUS
<1>1. CASE TracePush
  <2> DEFINE old == LoadTrace
  <2>1. PICK now \in Instants, trigger \in Triggers, sleep \in Sleeps, wifi_failed \in BOOLEAN :
          work' = [cycles |-> RingPush(LoadTrace.cycles, CycleCap, CycleRecord(now, trigger, sleep)),
                   errors |-> IF wifi_failed
                              THEN RingPush(LoadTrace.errors, ErrorCap, ErrorRecord(now))
                              ELSE LoadTrace.errors]
    BY <1>1 DEF TracePush
  <2> DEFINE rec == CycleRecord(now, trigger, sleep)
  <2> DEFINE err == ErrorRecord(now)
  <2>2. rec \in CycleRecordSet /\ err \in ErrorRecordSet
    BY DEF CycleRecordSet, ErrorRecordSet
  <2>3. LoadTrace.cycles \in Rings(CycleCap, AllCycles) /\ LoadTrace.errors \in Rings(ErrorCap, AllErrors)
    BY LoadIsTrace DEF AllTraces
  <2>4. rec \in AllCycles /\ err \in AllErrors
    BY <2>2 DEF AllCycles, AllErrors
  <2>5. /\ RingPush(LoadTrace.cycles, CycleCap, rec) \in Rings(CycleCap, AllCycles)
        /\ Newest(RingPush(LoadTrace.cycles, CycleCap, rec), CycleCap)
             = Log!Entered(rec, Newest(LoadTrace.cycles, CycleCap), CycleCap)
    BY <2>3, <2>4, CapAssumption, PushIsRing, PushEnters
  <2>6. /\ RingPush(LoadTrace.errors, ErrorCap, err) \in Rings(ErrorCap, AllErrors)
        /\ Newest(RingPush(LoadTrace.errors, ErrorCap, err), ErrorCap)
             = Log!Entered(err, Newest(LoadTrace.errors, ErrorCap), ErrorCap)
    BY <2>3, <2>4, CapAssumption, PushIsRing, PushEnters
  <2>7. LoadTrace' = LoadTrace
    BY <1>1 DEF TracePush, LoadTrace, EmptyTrace, EmptyRing
  <2>8. work'.cycles = RingPush(LoadTrace.cycles, CycleCap, rec)
    BY <2>1
  <2>9. \/ work'.errors = RingPush(LoadTrace.errors, ErrorCap, err)
        \/ work'.errors = LoadTrace.errors
    BY <2>1
  <2>10. work' \in AllTraces
    BY <2>1, <2>3, <2>5, <2>6 DEF AllTraces
  <2>11. Newest(work.cycles, CycleCap)' = Newest(work'.cycles, CycleCap)
         /\ Newest(work.errors, ErrorCap)' = Newest(work'.errors, ErrorCap)
         /\ Newest(LoadTrace.cycles, CycleCap)' = Newest(LoadTrace'.cycles, CycleCap)
         /\ Newest(LoadTrace.errors, ErrorCap)' = Newest(LoadTrace'.errors, ErrorCap)
    BY DEF Newest, NewestIndex
  <2>12. /\ Newest(work'.cycles, CycleCap)
              = Log!Entered(rec, Newest(LoadTrace.cycles, CycleCap), CycleCap)
         /\ \/ Newest(work'.errors, ErrorCap)
                 = Log!Entered(err, Newest(LoadTrace.errors, ErrorCap), ErrorCap)
            \/ Newest(work'.errors, ErrorCap) = Newest(LoadTrace.errors, ErrorCap)
    BY <2>5, <2>6, <2>8, <2>9
  <2>13. WorkExtendsLog'
    BY <2>2, <2>7, <2>11, <2>12 DEF WorkExtendsLog, Log!Entered
  <2> QED
    BY <1>1, <2>10, <2>13 DEF TraceInv, TracePush
<1>2. CASE TraceSave
  BY <1>2, EmptyIsTrace DEF TraceInv, TraceSave, WorkExtendsLog
<1>3. CASE TraceReset
  BY <1>3, EmptyIsTrace DEF TraceInv, TraceReset, WorkExtendsLog
<1>4. CASE TracePowerLoss
  BY <1>4, EmptyIsTrace DEF TraceInv, TracePowerLoss, WorkExtendsLog
<1>5. CASE UNCHANGED traceVars
  <2>1. work' = work /\ step' = step /\ magic' = magic /\ slot' = slot
    BY <1>5 DEF traceVars
  <2>2. LoadTrace' = LoadTrace
    BY <2>1 DEF LoadTrace, EmptyTrace, EmptyRing
  <2>3. /\ Newest(work.cycles, CycleCap)' = Newest(work.cycles, CycleCap)
        /\ Newest(work.errors, ErrorCap)' = Newest(work.errors, ErrorCap)
        /\ Newest(LoadTrace.cycles, CycleCap)' = Newest(LoadTrace.cycles, CycleCap)
        /\ Newest(LoadTrace.errors, ErrorCap)' = Newest(LoadTrace.errors, ErrorCap)
    BY <2>1, <2>2 DEF Newest, NewestIndex
  <2>4. WorkExtendsLog'
    BY <2>1, <2>3 DEF TraceInv, WorkExtendsLog, Log!Entered
  <2> QED
    BY <2>1, <2>4 DEF TraceInv
<1> QED
  BY <1>1, <1>2, <1>3, <1>4, <1>5 DEF TraceNext

(***************************************************************************)
(* The refinement                                                          *)
(***************************************************************************)
LEMMA EmptyReadsEmpty ==
  /\ Newest(EmptyTrace.cycles, CycleCap) = <<>>
  /\ Newest(EmptyTrace.errors, ErrorCap) = <<>>
BY CapAssumption DEF EmptyTrace, EmptyRing, Newest

LEMMA InitIsLogInit == TraceInit => Log!Init
BY EmptyReadsEmpty DEF TraceInit, Log!Init, LoadTrace

LEMMA StepIsLogStep ==
  TraceInv /\ [TraceNext]_traceVars =>
    [Log!Next]_<<Newest(LoadTrace.cycles, CycleCap), Newest(LoadTrace.errors, ErrorCap)>>
<1> SUFFICES ASSUME TraceInv, [TraceNext]_traceVars
             PROVE  [Log!Next]_<<Newest(LoadTrace.cycles, CycleCap),
                                Newest(LoadTrace.errors, ErrorCap)>>
  OBVIOUS
<1>1. ASSUME LoadTrace' = LoadTrace
      PROVE  UNCHANGED <<Newest(LoadTrace.cycles, CycleCap), Newest(LoadTrace.errors, ErrorCap)>>
  BY <1>1 DEF Newest, NewestIndex
<1>2. CASE TracePush
  BY <1>1, <1>2 DEF TracePush, LoadTrace, EmptyTrace, EmptyRing
<1>3. CASE TraceSave
  <2>1. LoadTrace' = work
    BY <1>3 DEF TraceSave, LoadTrace
  <2>2. /\ Newest(LoadTrace.cycles, CycleCap)' = Newest(work.cycles, CycleCap)
        /\ Newest(LoadTrace.errors, ErrorCap)' = Newest(work.errors, ErrorCap)
    BY <2>1 DEF Newest, NewestIndex
  <2>3. Log!LogCycle
    BY <1>3, <2>2 DEF TraceSave, TraceInv, WorkExtendsLog, Log!LogCycle
  <2> QED
    BY <2>3 DEF Log!Next
<1>4. CASE TraceReset
  BY <1>1, <1>4 DEF TraceReset, LoadTrace, EmptyTrace, EmptyRing
<1>5. CASE TracePowerLoss
  <2>1. LoadTrace' = EmptyTrace
    BY <1>5 DEF TracePowerLoss, LoadTrace, EmptyTrace, EmptyRing
  <2>2. /\ Newest(LoadTrace.cycles, CycleCap)' = <<>>
        /\ Newest(LoadTrace.errors, ErrorCap)' = <<>>
    BY <2>1, EmptyReadsEmpty DEF Newest, NewestIndex, EmptyTrace, EmptyRing
  <2> QED
    BY <2>2 DEF Log!Next, Log!LosePower
<1>6. CASE UNCHANGED traceVars
  BY <1>1, <1>6 DEF traceVars, LoadTrace, EmptyTrace, EmptyRing
<1> QED
  BY <1>2, <1>3, <1>4, <1>5, <1>6 DEF TraceNext

\* The slot and traceCycle's copy are well-formed traces, and a copy waiting to
\* be saved is the log with one cycle entered (cycle_trace.cpp, traceCycle).
THEOREM TraceInvariant == TraceSpec => []TraceInv
<1> QED
  BY InitTraceInv, StepTraceInv, PTL DEF TraceSpec

\* The two rings, loaded, pushed into and saved under resets, implement the
\* bounded newest-first log (cycle_trace.cpp, the trace slot of
\* Esp32PersistentStore).
THEOREM TraceRefinesLog == TraceSpec => TraceIsLog
<1>1. TraceInit => Log!Init
  BY InitIsLogInit
<1>2. TraceInv /\ [TraceNext]_traceVars =>
        [Log!Next]_<<Newest(LoadTrace.cycles, CycleCap), Newest(LoadTrace.errors, ErrorCap)>>
  BY StepIsLogStep
<1> QED
  BY <1>1, <1>2, TraceInvariant, PTL DEF TraceSpec, TraceIsLog, Log!Spec

\* The trace slot keeps its promise in RTC memory as a whole: the framebuffer's
\* saves, and the resets that interrupt them, leave the log alone
\* (Esp32PersistentStore).
THEOREM RtcTraceIsLog == Spec => TraceIsLog
<1>1. Init => TraceInit
  BY DEF Init
<1>2. [Next]_rtcVars => [TraceNext]_traceVars
  BY DEF Next, rtcVars, TraceNext
<1>3. Spec => TraceSpec
  BY <1>1, <1>2, PTL DEF Spec, TraceSpec
<1>. QED  BY <1>3, TraceRefinesLog
=============================================================================
