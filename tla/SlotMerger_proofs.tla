------------------------- MODULE SlotMerger_proofs --------------------------
(***************************************************************************)
(* The merge, for every number of slots, length of a minute, departures and*)
(* hints: walking over the departures, the row shows the first MaxSlots of *)
(* those that count (MergeShows), and those are NextDepartures (MergeIsNext).*)
(* The recursions of this and the modules that extend it are functions on  *)
(* numbers; that they are well defined is shown by SetInduction.           *)
(***************************************************************************)
EXTENDS SlotMerger, FiniteSetTheorems, SequenceTheorems, WellFoundedInduction, NaturalsInduction, TLAPS

(***************************************************************************)
(* Induction over numbers, stated of sets.                                 *)
(***************************************************************************)
\* A set of numbers has a least member.
LEMMA LeastNatural ==
  ASSUME NEW S \in SUBSET Nat, S # {}
  PROVE  \E m \in S : \A n \in S : m <= n
<1>. DEFINE R == {ss \in Nat \X Nat : ss[1] < ss[2]}
<1>1. IsWellFoundedOn(R, Nat)
  BY NatLessThanWellFounded DEF OpToRel
<1>2. \A n, m \in Nat : n < m => <<n, m>> \in R
  OBVIOUS
<1>. HIDE DEF R
<1>3. PICK m \in S : \A n \in S : ~(<<n, m>> \in R)
  BY <1>1, WFMin
<1>4. ASSUME NEW n \in S PROVE m <= n
  <2>1. ~(n < m)
    BY <1>2, <1>3
  <2>. QED  BY <2>1
<1>. QED  BY <1>4

\* Induction.
LEMMA SetInduction ==
  ASSUME NEW S, 0 \in S, \A n \in Nat : n \in S => n + 1 \in S
  PROVE  Nat \subseteq S
<1>1. SUFFICES ASSUME Nat \ S # {} PROVE FALSE
  OBVIOUS
<1>2. PICK m \in Nat \ S : \A n \in Nat \ S : m <= n
  BY <1>1, LeastNatural
<1>3. m # 0 /\ m - 1 \in Nat
  BY <1>2
<1>4. m - 1 \in S
  BY <1>2, <1>3
<1>. QED  BY <1>2, <1>3, <1>4

\* f starts with b and goes on, up to m, by the steps of step.
Recursion(f, X, b, m, step) ==
  f \in [0..m -> X] /\ f[0] = b /\ \A n \in 1..m : f[n] = step[n][f[n - 1]]

\* There is one for every start and all steps.
LEMMA RecursionExists ==
  ASSUME NEW X, NEW b \in X, NEW m \in Nat, NEW step \in [1..m -> [X -> X]]
  PROVE  \E f : Recursion(f, X, b, m, step)
<1>. DEFINE Up(f, k) == f \in [0..k -> X] /\ f[0] = b /\ \A n \in 1..k : f[n] = step[n][f[n - 1]]
            Defined == {k \in Nat : k <= m => \E f : Up(f, k)}
<1>1. 0 \in Defined
  <2>. DEFINE f == [n \in 0..0 |-> b]
  <2>1. Up(f, 0)
    OBVIOUS
  <2>. QED  BY <2>1
<1>2. ASSUME NEW k \in Nat, k \in Defined PROVE k + 1 \in Defined
  <2>. SUFFICES ASSUME k + 1 <= m PROVE \E f : Up(f, k + 1)
    OBVIOUS
  <2>1. PICK f : Up(f, k)
    BY <1>2
  <2>. DEFINE g == [n \in 0..(k + 1) |-> IF n = k + 1 THEN step[k + 1][f[k]] ELSE f[n]]
  <2>2. k + 1 \in 1..m /\ f[k] \in X /\ step[k + 1] \in [X -> X]
    BY <2>1
  <2>3. g \in [0..(k + 1) -> X]
    <3>1. step[k + 1][f[k]] \in X
      BY <2>2
    <3>. QED  BY <2>1, <3>1
  <2>4. g[0] = b
    BY <2>1
  <2>5. ASSUME NEW n \in 1..(k + 1) PROVE g[n] = step[n][g[n - 1]]
    <3>1. n - 1 \in 0..(k + 1) /\ n - 1 # k + 1 /\ g[n - 1] = f[n - 1]
      OBVIOUS
    <3>2. CASE n = k + 1
      <4>1. g[n] = step[k + 1][f[k]] /\ n - 1 = k
        BY <3>2
      <4>. HIDE DEF g
      <4>. QED  BY <3>1, <3>2, <4>1
    <3>3. CASE n # k + 1
      <4>1. n \in 1..k /\ g[n] = f[n]
        BY <3>3
      <4>. HIDE DEF g
      <4>. QED  BY <2>1, <3>1, <4>1
    <3>. QED  BY <3>2, <3>3
  <2>. HIDE DEF g
  <2>. QED  BY <2>3, <2>4, <2>5
<1>3. m \in Defined
  <2>1. Nat \subseteq Defined
    <3>. HIDE DEF Defined
    <3>. QED  BY <1>1, <1>2, SetInduction
  <2>. QED  BY <2>1
<1>. QED  BY <1>3 DEF Recursion

(***************************************************************************)
(* Minutes.                                                                *)
(***************************************************************************)
Timed(D) == \A d \in D : d.when \in Int

\* Instants in order have minutes in order.
LEMMA MinutesInOrder ==
  ASSUME NEW D, Timed(D), NEW d \in D, NEW e \in D
  PROVE  /\ MinuteOf(d) \in Int
         /\ d.when <= e.when => MinuteOf(d) <= MinuteOf(e)
<1>. DEFINE a == d.when
            b == e.when
            p == a \div Minute
            q == b \div Minute
<1>1. a \in Int /\ b \in Int /\ Minute \in Nat /\ Minute > 0
  BY MergerAssumption DEF Timed
<1>. HIDE DEF a, b
<1>2. /\ p \in Int /\ a = Minute * p + (a % Minute) /\ a % Minute \in 0..(Minute - 1)
      /\ q \in Int /\ b = Minute * q + (b % Minute) /\ b % Minute \in 0..(Minute - 1)
  BY <1>1
<1>. DEFINE r == a % Minute
            s == b % Minute
<1>. HIDE DEF p, q, r, s
<1>3. ASSUME a <= b, p > q PROVE FALSE
  <2>1. p - q >= 1
    BY <1>2, <1>3
  <2>2. Minute * (p - q) >= Minute
    BY <1>1, <1>2, <2>1
  <2>3. Minute * (p - q) = (a - r) - (b - s)
    <3>1. Minute * (p - q) = Minute * p - Minute * q
      BY <1>1, <1>2
    <3>. QED  BY <1>1, <1>2, <3>1 DEF r, s
  <2>. QED  BY <1>1, <1>2, <1>3, <2>2, <2>3 DEF r, s
<1>4. a <= b => p <= q
  BY <1>2, <1>3
<1>. QED  BY <1>2, <1>4 DEF MinuteOf, a, b, p, q

(***************************************************************************)
(* Placing a departure.                                                    *)
(***************************************************************************)
InOrder(out) == \A i, j \in 1..Len(out) : i < j => out[i].when < out[j].when
Sorted(out) == \A i, j \in 1..Len(out) : i < j => out[i].when <= out[j].when

\* No departure of the row is at cand's instant.
Free(out, cand) == \A i \in 1..Len(out) : out[i].when # cand.when

\* put holds what out holds, and cand.
Enters(put, out, cand) ==
  \A d : (\E i \in 1..Len(put) : put[i] = d) <=> (d = cand \/ \E i \in 1..Len(out) : out[i] = d)

\* put is out with cand between its first p departures, which are not later,
\* and the others, which are.
PutAt(put, out, cand, p) ==
  /\ \A i \in 1..Len(out) : IF i <= p THEN out[i].when <= cand.when ELSE cand.when < out[i].when
  /\ \A i \in 1..(Len(out) + 1) : put[i] = IF i <= p THEN out[i] ELSE IF i = p + 1 THEN cand ELSE out[i - 1]

\* The first p departures of out are those that are not later than cand.
PlaceAfter(out, cand, p) ==
  /\ \A i \in 1..Len(out) : IF i <= p THEN out[i].when <= cand.when ELSE cand.when < out[i].when
  /\ {i \in DOMAIN out : out[i].when <= cand.when} = 1..p

\* A sorted row has a place for every departure.
LEMMA PlaceExists ==
  ASSUME NEW D, Timed(D), NEW out \in Seq(D), Sorted(out), NEW cand \in D
  PROVE  \E p \in 0..Len(out) : PlaceAfter(out, cand, p)
<1>. DEFINE L == Len(out)
            S == {i \in 1..(L + 1) : i = L + 1 \/ cand.when < out[i].when}
<1>1. L \in Nat /\ cand.when \in Int /\ DOMAIN out = 1..L /\ \A i \in 1..L : out[i].when \in Int
  BY DEF Timed
<1>. HIDE DEF L
<1>2. S \in SUBSET Nat /\ L + 1 \in S
  BY <1>1
<1>3. PICK m \in S : \A n \in S : m <= n
  BY <1>2, LeastNatural
<1>4. m \in 1..(L + 1)
  OBVIOUS
<1>5. ASSUME NEW i \in 1..L
      PROVE  IF i <= m - 1 THEN out[i].when <= cand.when ELSE cand.when < out[i].when
  <2>1. CASE i <= m - 1
    <3>1. i \notin S
      BY <1>3, <1>4, <1>1, <2>1
    <3>2. ~(cand.when < out[i].when)
      BY <1>1, <3>1
    <3>. QED  BY <1>1, <2>1, <3>2
  <2>2. CASE ~(i <= m - 1)
    <3>1. m \in 1..L /\ cand.when < out[m].when
      BY <1>1, <1>4, <2>2
    <3>2. m = i \/ out[m].when <= out[i].when
      BY <1>1, <1>4, <2>2, <3>1 DEF Sorted, L
    <3>3. cand.when < out[i].when
      BY <1>1, <3>1, <3>2
    <3>. QED  BY <2>2, <3>3
  <2>. QED  BY <2>1, <2>2
<1>6. {i \in DOMAIN out : out[i].when <= cand.when} = 1..(m - 1)
  <2>1. ASSUME NEW i \in 1..L PROVE out[i].when <= cand.when <=> i <= m - 1
    BY <1>1, <1>5
  <2>. QED  BY <1>1, <1>4, <2>1
<1>7. m - 1 \in 0..L
  BY <1>1, <1>4
<1>. QED  BY <1>5, <1>6, <1>7 DEF L, PlaceAfter

\* It is put there.
LEMMA PlaceShape ==
  ASSUME NEW D, Timed(D), NEW out \in Seq(D), Sorted(out), NEW cand \in D
  PROVE  /\ Place(out, cand) \in Seq(D) /\ Len(Place(out, cand)) = Len(out) + 1
         /\ \E p \in 0..Len(out) : PutAt(Place(out, cand), out, cand, p)
<1>0. PICK p \in 0..Len(out) : PlaceAfter(out, cand, p)
  BY PlaceExists
<1>. DEFINE L == Len(out)
            put == Place(out, cand)
<1>1. /\ p \in 0..L /\ \A i \in 1..L : IF i <= p THEN out[i].when <= cand.when ELSE cand.when < out[i].when
      /\ {i \in DOMAIN out : out[i].when <= cand.when} = 1..p
  BY <1>0 DEF PlaceAfter
<1>2. L \in Nat /\ p \in Nat /\ p <= L /\ \A i \in 1..L : out[i] \in D
  OBVIOUS
<1>3. Cardinality(1..p) = p
  BY <1>2, FS_Interval
<1>4. put = SubSeq(out, 1, (1 + p) - 1) \o <<cand>> \o SubSeq(out, 1 + p, L)
  BY <1>1, <1>3 DEF Place, InsertAt
<1>. HIDE DEF put
<1>. DEFINE a == SubSeq(out, 1, (1 + p) - 1)
            b == SubSeq(out, 1 + p, L)
<1>5. a \in Seq(D) /\ Len(a) = p /\ \A i \in 1..p : a[i] = out[i]
  <2>1. (1 + p) - 1 = p /\ \A i \in 1..p : out[i] \in D
    BY <1>2
  <2>. QED  BY <1>2, <2>1
<1>6. b \in Seq(D) /\ Len(b) = L - p /\ \A i \in 1..(L - p) : b[i] = out[p + i]
  <2>1. \A i \in (1 + p)..L : out[i] \in D
    BY <1>2
  <2>. QED  BY <1>2, <2>1
<1>. HIDE DEF a, b, L
<1>7. put = (a \o <<cand>>) \o b
  BY <1>4 DEF a, b, L
<1>. DEFINE c == a \o <<cand>>
<1>8. c \in Seq(D) /\ Len(c) = p + 1 /\ \A i \in 1..(p + 1) : c[i] = IF i <= p THEN a[i] ELSE cand
  BY <1>2, <1>5
<1>. HIDE DEF c
<1>9. /\ put \in Seq(D) /\ Len(put) = L + 1
      /\ \A i \in 1..(L + 1) : put[i] = IF i <= p + 1 THEN c[i] ELSE b[i - (p + 1)]
  <2>1. /\ c \o b \in Seq(D) /\ Len(c \o b) = Len(c) + Len(b)
        /\ \A i \in 1..(Len(c) + Len(b)) : (c \o b)[i] = IF i <= Len(c) THEN c[i] ELSE b[i - Len(c)]
    BY <1>6, <1>8, ConcatProperties
  <2>2. Len(c) + Len(b) = L + 1
    BY <1>2, <1>6, <1>8
  <2>. QED  BY <1>7, <1>8, <2>1, <2>2 DEF c
<1>10. ASSUME NEW i \in 1..(L + 1)
       PROVE  put[i] = IF i <= p THEN out[i] ELSE IF i = p + 1 THEN cand ELSE out[i - 1]
  <2>1. CASE i <= p
    <3>1. i \in 1..p /\ i \in 1..(p + 1) /\ i <= p + 1
      BY <1>2, <2>1
    <3>2. put[i] = c[i] /\ c[i] = a[i] /\ a[i] = out[i]
      BY <1>5, <1>8, <1>9, <2>1, <3>1
    <3>. QED  BY <2>1, <3>2
  <2>2. CASE i = p + 1
    BY <1>2, <1>8, <1>9, <2>2
  <2>3. CASE i > p + 1
    <3>1. /\ i - (p + 1) \in 1..(L - p) /\ p + (i - (p + 1)) = i - 1
          /\ ~(i <= p + 1) /\ ~(i <= p) /\ i # p + 1
      BY <1>2, <2>3
    <3>2. put[i] = b[i - (p + 1)]
      BY <1>9, <3>1
    <3>3. b[i - (p + 1)] = out[p + (i - (p + 1))]
      BY <1>6, <3>1
    <3>. QED  BY <3>1, <3>2, <3>3
  <2>4. i <= p \/ i = p + 1 \/ i > p + 1
    BY <1>2
  <2>. QED  BY <2>1, <2>2, <2>3, <2>4
<1>11. PutAt(put, out, cand, p)
  BY <1>1, <1>10 DEF PutAt, L
<1>. QED  BY <1>1, <1>9, <1>11 DEF put, L

\* Where the departures of out are in put.
LEMMA PutFacts ==
  ASSUME NEW D, Timed(D), NEW out \in Seq(D), NEW cand \in D,
         NEW put \in Seq(D), Len(put) = Len(out) + 1, NEW p \in 0..Len(out), PutAt(put, out, cand, p)
  PROVE  /\ p + 1 \in 1..Len(put) /\ put[p + 1] = cand
         /\ \A k \in 1..Len(put) : k # p + 1 =>
              LET w == IF k <= p THEN k ELSE k - 1
              IN  /\ w \in 1..Len(out) /\ put[k] = out[w]
                  /\ IF k <= p THEN out[w].when <= cand.when ELSE cand.when < out[w].when
         /\ Enters(put, out, cand)
<1>. DEFINE L == Len(out)
<1>1. L \in Nat /\ p \in Nat /\ p <= L /\ Len(put) = L + 1
  OBVIOUS
<1>2. /\ \A i \in 1..L : IF i <= p THEN out[i].when <= cand.when ELSE cand.when < out[i].when
      /\ \A i \in 1..(L + 1) : put[i] = IF i <= p THEN out[i] ELSE IF i = p + 1 THEN cand ELSE out[i - 1]
  BY DEF PutAt
<1>. HIDE DEF L
<1>3. p + 1 \in 1..(L + 1) /\ put[p + 1] = cand
  BY <1>1, <1>2
<1>4. ASSUME NEW k \in 1..(L + 1), k # p + 1
      PROVE  LET w == IF k <= p THEN k ELSE k - 1
             IN  /\ w \in 1..L /\ put[k] = out[w]
                 /\ IF k <= p THEN out[w].when <= cand.when ELSE cand.when < out[w].when
  <2>1. CASE k <= p
    BY <1>1, <1>2, <2>1
  <2>2. CASE k > p
    <3>1. k - 1 \in 1..L /\ ~(k - 1 <= p) /\ ~(k <= p)
      BY <1>1, <1>4, <2>2
    <3>. QED  BY <1>2, <1>4, <3>1
  <2>. QED  BY <1>1, <2>1, <2>2
<1>5. ASSUME NEW i \in 1..L PROVE \E k \in 1..(L + 1) : put[k] = out[i]
  <2>1. CASE i <= p
    <3>1. i \in 1..(L + 1)
      BY <1>1
    <3>2. put[i] = out[i]
      BY <1>2, <2>1, <3>1
    <3>. QED  BY <3>1, <3>2
  <2>2. CASE i > p
    <3>1. i + 1 \in 1..(L + 1) /\ ~(i + 1 <= p) /\ i + 1 # p + 1 /\ (i + 1) - 1 = i
      BY <1>1, <2>2
    <3>2. put[i + 1] = out[i]
      BY <1>2, <3>1
    <3>. QED  BY <3>1, <3>2
  <2>. QED  BY <1>1, <2>1, <2>2
<1>6. \A k \in 1..(L + 1) : put[k] = cand \/ \E w \in 1..L : put[k] = out[w]
  BY <1>3, <1>4
<1>7. Enters(put, out, cand)
  BY <1>1, <1>3, <1>5, <1>6 DEF Enters, L
<1>. QED  BY <1>1, <1>3, <1>4, <1>7 DEF L

\* A row in order with room for the instant is in order again.
LEMMA PlaceFacts ==
  ASSUME NEW D, Timed(D), NEW out \in Seq(D), InOrder(out), NEW cand \in D, Free(out, cand)
  PROVE  /\ Place(out, cand) \in Seq(D) /\ Len(Place(out, cand)) = Len(out) + 1
         /\ InOrder(Place(out, cand)) /\ Enters(Place(out, cand), out, cand)
<1>. DEFINE put == Place(out, cand)
            L == Len(out)
<1>0. L \in Nat /\ cand.when \in Int /\ \A i \in 1..L : out[i].when \in Int
  BY DEF Timed
<1>1. Sorted(out)
  BY <1>0 DEF InOrder, Sorted
<1>2. /\ put \in Seq(D) /\ Len(put) = L + 1
      /\ \E p \in 0..L : PutAt(put, out, cand, p)
  BY <1>1, PlaceShape
<1>3. PICK p \in 0..L : PutAt(put, out, cand, p)
  BY <1>2
<1>. HIDE DEF put
<1>. DEFINE Was(k) == IF k <= p THEN k ELSE k - 1
<1>4. /\ put[p + 1] = cand /\ Enters(put, out, cand)
      /\ \A k \in 1..(L + 1) : k # p + 1 =>
           /\ Was(k) \in 1..L /\ put[k] = out[Was(k)]
           /\ IF k <= p THEN out[Was(k)].when <= cand.when ELSE cand.when < out[Was(k)].when
  BY <1>2, <1>3, PutFacts
<1>5. \A i \in 1..L : out[i].when # cand.when
  BY DEF Free
<1>6. \A i, j \in 1..L : i < j => out[i].when < out[j].when
  BY DEF InOrder
<1>. HIDE DEF L
<1>7. ASSUME NEW i \in 1..(L + 1), NEW j \in 1..(L + 1), i < j PROVE put[i].when < put[j].when
  <2>1. CASE i = p + 1
    <3>1. j # p + 1 /\ ~(j <= p)
      BY <1>0, <1>7, <2>1
    <3>2. put[j] = out[Was(j)] /\ cand.when < out[Was(j)].when
      BY <1>4, <3>1
    <3>. QED  BY <1>4, <2>1, <3>2
  <2>2. CASE j = p + 1
    <3>1. i # p + 1 /\ i <= p
      BY <1>0, <1>7, <2>2
    <3>2. put[i] = out[Was(i)] /\ Was(i) \in 1..L /\ out[Was(i)].when <= cand.when
      BY <1>4, <3>1
    <3>. HIDE DEF Was
    <3>. QED  BY <1>0, <1>4, <1>5, <2>2, <3>2
  <2>3. CASE i # p + 1 /\ j # p + 1
    <3>1. Was(i) < Was(j)
      BY <1>0, <1>7, <2>3
    <3>2. Was(i) \in 1..L /\ Was(j) \in 1..L /\ put[i] = out[Was(i)] /\ put[j] = out[Was(j)]
      BY <1>4, <2>3
    <3>. HIDE DEF Was
    <3>. QED  BY <1>6, <3>1, <3>2
  <2>. QED  BY <2>1, <2>2, <2>3
<1>8. InOrder(put)
  BY <1>2, <1>7 DEF InOrder, L
<1>. QED  BY <1>2, <1>4, <1>8 DEF put, L

(***************************************************************************)
(* What a row shows of the departures considered so far.                   *)
(***************************************************************************)
Apart(kept) == \A d, e \in kept : MinuteOf(d) = MinuteOf(e) => d = e

Shows(out, kept) ==
  /\ Len(out) <= MaxSlots /\ InOrder(out)
  /\ \A i \in 1..Len(out) : out[i] \in kept
  /\ \A d \in kept : \/ \E i \in 1..Len(out) : out[i] = d
                     \/ Len(out) = MaxSlots /\ out[MaxSlots].when < d.when

\* A departure of a new minute goes where it belongs, or nowhere.
LEMMA InsertNew ==
  ASSUME NEW D, Timed(D), NEW out \in Seq(D), NEW kept \in SUBSET D, Shows(out, kept), NEW cand \in D,
         \A e \in kept : MinuteOf(e) # MinuteOf(cand)
  PROVE  InsertSorted(out, cand) \in Seq(D) /\ Shows(InsertSorted(out, cand), kept \cup {cand})
<1>. DEFINE L == Len(out)
            more == kept \cup {cand}
            next == InsertSorted(out, cand)
<1>0. L \in Nat /\ L <= MaxSlots /\ MaxSlots \in Nat /\ MaxSlots > 0
  BY MergerAssumption DEF Shows
<1>9. DOMAIN out = 1..L
  OBVIOUS
<1>1. /\ \A i \in 1..L : out[i] \in D /\ out[i] \in kept
      /\ \A d \in D : d.when \in Int
  BY DEF Shows, Timed
<1>2. \A i \in 1..L : MinuteOf(out[i]) # MinuteOf(cand) /\ out[i].when # cand.when
  BY <1>1 DEF MinuteOf
<1>3. next = IF L < MaxSlots THEN Place(out, cand)
             ELSE IF cand.when < out[L].when THEN Place(Front(out), cand) ELSE out
  BY <1>0, <1>1, <1>2, <1>9 DEF InsertSorted, Last
<1>4. InOrder(out) /\ Free(out, cand)
  BY <1>2 DEF Shows, Free
<1>. HIDE DEF next
<1>5. CASE L < MaxSlots
  <2>. DEFINE put == Place(out, cand)
  <2>7. put \in Seq(D) /\ Len(put) = L + 1 /\ InOrder(put) /\ Enters(put, out, cand)
    BY <1>4, PlaceFacts
  <2>. HIDE DEF put
  <2>1. \A d : (\E i \in 1..(L + 1) : put[i] = d) <=> (d = cand \/ \E i \in 1..L : out[i] = d)
    BY <2>7 DEF Enters
  <2>2. \A i \in 1..(L + 1) : put[i] \in more
    <3>. SUFFICES ASSUME NEW i \in 1..(L + 1) PROVE put[i] \in more
      OBVIOUS
    <3>1. put[i] = cand \/ \E k \in 1..L : out[k] = put[i]
      BY <2>1
    <3>. QED  BY <1>1, <3>1
  <2>3. \A d \in more : \E i \in 1..(L + 1) : put[i] = d
    <3>. SUFFICES ASSUME NEW d \in more PROVE d = cand \/ \E k \in 1..L : out[k] = d
      BY <2>1
    <3>1. d \in kept => \E k \in 1..L : out[k] = d
      <4>1. Len(out) # MaxSlots
        BY <1>0, <1>5
      <4>. QED  BY <4>1 DEF Shows
    <3>. QED  BY <3>1
  <2>4. L + 1 <= MaxSlots
    BY <1>0, <1>5
  <2>5. next = put
    BY <1>3, <1>5 DEF put
  <2>. HIDE DEF more, L
  <2>6. Len(next) = L + 1
    BY <2>5, <2>7
  <2>. QED  BY <2>7, <2>2, <2>3, <2>4, <2>5, <2>6 DEF Shows, more, next
<1>6. CASE L = MaxSlots /\ cand.when < out[L].when
  <2>. DEFINE front == Front(out)
              put == Place(front, cand)
  <2>1. front \in Seq(D) /\ Len(front) = L - 1 /\ \A i \in 1..(L - 1) : front[i] = out[i]
    BY <1>0, <1>1, <1>6 DEF Front
  <2>. HIDE DEF front
  <2>2. InOrder(front) /\ Free(front, cand)
    <3>1. \A i \in 1..(L - 1) : i \in 1..L
      BY <1>0
    <3>2. InOrder(front)
      BY <1>4, <2>1, <3>1 DEF InOrder
    <3>3. Free(front, cand)
      BY <1>2, <2>1, <3>1 DEF Free
    <3>. QED  BY <3>2, <3>3
  <2>3. /\ put \in Seq(D) /\ Len(put) = L /\ InOrder(put)
        /\ \A d : (\E i \in 1..L : put[i] = d) <=> (d = cand \/ \E i \in 1..(L - 1) : out[i] = d)
    <3>1. /\ put \in Seq(D) /\ Len(put) = Len(front) + 1 /\ InOrder(put)
          /\ Enters(put, front, cand)
      BY <2>1, <2>2, PlaceFacts
    <3>. HIDE DEF put
    <3>2. Len(front) + 1 = L /\ Len(front) = L - 1
      BY <1>0, <2>1
    <3>3. \A d : (\E i \in 1..(L - 1) : front[i] = d) <=> (\E i \in 1..(L - 1) : out[i] = d)
      BY <2>1
    <3>. QED  BY <3>1, <3>2, <3>3 DEF Enters
  <2>. HIDE DEF put
  <2>4. \A i \in 1..L : put[i] \in more
    <3>. SUFFICES ASSUME NEW i \in 1..L PROVE put[i] \in more
      OBVIOUS
    <3>1. put[i] = cand \/ \E k \in 1..(L - 1) : out[k] = put[i]
      BY <2>3
    <3>. QED  BY <1>0, <1>1, <3>1
  <2>5. put[L].when < out[L].when
    <3>1. L \in 1..L
      BY <1>0, <1>6
    <3>2. put[L] = cand \/ \E k \in 1..(L - 1) : out[k] = put[L]
      BY <2>3, <3>1
    <3>3. \A k \in 1..(L - 1) : out[k].when < out[L].when
      BY <1>0, <1>4, <3>1 DEF InOrder
    <3>. QED  BY <1>6, <3>2, <3>3
  <2>6. \A d \in more : (\E i \in 1..L : put[i] = d) \/ put[L].when < d.when
    <3>. SUFFICES ASSUME NEW d \in more PROVE (\E i \in 1..L : put[i] = d) \/ put[L].when < d.when
      OBVIOUS
    <3>1. CASE d = cand
      BY <2>3, <3>1
    <3>2. CASE d \in kept
      <4>1. (\E i \in 1..L : out[i] = d) \/ out[L].when < d.when
        BY <1>6, <3>2 DEF Shows
      <4>2. ASSUME NEW i \in 1..L, out[i] = d PROVE (\E k \in 1..L : put[k] = d) \/ put[L].when < d.when
        <5>1. CASE i = L
          BY <2>5, <4>2, <5>1
        <5>2. CASE i # L
          <6>1. i \in 1..(L - 1)
            BY <1>0, <5>2
          <6>. QED  BY <2>3, <4>2, <6>1
        <5>. QED  BY <5>1, <5>2
      <4>3. ASSUME out[L].when < d.when PROVE put[L].when < d.when
        <5>1. L \in 1..L /\ put[L] \in D
          BY <1>0, <1>6, <2>3
        <5>. QED  BY <1>1, <2>5, <3>2, <4>3, <5>1
      <4>. QED  BY <4>1, <4>2, <4>3
    <3>. QED  BY <3>1, <3>2
  <2>7. next = put
    BY <1>3, <1>6 DEF put, front
  <2>. HIDE DEF more, L
  <2>8. Len(next) = L
    BY <2>3, <2>7
  <2>9. L = MaxSlots /\ L <= MaxSlots
    BY <1>0, <1>6
  <2>. QED  BY <2>9, <2>3, <2>4, <2>6, <2>7, <2>8 DEF Shows, more, next
<1>7. CASE L = MaxSlots /\ ~(cand.when < out[L].when)
  <2>1. next = out
    BY <1>3, <1>7
  <2>2. out[MaxSlots].when < cand.when
    <3>1. L \in 1..L
      BY <1>0, <1>7
    <3>2. out[L] \in D /\ out[L].when # cand.when
      BY <1>1, <1>2, <3>1
    <3>. QED  BY <1>1, <1>7, <3>2
  <2>3. Shows(out, more)
    <3>1. \A d \in more : (\E i \in 1..Len(out) : out[i] = d) \/ (Len(out) = MaxSlots /\ out[MaxSlots].when < d.when)
      BY <1>7, <2>2 DEF Shows
    <3>. QED  BY <3>1 DEF Shows
  <2>. QED  BY <2>1, <2>3 DEF next
<1>. QED  BY <1>0, <1>5, <1>6, <1>7

\* One of a minute that is known leaves the row alone, also when the row was
\* too full to show that minute.
LEMMA InsertKnown ==
  ASSUME NEW D, Timed(D), NEW out \in Seq(D), NEW kept \in SUBSET D, Apart(kept), Shows(out, kept),
         NEW cand \in D, NEW e \in kept, MinuteOf(e) = MinuteOf(cand)
  PROVE  InsertSorted(out, cand) = out
<1>. DEFINE L == Len(out)
<1>1. /\ L \in Nat /\ DOMAIN out = 1..L /\ MaxSlots \in Nat /\ MaxSlots > 0
      /\ \A i \in 1..L : out[i] \in D /\ out[i] \in kept
      /\ \A d \in D : d.when \in Int
  BY MergerAssumption DEF Shows, Timed
<1>2. CASE \E i \in 1..L : out[i] = e
  BY <1>1, <1>2 DEF InsertSorted
<1>3. CASE ~\E i \in 1..L : out[i] = e
  <2>1. L = MaxSlots /\ out[L].when < e.when
    BY <1>3 DEF Shows
  <2>. DEFINE last == out[L]
  <2>2. last \in D /\ last \in kept /\ last # e
    BY <1>1, <1>3, <2>1
  <2>. HIDE DEF last
  <2>3. MinuteOf(last) # MinuteOf(cand)
    BY <2>2 DEF Apart
  <2>4. MinuteOf(last) <= MinuteOf(cand)
    <3>1. last.when <= e.when
      BY <1>1, <2>1, <2>2 DEF last
    <3>. QED  BY <2>2, <3>1, MinutesInOrder
  <2>5. ~(cand.when < last.when)
    <3>1. MinuteOf(last) \in Int /\ MinuteOf(cand) \in Int
      BY <2>2, MinutesInOrder
    <3>2. cand.when <= last.when => MinuteOf(cand) <= MinuteOf(last)
      BY <2>2, MinutesInOrder
    <3>. QED  BY <1>1, <2>2, <2>3, <2>4, <3>1, <3>2
  <2>. QED  BY <1>1, <2>1, <2>5 DEF InsertSorted, Last, last
<1>. QED  BY <1>2, <1>3

(***************************************************************************)
(* The departures that count, front to back.                               *)
(***************************************************************************)
\* What counts of the first n.
KeptTo(all, t, n) ==
  {all[i] : i \in {i \in 1..n : /\ Offered(all[i], t)
                                /\ \A j \in 1..n : Offered(all[j], t) /\ j < i
                                                     => MinuteOf(all[j]) # MinuteOf(all[i])}}

\* No two of them are of one minute, and every minute offered has one.
LEMMA KeptFacts ==
  ASSUME NEW D, NEW all \in Seq(D), NEW t, NEW n \in 0..Len(all)
  PROVE  /\ KeptTo(all, t, n) \in SUBSET D /\ Apart(KeptTo(all, t, n))
         /\ \A i \in 1..n : Offered(all[i], t) => \E e \in KeptTo(all, t, n) : MinuteOf(e) = MinuteOf(all[i])
<1>. DEFINE First(i) == /\ Offered(all[i], t)
                        /\ \A j \in 1..n : Offered(all[j], t) /\ j < i => MinuteOf(all[j]) # MinuteOf(all[i])
            kept == KeptTo(all, t, n)
<1>1. \A e : e \in kept <=> \E i \in 1..n : First(i) /\ e = all[i]
  BY DEF KeptTo
<1>. HIDE DEF kept
<1>2. n \in Nat /\ \A i \in 1..n : all[i] \in D
  OBVIOUS
<1>3. kept \in SUBSET D
  BY <1>1, <1>2
<1>4. Apart(kept)
  <2>. SUFFICES ASSUME NEW d \in kept, NEW e \in kept, MinuteOf(d) = MinuteOf(e) PROVE d = e
    BY DEF Apart
  <2>1. PICK i \in 1..n : First(i) /\ d = all[i]
    BY <1>1
  <2>2. PICK j \in 1..n : First(j) /\ e = all[j]
    BY <1>1
  <2>3. ~(i < j) /\ ~(j < i)
    BY <2>1, <2>2
  <2>. QED  BY <1>2, <2>1, <2>2, <2>3
<1>5. ASSUME NEW i \in 1..n, Offered(all[i], t)
      PROVE  \E e \in kept : MinuteOf(e) = MinuteOf(all[i])
  <2>. DEFINE S == {j \in 1..n : Offered(all[j], t) /\ MinuteOf(all[j]) = MinuteOf(all[i])}
  <2>1. S \in SUBSET Nat /\ i \in S
    BY <1>2, <1>5
  <2>2. PICK m \in S : \A j \in S : m <= j
    BY <2>1, LeastNatural
  <2>3. First(m)
    <3>. SUFFICES ASSUME NEW j \in 1..n, Offered(all[j], t), j < m, MinuteOf(all[j]) = MinuteOf(all[m])
         PROVE  FALSE
      BY <2>2
    <3>1. j \in S
      BY <2>2
    <3>. QED  BY <2>1, <2>2, <3>1
  <2>4. all[m] \in kept /\ MinuteOf(all[m]) = MinuteOf(all[i])
    BY <1>1, <2>2, <2>3
  <2>. QED  BY <2>4
<1>. QED  BY <1>3, <1>4, <1>5 DEF kept

\* One more departure: nothing changes unless it is offered and of a new minute.
LEMMA KeptStep ==
  ASSUME NEW D, NEW all \in Seq(D), NEW t, NEW n \in Nat, n + 1 <= Len(all)
  PROVE  KeptTo(all, t, n + 1) =
           IF /\ Offered(all[n + 1], t)
              /\ \A e \in KeptTo(all, t, n) : MinuteOf(e) # MinuteOf(all[n + 1])
           THEN KeptTo(all, t, n) \cup {all[n + 1]} ELSE KeptTo(all, t, n)
<1>. DEFINE First(i) == /\ Offered(all[i], t)
                        /\ \A j \in 1..n : Offered(all[j], t) /\ j < i => MinuteOf(all[j]) # MinuteOf(all[i])
            More(i) == /\ Offered(all[i], t)
                       /\ \A j \in 1..(n + 1) : Offered(all[j], t) /\ j < i => MinuteOf(all[j]) # MinuteOf(all[i])
            kept == KeptTo(all, t, n)
            more == KeptTo(all, t, n + 1)
            new == Offered(all[n + 1], t) /\ \A e \in kept : MinuteOf(e) # MinuteOf(all[n + 1])
<1>1. /\ \A e : e \in kept <=> \E i \in 1..n : First(i) /\ e = all[i]
      /\ \A e : e \in more <=> \E i \in 1..(n + 1) : More(i) /\ e = all[i]
  BY DEF KeptTo
<1>2. \A i \in 1..n : More(i) <=> First(i)
  OBVIOUS
<1>3. More(n + 1) <=> new
  <2>1. n \in 0..Len(all)
    OBVIOUS
  <2>2. \A i \in 1..n : Offered(all[i], t) => \E e \in kept : MinuteOf(e) = MinuteOf(all[i])
    BY <2>1, KeptFacts
  <2>3. \A e \in kept : \E i \in 1..n : Offered(all[i], t) /\ e = all[i]
    BY <1>1
  <2>4. \A j \in 1..(n + 1) : j < n + 1 <=> j \in 1..n
    OBVIOUS
  <2>5. \A j \in 1..n : j \in 1..(n + 1)
    OBVIOUS
  <2>. HIDE DEF kept
  <2>. QED  BY <2>2, <2>3, <2>4, <2>5
<1>. HIDE DEF kept, more, First, More
<1>4. \A i : i \in 1..(n + 1) <=> i \in 1..n \/ i = n + 1
  OBVIOUS
<1>5. \A e : e \in more <=> e \in kept \/ (new /\ e = all[n + 1])
  <2>. HIDE DEF new
  <2>. QED  BY <1>1, <1>2, <1>3, <1>4
<1>6. more = IF new THEN kept \cup {all[n + 1]} ELSE kept
  <2>. HIDE DEF new
  <2>. QED  BY <1>5
<1>. QED  BY <1>6 DEF kept, more

\* The merge is well defined, and its row shows what counts.
LEMMA MergeShows ==
  ASSUME NEW D, Timed(D), NEW realtime, NEW hints, realtime \o Hints(hints) \in Seq(D), NEW t
  PROVE  LET all == realtime \o Hints(hints)
         IN  /\ MergeSlots(realtime, hints, t) \in Seq(D)
             /\ Shows(MergeSlots(realtime, hints, t), KeptTo(all, t, Len(all)))
<1>. DEFINE all == realtime \o Hints(hints)
            L == Len(all)
            Step(row, n) == IF Offered(all[n], t) THEN InsertSorted(row, all[n]) ELSE row
            Body(f, D2) == [n \in D2 |-> IF n = 0 THEN <<>> ELSE Step(f[n - 1], n)]
            merged == CHOOSE f : f = Body(f, 0..L)
            Defined == {n \in Nat : \E f : f = Body(f, 0..n)}
<1>1. MergeSlots(realtime, hints, t) = merged[L]
  BY DEF MergeSlots
<1>2. L \in Nat /\ all \in Seq(D)
  OBVIOUS
<1>. HIDE DEF all, L, Step
<1>3. 0 \in Defined
  <2>. DEFINE f == [n \in 0..0 |-> <<>>]
  <2>1. f = Body(f, 0..0)
    OBVIOUS
  <2>. QED  BY <2>1
<1>4. ASSUME NEW n \in Nat, n \in Defined PROVE n + 1 \in Defined
  <2>1. PICK f : f = Body(f, 0..n)
    BY <1>4
  <2>. DEFINE g == [k \in 0..(n + 1) |-> IF k = n + 1 THEN Step(f[n], n + 1) ELSE f[k]]
  <2>2. ASSUME NEW k \in 0..(n + 1) PROVE g[k] = IF k = 0 THEN <<>> ELSE Step(g[k - 1], k)
    <3>1. CASE k = n + 1
      <4>1. g[k] = Step(f[n], n + 1) /\ k # 0 /\ k - 1 = n /\ n \in 0..(n + 1) /\ n # n + 1
        BY <3>1
      <4>2. g[n] = f[n]
        BY <4>1
      <4>. HIDE DEF g
      <4>. QED  BY <3>1, <4>1, <4>2
    <3>2. CASE k # n + 1
      <4>1. k \in 0..n
        BY <3>2
      <4>2. f[k] = IF k = 0 THEN <<>> ELSE Step(f[k - 1], k)
        BY <2>1, <4>1
      <4>3. g[k] = f[k] /\ (k # 0 => g[k - 1] = f[k - 1])
        BY <4>1
      <4>. HIDE DEF g
      <4>. QED  BY <4>2, <4>3
    <3>. QED  BY <3>1, <3>2
  <2>3. g = [k \in 0..(n + 1) |-> g[k]]
    OBVIOUS
  <2>. HIDE DEF g
  <2>4. g = Body(g, 0..(n + 1))
    BY <2>2, <2>3
  <2>. QED  BY <2>4
<1>5. merged = Body(merged, 0..L)
  <2>1. Nat \subseteq Defined
    <3>. HIDE DEF Defined
    <3>. QED  BY <1>3, <1>4, SetInduction
  <2>2. \E f : f = Body(f, 0..L)
    <3>1. L \in Defined
      BY <1>2, <2>1
    <3>. HIDE DEF Body
    <3>. QED  BY <3>1
  <2>. HIDE DEF Body
  <2>. QED  BY <2>2
<1>. HIDE DEF merged
<1>6. merged[0] = <<>> /\ \A n \in 1..L : merged[n] = Step(merged[n - 1], n)
  <2>1. 0 \in 0..L /\ \A n \in 1..L : n \in 0..L /\ n # 0
    BY <1>2
  <2>. QED  BY <1>5, <2>1
<1>. DEFINE Good == {n \in Nat : n <= L => merged[n] \in Seq(D) /\ Shows(merged[n], KeptTo(all, t, n))}
<1>7. 0 \in Good
  <2>1. <<>> \in Seq(D) /\ Len(<<>>) = 0
    OBVIOUS
  <2>2. KeptTo(all, t, 0) = {}
    BY DEF KeptTo
  <2>3. Shows(<<>>, {})
    BY <2>1, MergerAssumption DEF Shows, InOrder
  <2>. QED  BY <1>6, <2>1, <2>2, <2>3
<1>8. ASSUME NEW n \in Nat, n \in Good PROVE n + 1 \in Good
  <2>. SUFFICES ASSUME n + 1 <= L
       PROVE  merged[n + 1] \in Seq(D) /\ Shows(merged[n + 1], KeptTo(all, t, n + 1))
    OBVIOUS
  <2>. DEFINE row == merged[n]
              kept == KeptTo(all, t, n)
              cand == all[n + 1]
  <2>1. n + 1 \in 1..L /\ n \in 0..L /\ (n + 1) - 1 = n /\ n <= L
    BY <1>2
  <2>2. row \in Seq(D) /\ Shows(row, kept)
    BY <1>8, <2>1
  <2>3. cand \in D
    BY <1>2, <2>1 DEF L
  <2>4. kept \in SUBSET D /\ Apart(kept)
    BY <1>2, <2>1, KeptFacts DEF L
  <2>5. merged[n + 1] = IF Offered(cand, t) THEN InsertSorted(row, cand) ELSE row
    BY <1>6, <2>1 DEF Step
  <2>6. KeptTo(all, t, n + 1) =
          IF Offered(cand, t) /\ (\A e \in kept : MinuteOf(e) # MinuteOf(cand)) THEN kept \cup {cand} ELSE kept
    BY <1>2, KeptStep DEF L
  <2>. HIDE DEF row, kept, cand
  <2>7. CASE ~Offered(cand, t)
    BY <2>2, <2>5, <2>6, <2>7
  <2>8. CASE Offered(cand, t) /\ \A e \in kept : MinuteOf(e) # MinuteOf(cand)
    BY <2>2, <2>3, <2>4, <2>5, <2>6, <2>8, InsertNew
  <2>9. CASE Offered(cand, t) /\ ~(\A e \in kept : MinuteOf(e) # MinuteOf(cand))
    <3>1. PICK e \in kept : MinuteOf(e) = MinuteOf(cand)
      BY <2>9
    <3>2. InsertSorted(row, cand) = row
      BY <2>2, <2>3, <2>4, <3>1, InsertKnown
    <3>. QED  BY <2>2, <2>5, <2>6, <2>9, <3>2
  <2>. QED  BY <2>7, <2>8, <2>9
<1>9. L \in Good
  <2>. HIDE DEF Good
  <2>1. Nat \subseteq Good
    BY <1>7, <1>8, SetInduction
  <2>. QED  BY <1>2, <2>1
<1>. QED  BY <1>1, <1>2, <1>9 DEF all, L

(***************************************************************************)
(* The row that shows what counts is the row of the next departures.       *)
(***************************************************************************)
\* A row in order holds as many departures as it has places.
LEMMA RowCount ==
  ASSUME NEW D, Timed(D), NEW out \in Seq(D), InOrder(out), NEW k \in 0..Len(out)
  PROVE  IsFiniteSet({out[i] : i \in 1..k}) /\ Cardinality({out[i] : i \in 1..k}) = k
<1>. DEFINE T == {out[i] : i \in 1..k}
            f == [i \in 1..k |-> out[i]]
<1>1. k \in Nat /\ \A i \in 1..k : i \in 1..Len(out) /\ out[i].when \in Int
  BY DEF Timed
<1>2. \A i, j \in 1..k : out[i] = out[j] => i = j
  <2>. SUFFICES ASSUME NEW i \in 1..k, NEW j \in 1..k, i < j, out[i] = out[j] PROVE FALSE
    BY <1>1
  <2>1. out[i].when < out[j].when
    BY <1>1 DEF InOrder
  <2>. QED  BY <1>1, <2>1
<1>3. f \in Bijection(1..k, T)
  BY <1>2 DEF Bijection, Injection, Surjection, IsInjective
<1>4. ExistsBijection(1..k, T)
  BY <1>3 DEF ExistsBijection
<1>5. IsFiniteSet(1..k) /\ Cardinality(1..k) = k
  BY <1>1, FS_Interval
<1>. HIDE DEF T
<1>6. IsFiniteSet(T) /\ Cardinality(T) = k
  BY <1>4, <1>5, FS_Bijection
<1>. QED  BY <1>6 DEF T

\* What counts is finitely many departures.
LEMMA KeptFinite ==
  ASSUME NEW D, NEW all \in Seq(D), NEW t, NEW n \in Nat
  PROVE  IsFiniteSet(KeptTo(all, t, n))
<1>. DEFINE I == {i \in 1..n : /\ Offered(all[i], t)
                                /\ \A j \in 1..n : Offered(all[j], t) /\ j < i
                                                     => MinuteOf(all[j]) # MinuteOf(all[i])}
            f == [i \in I |-> all[i]]
<1>1. IsFiniteSet(I)
  <2>1. IsFiniteSet(1..n) /\ I \in SUBSET (1..n)
    BY FS_Interval
  <2>. HIDE DEF I
  <2>. QED  BY <2>1, FS_Subset
<1>2. f \in Surjection(I, KeptTo(all, t, n))
  <2>1. KeptTo(all, t, n) = {all[i] : i \in I}
    BY DEF KeptTo
  <2>. HIDE DEF I
  <2>. QED  BY <2>1 DEF Surjection
<1>. HIDE DEF I, f
<1>. QED  BY <1>1, <1>2, FS_Surjection

\* A row that shows what counts is, place by place, the departure of that rank.
LEMMA ShownAreNext ==
  ASSUME NEW D, Timed(D), NEW out \in Seq(D), NEW kept \in SUBSET D, IsFiniteSet(kept), Shows(out, kept)
  PROVE  out = [n \in {n \in 1..MaxSlots : n <= Cardinality(kept)} |->
                  CHOOSE d \in kept : Cardinality({e \in kept : e.when < d.when}) = n - 1]
<1>. DEFINE L == Len(out)
            Upto(k) == {out[i] : i \in 1..k}
            Before(d) == {e \in kept : e.when < d.when}
            N == Cardinality(kept)
<1>1. L \in Nat /\ L <= MaxSlots /\ MaxSlots \in Nat /\ N \in Nat
  BY MergerAssumption, FS_CardinalityType DEF Shows
<1>2. /\ \A i \in 1..L : out[i] \in kept
      /\ \A d \in kept : d.when \in Int
      /\ InOrder(out)
      /\ \A d \in kept : (\E i \in 1..L : out[i] = d) \/ (L = MaxSlots /\ out[MaxSlots].when < d.when)
  BY DEF Shows, Timed
<1>3. \A k \in 0..L : IsFiniteSet(Upto(k)) /\ Cardinality(Upto(k)) = k
  BY <1>2, RowCount
<1>4. \A d \in kept : IsFiniteSet(Before(d)) /\ Cardinality(Before(d)) \in Nat
  <2>. SUFFICES ASSUME NEW d \in kept PROVE IsFiniteSet(Before(d)) /\ Cardinality(Before(d)) \in Nat
    OBVIOUS
  <2>1. Before(d) \in SUBSET kept
    OBVIOUS
  <2>. HIDE DEF Before
  <2>. QED  BY <2>1, FS_Subset, FS_CardinalityType
<1>5. ASSUME NEW n \in 1..L PROVE Before(out[n]) = Upto(n - 1)
  <2>1. ASSUME NEW i \in 1..(n - 1) PROVE out[i] \in kept /\ out[i].when < out[n].when
    <3>1. i \in 1..L /\ i < n
      BY <1>1
    <3>. QED  BY <1>2, <3>1 DEF InOrder
  <2>2. ASSUME NEW e \in kept, e.when < out[n].when PROVE \E i \in 1..(n - 1) : out[i] = e
    <3>1. ~(L = MaxSlots /\ out[MaxSlots].when < e.when)
      <4>1. CASE n = L
        <5>1. out[L] \in kept /\ e.when < out[L].when
          BY <1>2, <2>2, <4>1
        <5>. QED  BY <1>2, <5>1
      <4>2. CASE n # L
        <5>1. L \in 1..L /\ n < L
          BY <1>1, <4>2
        <5>2. out[n].when < out[L].when /\ out[n] \in kept /\ out[L] \in kept
          BY <1>2, <5>1 DEF InOrder
        <5>. QED  BY <1>2, <2>2, <5>2
      <4>. QED  BY <4>1, <4>2
    <3>2. PICK i \in 1..L : out[i] = e
      BY <1>2, <3>1
    <3>3. ~(n < i) /\ n # i
      <4>1. n # i
        BY <1>2, <2>2, <3>2
      <4>2. n < i => out[n].when < out[i].when
        BY <1>2 DEF InOrder
      <4>3. out[n] \in kept /\ out[i] \in kept
        BY <1>2
      <4>. QED  BY <1>2, <2>2, <3>2, <4>1, <4>2, <4>3
    <3>4. i \in 1..(n - 1)
      BY <1>1, <3>3
    <3>. QED  BY <3>2, <3>4
  <2>. QED  BY <2>1, <2>2
<1>6. ASSUME NEW d \in kept, ~\E i \in 1..L : out[i] = d
      PROVE  Cardinality(Before(d)) >= L
  <2>1. L = MaxSlots /\ out[L].when < d.when
    BY <1>2, <1>6
  <2>2. \A i \in 1..L : out[i].when < d.when
    <3>. SUFFICES ASSUME NEW i \in 1..L PROVE out[i].when < d.when
      OBVIOUS
    <3>1. i = L \/ (i < L /\ L \in 1..L)
      BY <1>1
    <3>2. i = L \/ out[i].when < out[L].when
      BY <1>2, <3>1 DEF InOrder
    <3>3. L \in 1..L
      BY <1>1
    <3>4. out[i] \in kept /\ out[L] \in kept
      BY <1>2, <3>3
    <3>. QED  BY <1>2, <2>1, <3>2, <3>4
  <2>3. Upto(L) \in SUBSET Before(d)
    BY <1>2, <2>2
  <2>4. L \in 0..L
    BY <1>1
  <2>5. Cardinality(Upto(L)) = L /\ IsFiniteSet(Before(d))
    BY <1>3, <1>4, <2>4
  <2>. HIDE DEF Upto, Before
  <2>6. Cardinality(Upto(L)) <= Cardinality(Before(d))
    BY <2>3, <2>5, FS_Subset
  <2>. QED  BY <1>1, <1>4, <2>5, <2>6
<1>7. {n \in 1..MaxSlots : n <= N} = 1..L
  <2>1. Upto(L) \in SUBSET kept
    BY <1>2
  <2>2. L \in 0..L
    BY <1>1
  <2>3. Cardinality(Upto(L)) = L
    BY <1>3, <2>2
  <2>4. L <= N
    <3>. HIDE DEF Upto
    <3>. QED  BY <2>1, <2>3, FS_Subset
  <2>5. L # MaxSlots => Upto(L) = kept
    BY <1>2
  <2>6. L # MaxSlots => N = L
    BY <2>3, <2>5
  <2>. HIDE DEF L, N
  <2>. QED  BY <1>1, <2>4, <2>6
<1>8. ASSUME NEW n \in 1..L
      PROVE  out[n] = CHOOSE d \in kept : Cardinality(Before(d)) = n - 1
  <2>1. \A m \in 1..L : Cardinality(Before(out[m])) = m - 1
    <3>. SUFFICES ASSUME NEW m \in 1..L PROVE Cardinality(Before(out[m])) = m - 1
      OBVIOUS
    <3>1. m - 1 \in 0..L
      BY <1>1
    <3>2. Before(out[m]) = Upto(m - 1)
      BY <1>5
    <3>. HIDE DEF Before, Upto
    <3>. QED  BY <1>3, <3>1, <3>2
  <2>2. ASSUME NEW d \in kept, Cardinality(Before(d)) = n - 1 PROVE d = out[n]
    <3>. HIDE DEF Before
    <3>1. CASE \E i \in 1..L : out[i] = d
      <4>1. PICK i \in 1..L : out[i] = d
        BY <3>1
      <4>2. i - 1 = n - 1
        BY <2>1, <2>2, <4>1
      <4>3. i = n
        BY <1>1, <4>2
      <4>. QED  BY <4>1, <4>3
    <3>2. CASE ~\E i \in 1..L : out[i] = d
      BY <1>1, <1>6, <2>2, <3>2
    <3>. QED  BY <3>1, <3>2
  <2>3. out[n] \in kept /\ Cardinality(Before(out[n])) = n - 1
    BY <1>2, <2>1
  <2>. HIDE DEF Before
  <2>. QED  BY <2>2, <2>3
<1>9. out = [n \in 1..L |-> out[n]]
  OBVIOUS
<1>10. out = [n \in 1..L |-> CHOOSE d \in kept : Cardinality(Before(d)) = n - 1]
  <2>. HIDE DEF L, Before
  <2>. QED  BY <1>8, <1>9
<1>. QED  BY <1>7, <1>10

\* For every number of slots and length of a minute, whatever realtime
\* departures and hints there are and in whatever order, the merge yields the
\* next departures of both (slot_merger.cpp:23-55, 59-95).
THEOREM MergeIsNext ==
  ASSUME NEW D, Timed(D), NEW realtime, NEW hints, realtime \o Hints(hints) \in Seq(D), NEW t
  PROVE  MergeSlots(realtime, hints, t) = NextDepartures(realtime, hints, t)
<1>. DEFINE all == realtime \o Hints(hints)
            kept == KeptTo(all, t, Len(all))
            row == MergeSlots(realtime, hints, t)
<1>1. row \in Seq(D) /\ Shows(row, kept)
  BY MergeShows
<1>2. DOMAIN all = 1..Len(all) /\ Len(all) \in Nat /\ Len(all) \in 0..Len(all)
  OBVIOUS
<1>3. kept \in SUBSET D /\ IsFiniteSet(kept)
  <2>1. all \in Seq(D)
    OBVIOUS
  <2>. HIDE DEF all
  <2>. QED  BY <1>2, <2>1, KeptFacts, KeptFinite
<1>4. Kept(all, t) = kept
  <2>. HIDE DEF all
  <2>1. \A i \in 1..Len(all) :
          (\A j \in {j \in DOMAIN all : Offered(all[j], t)} : j < i => MinuteOf(all[j]) # MinuteOf(all[i]))
            <=> (\A j \in 1..Len(all) : Offered(all[j], t) /\ j < i => MinuteOf(all[j]) # MinuteOf(all[i]))
    BY <1>2
  <2>. QED  BY <1>2, <2>1 DEF Kept, KeptTo
<1>. HIDE DEF kept, row
<1>5. row = [n \in {n \in 1..MaxSlots : n <= Cardinality(kept)} |->
               CHOOSE d \in kept : Cardinality({e \in kept : e.when < d.when}) = n - 1]
  BY <1>1, <1>3, ShownAreNext
<1>6. NextDepartures(realtime, hints, t) =
        [n \in {n \in 1..MaxSlots : n <= Cardinality(kept)} |->
           CHOOSE d \in kept : Cardinality({e \in kept : e.when < d.when}) = n - 1]
  BY <1>4 DEF NextDepartures
<1>. QED  BY <1>5, <1>6 DEF row
=============================================================================
