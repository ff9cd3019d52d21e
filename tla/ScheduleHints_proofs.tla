------------------------ MODULE ScheduleHints_proofs ------------------------
(***************************************************************************)
(* The hints and the rows, for every number of slots, length of a minute,  *)
(* timetable, day and sequence of refreshes.                               *)
(*                                                                         *)
(* An answer lists the departures of a stream in order and leaves out later*)
(* ones only (AnswerFacts), consumeEfaDoc keeps the last two before the    *)
(* cutoff and the first two after it (ConsumeHolds), and a hint is always  *)
(* what the refresh that replaced it made of its answer (HintInv).  What the*)
(* merge makes of the hints is in SlotMerger_proofs.  The fold is one on   *)
(* finite sets by their size.                                              *)
(***************************************************************************)
EXTENDS ScheduleHints, SlotMerger_proofs

(***************************************************************************)
(* The endpoint's list.                                                    *)
(***************************************************************************)
\* list holds the departures of C, each once, in the order of their instants.
Lists(list, C) ==
  /\ Sorted(list)
  /\ \A i \in 1..Len(list) : list[i] \in C
  /\ \A d \in C : \E i \in 1..Len(list) : list[i] = d
  /\ \A i, j \in 1..Len(list) : list[i] = list[j] => i = j

\* A departure that is not listed yet is placed in the list.
LEMMA ListsOneMore ==
  ASSUME NEW D, Timed(D), NEW list \in Seq(D), NEW C, Lists(list, C), NEW cand \in D, cand \notin C
  PROVE  Place(list, cand) \in Seq(D) /\ Lists(Place(list, cand), C \cup {cand})
<1>. DEFINE put == Place(list, cand)
            L == Len(list)
<1>0. L \in Nat /\ cand.when \in Int /\ \A i \in 1..L : list[i].when \in Int
  BY DEF Timed
<1>1. /\ Sorted(list)
      /\ \A i \in 1..L : list[i] \in C
      /\ \A d \in C : \E i \in 1..L : list[i] = d
      /\ \A i, j \in 1..L : list[i] = list[j] => i = j
  BY DEF Lists
<1>2. /\ put \in Seq(D) /\ Len(put) = L + 1
      /\ \E p \in 0..L : PutAt(put, list, cand, p)
  BY <1>1, PlaceShape
<1>3. PICK p \in 0..L : PutAt(put, list, cand, p)
  BY <1>2
<1>. HIDE DEF put
<1>. DEFINE Was(k) == IF k <= p THEN k ELSE k - 1
<1>4. /\ put[p + 1] = cand /\ Enters(put, list, cand)
      /\ \A k \in 1..(L + 1) : k # p + 1 =>
           /\ Was(k) \in 1..L /\ put[k] = list[Was(k)]
           /\ IF k <= p THEN list[Was(k)].when <= cand.when ELSE cand.when < list[Was(k)].when
  BY <1>2, <1>3, PutFacts
<1>5. \A i, j \in 1..L : i < j => list[i].when <= list[j].when
  BY <1>1 DEF Sorted
<1>6. \A d : (\E k \in 1..(L + 1) : put[k] = d) <=> (d = cand \/ \E i \in 1..L : list[i] = d)
  BY <1>2, <1>4 DEF Enters
<1>. HIDE DEF L
<1>7. ASSUME NEW i \in 1..(L + 1), NEW j \in 1..(L + 1), i < j PROVE put[i].when <= put[j].when
  <2>1. CASE i = p + 1
    <3>1. j # p + 1 /\ ~(j <= p)
      BY <1>0, <1>7, <2>1
    <3>2. put[j] = list[Was(j)] /\ cand.when < list[Was(j)].when /\ Was(j) \in 1..L
      BY <1>4, <3>1
    <3>. HIDE DEF Was
    <3>. QED  BY <1>0, <1>4, <2>1, <3>2
  <2>2. CASE j = p + 1
    <3>1. i # p + 1 /\ i <= p
      BY <1>0, <1>7, <2>2
    <3>2. put[i] = list[Was(i)] /\ list[Was(i)].when <= cand.when
      BY <1>4, <3>1
    <3>. QED  BY <1>4, <2>2, <3>2
  <2>3. CASE i # p + 1 /\ j # p + 1
    <3>1. Was(i) < Was(j)
      BY <1>0, <1>7, <2>3
    <3>2. Was(i) \in 1..L /\ Was(j) \in 1..L /\ put[i] = list[Was(i)] /\ put[j] = list[Was(j)]
      BY <1>4, <2>3
    <3>. HIDE DEF Was
    <3>. QED  BY <1>5, <3>1, <3>2
  <2>. QED  BY <2>1, <2>2, <2>3
<1>8. ASSUME NEW i \in 1..(L + 1), NEW j \in 1..(L + 1), i < j PROVE put[i] # put[j]
  <2>1. CASE i = p + 1
    <3>1. j # p + 1
      BY <1>0, <1>8, <2>1
    <3>2. put[j] = list[Was(j)] /\ Was(j) \in 1..L
      BY <1>4, <3>1
    <3>. HIDE DEF Was
    <3>. QED  BY <1>1, <1>4, <2>1, <3>2
  <2>2. CASE j = p + 1
    <3>1. i # p + 1
      BY <1>0, <1>8, <2>2
    <3>2. put[i] = list[Was(i)] /\ Was(i) \in 1..L
      BY <1>4, <3>1
    <3>. HIDE DEF Was
    <3>. QED  BY <1>1, <1>4, <2>2, <3>2
  <2>3. CASE i # p + 1 /\ j # p + 1
    <3>1. Was(i) # Was(j)
      BY <1>0, <1>8, <2>3
    <3>2. Was(i) \in 1..L /\ Was(j) \in 1..L /\ put[i] = list[Was(i)] /\ put[j] = list[Was(j)]
      BY <1>4, <2>3
    <3>. HIDE DEF Was
    <3>. QED  BY <1>1, <3>1, <3>2
  <2>. QED  BY <2>1, <2>2, <2>3
<1>9. Sorted(put)
  BY <1>2, <1>7 DEF Sorted, L
<1>10. \A k \in 1..(L + 1) : put[k] \in C \cup {cand}
  <2>. SUFFICES ASSUME NEW k \in 1..(L + 1) PROVE put[k] \in C \cup {cand}
    OBVIOUS
  <2>1. put[k] = cand \/ \E i \in 1..L : list[i] = put[k]
    BY <1>6
  <2>. QED  BY <1>1, <2>1
<1>11. \A d \in C \cup {cand} : \E k \in 1..(L + 1) : put[k] = d
  BY <1>1, <1>6
<1>12. \A i, j \in 1..(L + 1) : put[i] = put[j] => i = j
  <2>. SUFFICES ASSUME NEW i \in 1..(L + 1), NEW j \in 1..(L + 1), i # j PROVE put[i] # put[j]
    OBVIOUS
  <2>1. i < j \/ j < i
    BY <1>0
  <2>. QED  BY <1>8, <2>1
<1>. QED  BY <1>2, <1>9, <1>10, <1>11, <1>12 DEF Lists, put, L

\* The fold of Place over a finite set lists the set.
LEMMA FoldLists ==
  ASSUME NEW D, Timed(D), NEW C \in SUBSET D, IsFiniteSet(C)
  PROVE  LET list == FoldSet(LAMBDA d, sorted : Place(sorted, d), <<>>, C)
         IN  list \in Seq(D) /\ Lists(list, C)
<1>. DEFINE Pick(T) == CHOOSE x \in T : TRUE
            Body(f, S) == [T \in S |-> IF T = {} THEN <<>> ELSE Place(f[T \ {Pick(T)}], Pick(T))]
            Small(n) == {T \in SUBSET C : Cardinality(T) <= n}
            Defined == {n \in Nat : \E f : f = Body(f, Small(n))}
            iter == CHOOSE f : f = Body(f, SUBSET C)
<1>1. FoldSet(LAMBDA d, sorted : Place(sorted, d), <<>>, C) = iter[C]
  BY DEF FoldSet, MapThenFoldSet
<1>2. \A T \in SUBSET C : IsFiniteSet(T) /\ Cardinality(T) \in Nat /\ Cardinality(T) <= Cardinality(C)
  BY FS_Subset, FS_CardinalityType
<1>3. ASSUME NEW T \in SUBSET C, T # {}
      PROVE  /\ Pick(T) \in T /\ T \ {Pick(T)} \in SUBSET C
             /\ Cardinality(T \ {Pick(T)}) = Cardinality(T) - 1
  <2>1. Pick(T) \in T
    BY <1>3
  <2>. HIDE DEF Pick
  <2>. QED  BY <1>2, <2>1, FS_RemoveElement
<1>. HIDE DEF Pick
<1>4. 0 \in Defined
  <2>1. \A T \in Small(0) : T = {}
    BY <1>2, FS_EmptySet
  <2>. DEFINE f == [T \in Small(0) |-> <<>>]
  <2>2. f = Body(f, Small(0))
    <3>. HIDE DEF Small
    <3>. QED  BY <2>1
  <2>. HIDE DEF f, Body
  <2>. QED  BY <2>2
<1>5. ASSUME NEW n \in Nat, n \in Defined PROVE n + 1 \in Defined
  <2>1. PICK f : f = Body(f, Small(n))
    BY <1>5
  <2>. DEFINE g == [T \in Small(n + 1) |-> IF T \in Small(n) THEN f[T] ELSE Place(f[T \ {Pick(T)}], Pick(T))]
  <2>2. ASSUME NEW T \in Small(n + 1)
        PROVE  g[T] = IF T = {} THEN <<>> ELSE Place(g[T \ {Pick(T)}], Pick(T))
    <3>. DEFINE Q == T \ {Pick(T)}
    <3>1. T # {} => Q \in Small(n) /\ Q \in Small(n + 1)
      BY <1>2, <1>3
    <3>2. {} \in Small(n)
      BY FS_EmptySet
    <3>3. T \in Small(n) => f[T] = IF T = {} THEN <<>> ELSE Place(f[Q], Pick(T))
      BY <2>1
    <3>4. g[T] = IF T \in Small(n) THEN f[T] ELSE Place(f[Q], Pick(T))
      OBVIOUS
    <3>5. T # {} => g[Q] = f[Q]
      BY <3>1
    <3>. HIDE DEF g, Q, Small
    <3>. QED  BY <3>2, <3>3, <3>4, <3>5 DEF Q
  <2>3. g = [T \in Small(n + 1) |-> g[T]]
    OBVIOUS
  <2>. HIDE DEF g, Small
  <2>4. g = Body(g, Small(n + 1))
    BY <2>2, <2>3
  <2>. HIDE DEF Body
  <2>. QED  BY <2>4
<1>6. iter = Body(iter, SUBSET C)
  <2>1. Nat \subseteq Defined
    <3>. HIDE DEF Defined
    <3>. QED  BY <1>4, <1>5, SetInduction
  <2>2. SUBSET C = Small(Cardinality(C)) /\ Cardinality(C) \in Nat
    BY <1>2
  <2>3. \E f : f = Body(f, SUBSET C)
    <3>. HIDE DEF Body, Small
    <3>. QED  BY <2>1, <2>2
  <2>. HIDE DEF Body
  <2>. QED  BY <2>3
<1>. HIDE DEF iter
<1>7. \A T \in SUBSET C : iter[T] = IF T = {} THEN <<>> ELSE Place(iter[T \ {Pick(T)}], Pick(T))
  BY <1>6
<1>. DEFINE Good == {n \in Nat : \A T \in SUBSET C : Cardinality(T) = n => iter[T] \in Seq(D) /\ Lists(iter[T], T)}
<1>8. 0 \in Good
  <2>1. ASSUME NEW T \in SUBSET C, Cardinality(T) = 0 PROVE iter[T] \in Seq(D) /\ Lists(iter[T], T)
    <3>1. T = {}
      BY <1>2, <2>1, FS_EmptySet
    <3>2. iter[T] = <<>>
      BY <1>7, <3>1
    <3>3. <<>> \in Seq(D) /\ Len(<<>>) = 0 /\ \A i \in 1..Len(<<>>) : FALSE
      OBVIOUS
    <3>4. Lists(<<>>, {})
      BY <3>3 DEF Lists, Sorted
    <3>. QED  BY <3>1, <3>2, <3>3, <3>4
  <2>. QED  BY <2>1
<1>9. ASSUME NEW n \in Nat, n \in Good PROVE n + 1 \in Good
  <2>1. ASSUME NEW T \in SUBSET C, Cardinality(T) = n + 1 PROVE iter[T] \in Seq(D) /\ Lists(iter[T], T)
    <3>. DEFINE x == Pick(T)
                Q == T \ {x}
    <3>1. T # {}
      BY <2>1, FS_EmptySet
    <3>2. x \in T /\ x \in D /\ Q \in SUBSET C /\ Cardinality(Q) = n /\ x \notin Q /\ T = Q \cup {x}
      BY <1>3, <2>1, <3>1
    <3>3. iter[Q] \in Seq(D) /\ Lists(iter[Q], Q)
      BY <1>9, <3>2
    <3>4. iter[T] = Place(iter[Q], x)
      BY <1>7, <3>1
    <3>. HIDE DEF x, Q
    <3>. QED  BY <3>2, <3>3, <3>4, ListsOneMore
  <2>. QED  BY <2>1
<1>10. Cardinality(C) \in Good
  <2>. HIDE DEF Good
  <2>1. Nat \subseteq Good
    BY <1>8, <1>9, SetInduction
  <2>. QED  BY <1>2, <2>1
<1>11. iter[C] \in Seq(D) /\ Lists(iter[C], C)
  BY <1>10
<1>. QED  BY <1>1, <1>11

(***************************************************************************)
(* What a hint keeps of an answer.                                         *)
(***************************************************************************)
HintType == [last_today : Int, next_today : Int \X Int, first_tomorrow : Int \X Int]

\* pair are the two largest of times, in order; 0 for one that is not there.
TwoLast(pair, times) ==
  \/ times = {} /\ pair = <<0, 0>>
  \/ \E b \in times : times = {b} /\ pair = <<0, b>>
  \/ \E a, b \in times : a < b /\ pair = <<a, b>> /\ \A x \in times : x = b \/ x <= a

\* pair are the two smallest of times, in order; 0 for one that is not there.
TwoFirst(pair, times) ==
  \/ times = {} /\ pair = <<0, 0>>
  \/ \E c \in times : times = {c} /\ pair = <<c, 0>>
  \/ \E c, d \in times : c < d /\ pair = <<c, d>> /\ \A x \in times : x = c \/ d <= x

\* h holds the last two of times before the cutoff and the first two after it.
Holds(h, times, cutoff) ==
  /\ h \in HintType
  /\ TwoLast(h.next_today, {x \in times : x < cutoff})
  /\ TwoFirst(h.first_tomorrow, {x \in times : x >= cutoff})

\* A later departure shifts the pair before the cutoff, or fills the one after.
LEMMA TakeHolds ==
  ASSUME NEW cutoff \in Int, NEW times \in SUBSET Int, NEW h, Holds(h, times, cutoff),
         NEW t \in Int, t > 0, \A x \in times : 0 < x /\ x < t
  PROVE  Holds(TakeDeparture(h, t, cutoff), times \cup {t}, cutoff)
<1>. DEFINE A == {x \in times : x < cutoff}
            B == {x \in times : x >= cutoff}
            more == times \cup {t}
            next == TakeDeparture(h, t, cutoff)
            p == h.next_today
            q == h.first_tomorrow
<1>1. /\ h \in HintType /\ TwoLast(p, A) /\ TwoFirst(q, B)
      /\ p = <<p[1], p[2]>> /\ q = <<q[1], q[2]>>
      /\ p[1] \in Int /\ p[2] \in Int /\ q[1] \in Int /\ q[2] \in Int
  BY DEF Holds, HintType
<1>2. \A x \in A \cup B : x \in Int /\ 0 < x /\ x < t
  OBVIOUS
<1>3. CASE t < cutoff
  <2>1. {x \in more : x < cutoff} = A \cup {t} /\ {x \in more : x >= cutoff} = B
    BY <1>3
  <2>2. next = [last_today |-> t, next_today |-> <<p[2], t>>, first_tomorrow |-> q]
    BY <1>1, <1>3 DEF TakeDeparture, HintType
  <2>. HIDE DEF A, B, p, q, next
  <2>3. TwoLast(<<p[2], t>>, A \cup {t})
    <3>1. CASE A = {} /\ p = <<0, 0>>
      BY <1>1, <3>1 DEF TwoLast
    <3>2. CASE \E b \in A : A = {b} /\ p = <<0, b>>
      <4>1. PICK b \in A : A = {b} /\ p = <<0, b>>
        BY <3>2
      <4>2. p[2] = b /\ b < t /\ b \in A \cup {t} /\ t \in A \cup {t}
        BY <1>2, <4>1
      <4>3. \A x \in A \cup {t} : x = t \/ x <= b
        BY <1>2, <4>1
      <4>. QED  BY <4>2, <4>3 DEF TwoLast
    <3>3. CASE \E a, b \in A : a < b /\ p = <<a, b>> /\ \A x \in A : x = b \/ x <= a
      <4>1. PICK a, b \in A : a < b /\ p = <<a, b>> /\ \A x \in A : x = b \/ x <= a
        BY <3>3
      <4>2. p[2] = b /\ b < t
        BY <1>2, <4>1
      <4>3. \A x \in A : x <= b
        BY <1>2, <4>1
      <4>. QED  BY <4>2, <4>3 DEF TwoLast
    <3>. QED  BY <1>1, <3>1, <3>2, <3>3 DEF TwoLast
  <2>4. next \in HintType /\ next.next_today = <<p[2], t>> /\ next.first_tomorrow = q
    BY <1>1, <2>2 DEF HintType
  <2>. QED  BY <1>1, <2>1, <2>3, <2>4 DEF Holds, next
<1>4. CASE ~(t < cutoff)
  <2>1. {x \in more : x < cutoff} = A /\ {x \in more : x >= cutoff} = B \cup {t}
    BY <1>4
  <2>. DEFINE r == IF q[1] = 0 THEN <<t, q[2]>> ELSE IF q[2] = 0 THEN <<q[1], t>> ELSE q
  <2>2. r \in Int \X Int
    BY <1>1
  <2>3. next = [last_today |-> h.last_today, next_today |-> p, first_tomorrow |-> r]
    <3>1. [q EXCEPT ![1] = t] = <<t, q[2]>> /\ [q EXCEPT ![2] = t] = <<q[1], t>>
      BY <1>1
    <3>2. h = [last_today |-> h.last_today, next_today |-> p, first_tomorrow |-> q]
      BY <1>1 DEF HintType
    <3>3. CASE q[1] = 0
      BY <1>1, <1>4, <3>1, <3>3 DEF TakeDeparture, HintType
    <3>4. CASE q[1] # 0 /\ q[2] = 0
      BY <1>1, <1>4, <3>1, <3>4 DEF TakeDeparture, HintType
    <3>5. CASE q[1] # 0 /\ q[2] # 0
      BY <1>4, <3>2, <3>5 DEF TakeDeparture
    <3>. QED  BY <3>3, <3>4, <3>5
  <2>5. next \in HintType /\ next.next_today = p /\ next.first_tomorrow = r
    BY <1>1, <2>2, <2>3 DEF HintType
  <2>. HIDE DEF A, B, p, q, next
  <2>4. TwoFirst(r, B \cup {t})
    <3>1. CASE B = {} /\ q = <<0, 0>>
      BY <3>1 DEF TwoFirst
    <3>2. CASE \E c \in B : B = {c} /\ q = <<c, 0>>
      <4>1. PICK c \in B : B = {c} /\ q = <<c, 0>>
        BY <3>2
      <4>2. r = <<c, t>> /\ c < t
        BY <1>2, <4>1
      <4>. HIDE DEF r
      <4>. QED  BY <1>2, <4>1, <4>2 DEF TwoFirst
    <3>3. CASE \E c, d \in B : c < d /\ q = <<c, d>> /\ \A x \in B : x = c \/ d <= x
      <4>1. PICK c, d \in B : c < d /\ q = <<c, d>> /\ \A x \in B : x = c \/ d <= x
        BY <3>3
      <4>2. r = <<c, d>> /\ d < t
        BY <1>2, <4>1
      <4>. HIDE DEF r
      <4>3. \A x \in B \cup {t} : x = c \/ d <= x
        BY <1>2, <4>1, <4>2
      <4>. QED  BY <4>1, <4>2, <4>3 DEF TwoFirst
    <3>. QED  BY <1>1, <3>1, <3>2, <3>3 DEF TwoFirst
  <2>. QED  BY <1>1, <2>1, <2>4, <2>5 DEF Holds, next
<1>. QED  BY <1>3, <1>4

\* The departures of stream s among the first n of an answer.
OwnTimes(doc, s, n) == {doc[i].when : i \in {i \in 1..n : doc[i].line = s}}

\* Those of stream s come in order, and none at 0.
OwnAscend(doc, s) ==
  /\ \A i \in 1..Len(doc) : doc[i].line = s => doc[i].when \in Int /\ doc[i].when > 0
  /\ \A i, j \in 1..Len(doc) : i < j /\ doc[i].line = s /\ doc[j].line = s => doc[i].when < doc[j].when

\* The hint of a stream holds what it should of the answer.
LEMMA ConsumeHolds ==
  ASSUME NEW doc, Len(doc) \in Nat, NEW s, NEW cutoff \in Int, OwnAscend(doc, s)
  PROVE  Holds(ConsumeEfaDoc(doc, s, cutoff), OwnTimes(doc, s, Len(doc)), cutoff)
<1>. DEFINE L == Len(doc)
            Step(h, n) == IF doc[n].line = s THEN TakeDeparture(h, doc[n].when, cutoff) ELSE h
            Body(f, D2) == [n \in D2 |-> IF n = 0 THEN NoHint ELSE Step(f[n - 1], n)]
            taken == CHOOSE f : f = Body(f, 0..L)
            Defined == {n \in Nat : \E f : f = Body(f, 0..n)}
<1>1. ConsumeEfaDoc(doc, s, cutoff) = taken[L]
  BY DEF ConsumeEfaDoc
<1>2. L \in Nat
  OBVIOUS
<1>. HIDE DEF L, Step
<1>3. 0 \in Defined
  <2>. DEFINE f == [n \in 0..0 |-> NoHint]
  <2>1. f = Body(f, 0..0)
    OBVIOUS
  <2>. QED  BY <2>1
<1>4. ASSUME NEW n \in Nat, n \in Defined PROVE n + 1 \in Defined
  <2>1. PICK f : f = Body(f, 0..n)
    BY <1>4
  <2>. DEFINE g == [k \in 0..(n + 1) |-> IF k = n + 1 THEN Step(f[n], n + 1) ELSE f[k]]
  <2>2. ASSUME NEW k \in 0..(n + 1) PROVE g[k] = IF k = 0 THEN NoHint ELSE Step(g[k - 1], k)
    <3>1. CASE k = n + 1
      <4>1. g[k] = Step(f[n], n + 1) /\ k # 0 /\ k - 1 = n /\ n \in 0..(n + 1) /\ n # n + 1
        BY <3>1
      <4>2. g[n] = f[n]
        BY <4>1
      <4>. HIDE DEF g
      <4>. QED  BY <3>1, <4>1, <4>2
    <3>2. CASE k # n + 1
      <4>1. k \in 0..n
        BY <3>2
      <4>2. f[k] = IF k = 0 THEN NoHint ELSE Step(f[k - 1], k)
        BY <2>1, <4>1
      <4>3. g[k] = f[k] /\ (k # 0 => g[k - 1] = f[k - 1])
        BY <4>1
      <4>. HIDE DEF g
      <4>. QED  BY <4>2, <4>3
    <3>. QED  BY <3>1, <3>2
  <2>3. g = [k \in 0..(n + 1) |-> g[k]]
    OBVIOUS
  <2>. HIDE DEF g
  <2>4. g = Body(g, 0..(n + 1))
    BY <2>2, <2>3
  <2>. QED  BY <2>4
<1>5. taken = Body(taken, 0..L)
  <2>1. Nat \subseteq Defined
    <3>. HIDE DEF Defined
    <3>. QED  BY <1>3, <1>4, SetInduction
  <2>2. \E f : f = Body(f, 0..L)
    <3>1. L \in Defined
      BY <1>2, <2>1
    <3>. HIDE DEF Body
    <3>. QED  BY <3>1
  <2>. HIDE DEF Body
  <2>. QED  BY <2>2
<1>. HIDE DEF taken
<1>6. taken[0] = NoHint /\ \A n \in 1..L : taken[n] = Step(taken[n - 1], n)
  <2>1. 0 \in 0..L /\ \A n \in 1..L : n \in 0..L /\ n # 0
    BY <1>2
  <2>. QED  BY <1>5, <2>1
<1>. DEFINE Good == {n \in Nat : n <= L => Holds(taken[n], OwnTimes(doc, s, n), cutoff)}
<1>7. 0 \in Good
  <2>1. OwnTimes(doc, s, 0) = {}
    BY DEF OwnTimes
  <2>2. Holds(NoHint, {}, cutoff)
    BY DEF Holds, NoHint, HintType, TwoLast, TwoFirst
  <2>. QED  BY <1>6, <2>1, <2>2
<1>8. ASSUME NEW n \in Nat, n \in Good PROVE n + 1 \in Good
  <2>. SUFFICES ASSUME n + 1 <= L PROVE Holds(taken[n + 1], OwnTimes(doc, s, n + 1), cutoff)
    OBVIOUS
  <2>. DEFINE times == OwnTimes(doc, s, n)
              t == doc[n + 1].when
  <2>1. n + 1 \in 1..L /\ (n + 1) - 1 = n /\ n <= L
    BY <1>2
  <2>2. Holds(taken[n], times, cutoff)
    BY <1>8, <2>1
  <2>3. taken[n + 1] = Step(taken[n], n + 1)
    BY <1>6, <2>1
  <2>4. \A i : i \in 1..(n + 1) <=> i \in 1..n \/ i = n + 1
    OBVIOUS
  <2>5. CASE doc[n + 1].line # s
    <3>1. OwnTimes(doc, s, n + 1) = times
      BY <2>4, <2>5 DEF OwnTimes
    <3>. QED  BY <2>2, <2>3, <2>5, <3>1 DEF Step
  <2>6. CASE doc[n + 1].line = s
    <3>1. OwnTimes(doc, s, n + 1) = times \cup {t}
      BY <2>4, <2>6 DEF OwnTimes
    <3>2. t \in Int /\ t > 0
      BY <2>1, <2>6 DEF OwnAscend, L
    <3>3. \A i \in 1..n : i \in 1..L /\ i < n + 1
      BY <2>1, <1>2
    <3>4. \A x \in times : x \in Int /\ 0 < x /\ x < t
      <4>. SUFFICES ASSUME NEW i \in 1..n, doc[i].line = s
           PROVE doc[i].when \in Int /\ 0 < doc[i].when /\ doc[i].when < t
        BY DEF OwnTimes
      <4>1. i \in 1..Len(doc) /\ n + 1 \in 1..Len(doc) /\ i < n + 1
        BY <2>1, <3>3 DEF L
      <4>. QED  BY <2>6, <4>1 DEF OwnAscend
    <3>5. taken[n + 1] = TakeDeparture(taken[n], t, cutoff)
      BY <2>3, <2>6 DEF Step
    <3>. HIDE DEF times, t
    <3>6. times \in SUBSET Int
      BY <3>4
    <3>. QED  BY <2>2, <3>1, <3>2, <3>4, <3>5, <3>6, TakeHolds
  <2>. QED  BY <2>5, <2>6
<1>9. L \in Good
  <2>. HIDE DEF Good
  <2>1. Nat \subseteq Good
    BY <1>7, <1>8, SetInduction
  <2>. QED  BY <1>2, <2>1
<1>. QED  BY <1>1, <1>2, <1>9 DEF L

(***************************************************************************)
(* The calendar.                                                           *)
(***************************************************************************)
\* Two multiples of a day that are less than a day apart are the same.
LEMMA SameMultiple ==
  ASSUME NEW j \in Int, NEW k \in Int, j * Day - k * Day < Day, k * Day - j * Day < Day
  PROVE  j = k
<1>1. Day \in Nat /\ Day > 0
  BY ScheduleAssumption
<1>2. ASSUME NEW a \in Int, NEW b \in Int, a * Day - b * Day < Day, a > b PROVE FALSE
  <2>1. (a - b) * Day = a * Day - b * Day
    BY <1>1
  <2>2. (a - b) * Day >= Day
    BY <1>1, <1>2
  <2>. QED  BY <1>1, <1>2, <2>1, <2>2
<1>. QED  BY <1>2

\* Midnight begins the day t is in.
LEMMA MidnightFacts ==
  ASSUME NEW t \in Int
  PROVE  /\ Midnight(t) \in Int /\ Midnight(t) <= t /\ t < Midnight(t) + Day
         /\ t >= Day => Midnight(t) >= Day
<1>. DEFINE k == t \div Day
<1>1. Day \in Nat /\ Day > 0
  BY ScheduleAssumption
<1>2. k \in Int /\ t = Day * k + (t % Day) /\ t % Day \in 0..(Day - 1)
  BY <1>1
<1>. HIDE DEF k
<1>3. k * Day = Day * k /\ k * Day \in Int
  BY <1>1, <1>2
<1>4. t >= Day => k * Day >= Day
  <2>. SUFFICES ASSUME t >= Day, k < 1 PROVE FALSE
    <3>1. k >= 1 => k * Day >= Day
      BY <1>1, <1>2
    <3>. QED  BY <1>2, <3>1
  <2>1. Day * k <= 0
    BY <1>1, <1>2
  <2>. QED  BY <1>1, <1>2, <2>1
<1>. QED  BY <1>1, <1>2, <1>3, <1>4 DEF Midnight, k

\* The query asks for departures from an instant of the day of the refresh on.
LEMMA QueryTimeFacts ==
  ASSUME NEW t \in Day..((LastDay + 1) * Day - 1)
  PROVE  QueryTime(t) \in 0..((LastDay + 1) * Day) /\ 0 < QueryTime(t) /\ QueryTime(t) <= t
<1>1. Day \in Nat /\ Day > 0 /\ LastDay \in Nat /\ QueryHour \in 0..(Day - 1)
  BY ScheduleAssumption
<1>. DEFINE M == (LastDay + 1) * Day
<1>2. M \in Int
  BY <1>1
<1>. HIDE DEF M
<1>3. t \in Day..(M - 1) /\ t \in Int
  BY <1>1, <1>2 DEF M
<1>4. Midnight(t) \in Int /\ Midnight(t) >= Day
  BY <1>1, <1>2, <1>3, MidnightFacts
<1>5. QueryTime(t) \in 0..M /\ 0 < QueryTime(t) /\ QueryTime(t) <= t
  BY <1>1, <1>2, <1>3, <1>4 DEF QueryTime
<1>. QED  BY <1>5 DEF M

\* What computeCutoff computes is the next cutoff of the calendar.
LEMMA CutoffIsNext ==
  ASSUME NEW t \in Int
  PROVE  ComputeCutoff(t) = NextCutoff(t) /\ ComputeCutoff(t) \in Int /\ ComputeCutoff(t) > t
<1>. DEFINE c == ComputeCutoff(t)
<1>1. Day \in Nat /\ Day > 0 /\ CutoffHour \in 0..(Day - 1)
  BY ScheduleAssumption
<1>2. Midnight(t) \in Int /\ Midnight(t) <= t /\ t < Midnight(t) + Day
  BY MidnightFacts
<1>3. c \in (t + 1)..(t + Day)
  BY <1>1, <1>2 DEF ComputeCutoff
<1>4. \E k \in Int : c = k * Day + CutoffHour
  <2>. DEFINE k == t \div Day
  <2>1. k \in Int
    BY <1>1
  <2>2. Midnight(t) = k * Day /\ Midnight(t) + Day = (k + 1) * Day
    <3>1. Midnight(t) = k * Day
      BY DEF Midnight
    <3>. HIDE DEF k
    <3>. QED  BY <1>1, <2>1, <3>1
  <2>. HIDE DEF k
  <2>3. c = k * Day + CutoffHour \/ c = (k + 1) * Day + CutoffHour
    BY <1>1, <2>1, <2>2 DEF ComputeCutoff
  <2>. QED  BY <2>1, <2>3
<1>5. ASSUME NEW d \in Int, NEW k \in Int, NEW r \in 0..(Day - 1), d = k * Day + r
      PROVE  d % Day = r
  <2>. DEFINE j == d \div Day
  <2>1. j \in Int /\ d = Day * j + (d % Day) /\ d % Day \in 0..(Day - 1)
    BY <1>1
  <2>. HIDE DEF j
  <2>2. Day * j = j * Day /\ j * Day \in Int /\ k * Day \in Int
    BY <1>1, <2>1
  <2>3. j = k
    BY <1>1, <1>5, <2>1, <2>2, SameMultiple
  <2>. QED  BY <1>1, <1>5, <2>1, <2>2, <2>3
<1>6. c \in Int /\ c % Day = CutoffHour
  BY <1>1, <1>3, <1>4, <1>5
<1>. HIDE DEF c
<1>7. ASSUME NEW d \in (t + 1)..(t + Day), d % Day = CutoffHour PROVE d = c
  <2>. DEFINE j == d \div Day
  <2>1. j \in Int /\ d = Day * j + CutoffHour /\ d \in Int
    BY <1>1, <1>7
  <2>. HIDE DEF j
  <2>2. PICK k \in Int : c = k * Day + CutoffHour
    BY <1>4
  <2>3. Day * j = j * Day /\ j * Day \in Int /\ k * Day \in Int
    BY <1>1, <2>1
  <2>4. j = k
    BY <1>1, <1>3, <1>7, <2>1, <2>2, <2>3, SameMultiple
  <2>. QED  BY <2>1, <2>2, <2>3, <2>4
<1>8. c = CHOOSE d \in (t + 1)..(t + Day) : d % Day = CutoffHour
  BY <1>3, <1>6, <1>7
<1>. QED  BY <1>1, <1>3, <1>8 DEF NextCutoff, c

(***************************************************************************)
(* What the endpoint answers.                                              *)
(***************************************************************************)
Horizon == (LastDay + 3) * Day

\* The timetable of the days of a behaviour is finite.
LEMMA DeparturesFacts ==
  ASSUME NEW line \in Lines
  PROVE  Departures(line) \in SUBSET (0..Horizon) /\ Horizon \in Nat /\ IsFiniteSet(Departures(line))
<1>1. Day \in Nat /\ Day > 0 /\ LastDay \in Nat /\ Timetable[line] \in SUBSET (0..(Day - 1))
  BY ScheduleAssumption
<1>2. Horizon \in Nat /\ Horizon = (LastDay + 2) * Day + Day
  BY <1>1 DEF Horizon
<1>3. ASSUME NEW d \in 0..(LastDay + 2), NEW x \in Timetable[line] PROVE d * Day + x \in 0..Horizon
  <2>1. x \in 0..(Day - 1)
    BY <1>1
  <2>2. d * Day \in Nat /\ (LastDay + 2) * Day \in Nat /\ d * Day <= (LastDay + 2) * Day
    <3>1. (LastDay + 2) * Day - d * Day = ((LastDay + 2) - d) * Day
      BY <1>1
    <3>2. ((LastDay + 2) - d) * Day >= 0 /\ d * Day >= 0 /\ d * Day \in Int /\ (LastDay + 2) * Day \in Int
      BY <1>1
    <3>. QED  BY <1>1, <3>1, <3>2
  <2>. QED  BY <1>1, <1>2, <2>1, <2>2
<1>4. Departures(line) \in SUBSET (0..Horizon)
  BY <1>3 DEF Departures
<1>5. IsFiniteSet(0..Horizon)
  BY <1>2, FS_Interval
<1>. QED  BY <1>2, <1>4, <1>5, FS_Subset

\* An answer has the departures of a stream from the query on in order, and
\* what it leaves out is later than what it has.
LEMMA AnswerFacts ==
  ASSUME NEW s \in ToSet(Streams), Diva[s] \in Divas, NEW q \in Int, q > 0
  PROVE  LET doc == AnswerTo(Diva[s], q)
             own == OwnTimes(doc, s, Len(doc))
         IN  /\ Len(doc) \in Nat /\ DOMAIN doc = 1..Len(doc) /\ OwnAscend(doc, s)
             /\ \A x \in own : x \in Departures(s) /\ x >= q
             /\ \A d \in Departures(s) : d >= q /\ d \notin own => \A x \in own : x < d
<1>. DEFINE E == [line : Lines, when : Int]
            C == UNION {{[line |-> l, when |-> d] : d \in {d \in Departures(l) : d >= q}}
                          : l \in {l \in Lines : StopOf[l] = Diva[s]}}
            list == FoldSet(LAMBDA d, sorted : Place(sorted, d), <<>>, C)
            m == IF Len(list) < Limit THEN Len(list) ELSE Limit
            doc == AnswerTo(Diva[s], q)
<1>1. s \in Lines /\ StopOf[s] = Diva[s]
  BY ScheduleAssumption DEF Divas
<1>2. Timed(E)
  BY DEF Timed
<1>3. C \in SUBSET E /\ IsFiniteSet(C)
  <2>. DEFINE P == Lines \X (0..Horizon)
              f == [x \in P |-> [line |-> x[1], when |-> x[2]]]
              Q == {f[x] : x \in P}
  <2>1. IsFiniteSet(P)
    <3>1. IsFiniteSet(Lines) /\ Horizon \in Nat
      BY <1>1, ScheduleAssumption, DeparturesFacts
    <3>2. IsFiniteSet(0..Horizon)
      BY <3>1, FS_Interval
    <3>. QED  BY <3>1, <3>2, FS_Product
  <2>2. IsFiniteSet(Q)
    <3>1. f \in Surjection(P, Q)
      <4>. HIDE DEF P
      <4>. QED  BY DEF Surjection
    <3>. HIDE DEF P, f, Q
    <3>. QED  BY <2>1, <3>1, FS_Surjection
  <2>3. \A l \in Lines : \A d \in Departures(l) : d \in 0..Horizon /\ d \in Int
    BY DeparturesFacts
  <2>4. C \in SUBSET E
    BY <2>3
  <2>5. C \in SUBSET Q
    <3>1. ASSUME NEW l \in Lines, NEW d \in Departures(l) PROVE [line |-> l, when |-> d] \in Q
      <4>1. <<l, d>> \in P
        BY <2>3
      <4>2. f[<<l, d>>] = [line |-> l, when |-> d]
        BY <4>1
      <4>. HIDE DEF P, f
      <4>. QED  BY <4>1, <4>2
    <3>. HIDE DEF Q
    <3>. QED  BY <3>1
  <2>. HIDE DEF Q, C
  <2>. QED  BY <2>2, <2>4, <2>5, FS_Subset
<1>4. \A x : [line |-> s, when |-> x] \in C <=> x \in Departures(s) /\ x >= q
  <2>1. \A x : x \in Departures(s) /\ x >= q => [line |-> s, when |-> x] \in C
    BY <1>1
  <2>2. ASSUME NEW x, [line |-> s, when |-> x] \in C PROVE x \in Departures(s) /\ x >= q
    <3>0. PICK l \in Lines : \E d \in Departures(l) : d >= q /\ [line |-> s, when |-> x] = [line |-> l, when |-> d]
      BY <2>2
    <3>1. PICK d \in Departures(l) : d >= q /\ [line |-> s, when |-> x] = [line |-> l, when |-> d]
      BY <3>0
    <3>2. s = l /\ x = d
      BY <3>1
    <3>. QED  BY <3>1, <3>2
  <2>. QED  BY <2>1, <2>2
<1>5. doc = SubSeq(list, 1, m)
  BY DEF AnswerTo
<1>6. list \in Seq(E) /\ Lists(list, C)
  <2>. HIDE DEF C, E
  <2>. QED  BY <1>2, <1>3, FoldLists
<1>7. Limit \in Nat
  BY ScheduleAssumption
<1>. HIDE DEF list, C, doc
<1>. DEFINE L == Len(list)
<1>8. L \in Nat /\ m \in 0..L /\ m \in Nat
  BY <1>6, <1>7
<1>. HIDE DEF m
<1>9. Len(doc) = m /\ DOMAIN doc = 1..m /\ \A i \in 1..m : doc[i] = list[i] /\ i \in 1..L
  <2>1. \A i \in 1..m : i \in 1..L
    BY <1>8
  <2>. HIDE DEF E
  <2>2. \A i \in 1..L : list[i] \in E
    BY <1>6
  <2>3. doc \in Seq(E) /\ Len(doc) = m /\ \A i \in 1..m : doc[i] = list[i]
    <3>1. \A i \in 1..m : list[i] \in E
      BY <2>1, <2>2
    <3>. QED  BY <1>5, <1>6, <1>8, <3>1
  <2>. QED  BY <1>8, <2>1, <2>3
<1>10. \A i \in 1..L : list[i] \in C /\ list[i] \in E /\ list[i] = [line |-> list[i].line, when |-> list[i].when]
  <2>1. \A e \in E : e = [line |-> e.line, when |-> e.when]
    OBVIOUS
  <2>. HIDE DEF E
  <2>. QED  BY <1>3, <1>6, <2>1 DEF Lists
<1>11. \A i \in 1..L : list[i].line = s => list[i].when \in Departures(s) /\ list[i].when >= q
  BY <1>4, <1>10
<1>12. \A i \in 1..L : list[i].when \in Int
  BY <1>10
<1>. HIDE DEF E
<1>13. \A i, j \in 1..L : i < j => list[i].when <= list[j].when
  BY <1>6 DEF Lists, Sorted
<1>14. \A i, j \in 1..L : list[i] = list[j] => i = j
  BY <1>6 DEF Lists
<1>15. \A i, j \in 1..L : i < j /\ list[i].line = s /\ list[j].line = s => list[i].when < list[j].when
  <2>. SUFFICES ASSUME NEW i \in 1..L, NEW j \in 1..L, i < j, list[i].line = s, list[j].line = s
       PROVE  list[i].when < list[j].when
    OBVIOUS
  <2>1. i # j
    BY <1>8
  <2>2. list[i].when # list[j].when
    BY <1>10, <1>14, <2>1
  <2>3. list[i].when <= list[j].when
    BY <1>13
  <2>. QED  BY <1>12, <2>2, <2>3
<1>16. OwnAscend(doc, s)
  <2>1. ASSUME NEW i \in 1..m, doc[i].line = s PROVE doc[i].when \in Int /\ doc[i].when > 0
    BY <1>9, <1>11, <1>12, <2>1
  <2>2. \A i, j \in 1..m : i < j /\ doc[i].line = s /\ doc[j].line = s => doc[i].when < doc[j].when
    BY <1>9, <1>15
  <2>. QED  BY <1>9, <2>1, <2>2 DEF OwnAscend
<1>. DEFINE own == OwnTimes(doc, s, Len(doc))
<1>17. own = {list[i].when : i \in {i \in 1..m : list[i].line = s}}
  BY <1>9 DEF OwnTimes
<1>. HIDE DEF own
<1>18. \A x \in own : x \in Departures(s) /\ x >= q
  BY <1>9, <1>11, <1>17
<1>19. ASSUME NEW d \in Departures(s), d >= q, d \notin own, NEW x \in own PROVE x < d
  <2>1. [line |-> s, when |-> d] \in C
    BY <1>4, <1>19
  <2>2. PICK k \in 1..L : list[k] = [line |-> s, when |-> d]
    BY <1>6, <2>1 DEF Lists
  <2>3. list[k].line = s /\ list[k].when = d
    BY <2>2
  <2>4. k \notin 1..m
    BY <1>17, <1>19, <2>3
  <2>5. PICK i \in 1..m : list[i].line = s /\ list[i].when = x
    BY <1>17, <1>19
  <2>6. i \in 1..L /\ i < k
    BY <1>8, <1>9, <2>4
  <2>. QED  BY <1>15, <2>3, <2>5, <2>6
<1>. QED  BY <1>9, <1>8, <1>16, <1>18, <1>19 DEF doc, own

(***************************************************************************)
(* The inductive invariant: a hint is empty, or it is what its stream got  *)
(* out of the answer to the refresh that replaced it last.                 *)
(***************************************************************************)
Answered(s) == EfaAnswer[Diva[s]][QueryTime(took[s])]

HintInv ==
  /\ now \in Day..((LastDay + 1) * Day - 1)
  /\ \A s \in ToSet(Streams) :
       \/ took[s] = 0 /\ hint[s] = NoHint
       \/ /\ took[s] \in Day..now /\ Diva[s] \in Divas
          /\ hint[s] = ConsumeEfaDoc(Answered(s), s, ComputeCutoff(took[s]))

\* HintInv holds in every reachable state (schedule_fetcher.cpp,
\* schedule_refresh.cpp).
THEOREM HintInvariant == Spec => []HintInv
<1>. DEFINE M == (LastDay + 1) * Day - 1
<1>1. Day \in Nat /\ Day > 0 /\ M \in Int /\ 2 * Day <= M + 1
  <2>1. Day \in Nat /\ Day > 0 /\ LastDay \in Nat /\ LastDay > 0
    BY ScheduleAssumption
  <2>2. (LastDay + 1) * Day = LastDay * Day + Day /\ LastDay * Day \in Int
    BY <2>1
  <2>3. LastDay * Day >= Day
    BY <2>1
  <2>. QED  BY <2>1, <2>2, <2>3
<1>2. Init => HintInv
  <2>. SUFFICES ASSUME Init PROVE HintInv
    OBVIOUS
  <2>1. now \in Day..M
    <3>1. PICK b \in Boots : now = Day + b
      BY DEF Init
    <3>2. b \in 0..(Day - 1)
      BY ScheduleAssumption
    <3>. HIDE DEF M
    <3>. QED  BY <1>1, <3>1, <3>2
  <2>2. \A s \in ToSet(Streams) : took[s] = 0 /\ hint[s] = NoHint
    BY DEF Init
  <2>. QED  BY <2>1, <2>2 DEF HintInv
<1>3. HintInv /\ [Next]_vars => HintInv'
  <2>. SUFFICES ASSUME HintInv, [Next]_vars PROVE HintInv'
    OBVIOUS
  <2>0. now \in Day..M
    BY DEF HintInv
  <2>1. CASE UNCHANGED vars
    BY <2>1 DEF HintInv, vars, Answered
  <2>2. CASE Tick
    <3>1. now' \in Day..M /\ now < now'
      <4>1. now < (LastDay + 1) * Day - 1 /\ now' = now + 1
        BY <2>2 DEF Tick
      <4>2. now < M
        BY <4>1
      <4>. HIDE DEF M
      <4>. QED  BY <1>1, <2>0, <4>1, <4>2
    <3>2. hint' = hint /\ took' = took
      BY <2>2 DEF Tick
    <3>3. \A t : t \in Day..now => t \in Day..now'
      <4>. HIDE DEF M
      <4>. QED  BY <1>1, <2>0, <3>1
    <3>4. \A s \in ToSet(Streams) : Answered(s)' = Answered(s)
      BY <3>2 DEF Answered
    <3>. QED  BY <3>1, <3>2, <3>3, <3>4 DEF HintInv
  <2>3. CASE Refresh
    <3>1. now' = now
      BY <2>3 DEF Refresh
    <3>2. PICK answered \in [Divas -> CallOk] :
            IF \E d \in Divas : answered[d]
            THEN Apply(FetchSchedule(answered)) /\ fetchedAt' = now
            ELSE UNCHANGED <<hint, took, fetchedAt>>
      BY <2>3 DEF Refresh
    <3>3. CASE UNCHANGED <<hint, took>>
      BY <3>1, <3>3 DEF HintInv, Answered
    <3>4. CASE Apply(FetchSchedule(answered))
      <4>. DEFINE r == FetchSchedule(answered)
      <4>1. ASSUME NEW s \in ToSet(Streams)
            PROVE  \/ took'[s] = took[s] /\ hint'[s] = hint[s]
                   \/ took'[s] = now /\ hint'[s] = r[s] /\ Carries(r[s])
        BY <3>4 DEF Apply
      <4>2. ASSUME NEW s \in ToSet(Streams), Carries(r[s])
            PROVE  /\ Diva[s] \in Divas
                   /\ r[s] = ConsumeEfaDoc(EfaAnswer[Diva[s]][QueryTime(now)], s, ComputeCutoff(now))
        <5>1. ~Carries(NoHint)
          BY DEF Carries, NoHint
        <5>2. \/ r[s] = NoHint
              \/ Diva[s] \in Divas /\ r[s] = ConsumeEfaDoc(EfaAnswer[Diva[s]][QueryTime(now)], s, ComputeCutoff(now))
          BY DEF FetchSchedule
        <5>. HIDE DEF r
        <5>. QED  BY <4>2, <5>1, <5>2
      <4>. HIDE DEF r
      <4>3. now \in Day..now
        <5>. HIDE DEF M
        <5>. QED  BY <1>1, <2>0
      <4>4. ASSUME NEW s \in ToSet(Streams)
            PROVE  \/ took'[s] = 0 /\ hint'[s] = NoHint
                   \/ /\ took'[s] \in Day..now /\ Diva[s] \in Divas
                      /\ hint'[s] = ConsumeEfaDoc(EfaAnswer[Diva[s]][QueryTime(took'[s])], s, ComputeCutoff(took'[s]))
        <5>1. CASE took'[s] = took[s] /\ hint'[s] = hint[s]
          BY <5>1 DEF HintInv, Answered
        <5>2. CASE took'[s] = now /\ hint'[s] = r[s] /\ Carries(r[s])
          BY <4>2, <4>3, <5>2
        <5>. QED  BY <4>1, <5>1, <5>2
      <4>. QED  BY <2>0, <3>1, <4>4 DEF HintInv, Answered
    <3>. QED  BY <3>2, <3>3, <3>4
  <2>. QED  BY <2>1, <2>2, <2>3 DEF Next
<1>. QED  BY <1>2, <1>3, PTL DEF Spec

\* A hint that was replaced holds what it should of its answer.
LEMMA HintHolds ==
  ASSUME HintInv, NEW s \in ToSet(Streams), took[s] # 0
  PROVE  LET f == took[s]
             doc == AnswerTo(Diva[s], QueryTime(f))
         IN  /\ f \in Int /\ Day <= f /\ f <= now /\ Diva[s] \in Divas
             /\ QueryTime(f) \in Int /\ 0 < QueryTime(f) /\ QueryTime(f) <= f
             /\ Answered(s) = doc
             /\ Holds(hint[s], OwnTimes(doc, s, Len(doc)), ComputeCutoff(f))
<1>. DEFINE f == took[s]
            M == (LastDay + 1) * Day
            doc == AnswerTo(Diva[s], QueryTime(f))
<1>1. /\ now \in Day..(M - 1) /\ f \in Day..now /\ Diva[s] \in Divas
      /\ hint[s] = ConsumeEfaDoc(Answered(s), s, ComputeCutoff(f))
  BY DEF HintInv
<1>2. Day \in Nat /\ Day > 0 /\ LastDay \in Nat
  BY ScheduleAssumption
<1>3. M \in Int
  BY <1>2
<1>. HIDE DEF f
<1>4. f \in Int /\ f \in Day..(M - 1) /\ Day <= f /\ f <= now
  <2>. HIDE DEF M
  <2>. QED  BY <1>1, <1>2, <1>3
<1>5. QueryTime(f) \in 0..M /\ 0 < QueryTime(f) /\ QueryTime(f) <= f
  BY <1>4, QueryTimeFacts
<1>6. QueryTime(f) \in Int
  <2>. HIDE DEF M
  <2>. QED  BY <1>3, <1>5
<1>7. Answered(s) = doc
  BY <1>1, <1>5 DEF Answered, EfaAnswer, f
<1>8. Len(doc) \in Nat /\ OwnAscend(doc, s)
  BY <1>1, <1>5, <1>6, AnswerFacts
<1>9. ComputeCutoff(f) \in Int
  BY <1>4, CutoffIsNext
<1>10. Holds(hint[s], OwnTimes(doc, s, Len(doc)), ComputeCutoff(f))
  <2>. HIDE DEF doc
  <2>. QED  BY <1>1, <1>7, <1>8, <1>9, ConsumeHolds
<1>. QED  BY <1>1, <1>4, <1>5, <1>6, <1>7, <1>10 DEF f, doc

\* Every hint has the shape the merge expects.
LEMMA HintTyped ==
  ASSUME HintInv, NEW s \in ToSet(Streams)
  PROVE  hint[s] \in HintType
<1>1. CASE took[s] # 0
  BY <1>1, HintHolds DEF Holds
<1>2. CASE took[s] = 0
  <2>1. took[s] \notin Day..now
    BY <1>2, ScheduleAssumption DEF HintInv
  <2>2. hint[s] = NoHint
    BY <2>1 DEF HintInv
  <2>. QED  BY <2>2 DEF NoHint, HintType
<1>. QED  BY <1>1, <1>2

Shown == [when : Int, source : {"Realtime", "Hint"}]

\* The departures a row is merged from.
LEMMA OfferedTyped ==
  ASSUME HintInv, NEW s \in ToSet(Streams), NEW rt \in Realtimes \cup {<<>>}
  PROVE  rt \o Hints(HintTimes(s)) \in Seq(Shown)
<1>1. rt \in Seq(Shown)
  <2>1. CASE rt \in Realtimes
    <3>1. PICK r \in BoundedSeq(Delays, MaxSlots) :
            rt = [i \in DOMAIN r |-> Departure(now + r[i], "Realtime")]
      BY <2>1 DEF Realtimes
    <3>2. PICK m \in 0..MaxSlots : r \in [1..m -> Delays]
      BY <3>1 DEF BoundedSeq, SeqOf
    <3>3. now \in Int /\ Delays \in SUBSET Int /\ m \in Nat
      <4>1. (LastDay + 1) * Day - 1 \in Int /\ Day \in Int /\ Delays \in SUBSET Int
        BY ScheduleAssumption
      <4>2. now \in Day..((LastDay + 1) * Day - 1)
        BY DEF HintInv
      <4>. HIDE DEF HintInv
      <4>. QED  BY <4>1, <4>2, MergerAssumption
    <3>4. rt = [i \in 1..m |-> Departure(now + r[i], "Realtime")]
      BY <3>1, <3>2
    <3>5. \A x \in Int : Departure(x, "Realtime") \in Shown
      BY DEF Departure, Shown
    <3>6. ASSUME NEW i \in 1..m PROVE now + r[i] \in Int
      <4>1. r[i] \in Delays
        BY <3>2
      <4>2. r[i] \in Int
        BY <3>3, <4>1
      <4>. QED  BY <3>3, <4>2
    <3>7. rt \in [1..m -> Shown]
      BY <3>4, <3>5, <3>6
    <3>. QED  BY <3>3, <3>7
  <2>2. <<>> \in Seq(Shown)
    OBVIOUS
  <2>. QED  BY <2>1, <2>2
<1>2. HintTimes(s) \in Seq(Int)
  <2>1. hint[s] \in HintType
    BY HintTyped
  <2>2. hint[s].next_today \in Int \X Int /\ hint[s].first_tomorrow \in Int \X Int
    BY <2>1 DEF HintType
  <2>3. ASSUME NEW p \in Int \X Int PROVE p \in Seq(Int)
    <3>1. p = <<p[1], p[2]>> /\ p[1] \in Int /\ p[2] \in Int
      OBVIOUS
    <3>2. <<p[1], p[2]>> \in Seq(Int)
      BY <3>1
    <3>. QED  BY <3>1, <3>2
  <2>. QED  BY <2>2, <2>3 DEF HintTimes
<1>3. Hints(HintTimes(s)) \in Seq(Shown)
  <2>. DEFINE h == HintTimes(s)
  <2>. HIDE DEF h
  <2>1. h \in Seq(Int) => Hints(h) \in Seq(Shown)
    <3>. SUFFICES ASSUME h \in Seq(Int) PROVE Hints(h) \in Seq(Shown)
      OBVIOUS
    <3>1. Hints(h) = [i \in 1..Len(h) |-> Departure(h[i], "Hint")]
      BY DEF Hints
    <3>2. \A i \in 1..Len(h) : Departure(h[i], "Hint") \in Shown
      BY DEF Departure, Shown
    <3>. QED  BY <3>1, <3>2
  <2>. QED  BY <1>2, <2>1 DEF h
<1>. QED  BY <1>1, <1>3

\* In every reachable state, whatever realtime departures arrive, the row is
\* the next departures of both (slot_merger.cpp:23-55, 59-95).
THEOREM RowShowsNext == Spec => []RowIsNextDepartures
<1>1. HintInv => RowIsNextDepartures
  <2>. SUFFICES ASSUME HintInv, NEW s \in ToSet(Streams), NEW rt \in Realtimes
       PROVE  Row(rt, s) = NextDepartures(rt, HintTimes(s), now)
    BY DEF RowIsNextDepartures
  <2>1. rt \o Hints(HintTimes(s)) \in Seq(Shown)
    BY OfferedTyped
  <2>2. Timed(Shown)
    BY DEF Timed, Shown
  <2>. QED  BY <2>1, <2>2, MergeIsNext DEF Row
<1>. QED  BY <1>1, HintInvariant, PTL

(***************************************************************************)
(* The departures the hints bridge.                                        *)
(***************************************************************************)
\* Fewer than two: any two are the same.
LEMMA FewerThanTwo ==
  ASSUME NEW S, IsFiniteSet(S)
  PROVE  Cardinality(S) < 2 <=> \A x, y \in S : x = y
<1>1. Cardinality(S) \in Nat
  BY FS_CardinalityType
<1>2. ASSUME Cardinality(S) < 2, NEW x \in S, NEW y \in S PROVE x = y
  <2>1. Cardinality(S) = 0 \/ Cardinality(S) = 1
    BY <1>1, <1>2
  <2>2. Cardinality(S) = 0 => S = {}
    BY FS_EmptySet
  <2>3. Cardinality(S) = 1 => \E z : S = {z}
    BY FS_Singleton
  <2>. QED  BY <1>2, <2>1, <2>2, <2>3
<1>3. ASSUME \A x, y \in S : x = y PROVE Cardinality(S) < 2
  <2>1. CASE S = {}
    BY <2>1, FS_EmptySet
  <2>2. CASE S # {}
    <3>1. PICK x \in S : S = {x}
      BY <1>3, <2>2
    <3>2. Cardinality(S) = 1
      BY <3>1, FS_Singleton
    <3>. QED  BY <3>2
  <2>. QED  BY <2>1, <2>2
<1>. QED  BY <1>2, <1>3

\* Of the two last before the cutoff, those still ahead at t: whether times
\* also counts departures before t makes no difference.
LEMMA LastTwoAhead ==
  ASSUME NEW times \in SUBSET Int, NEW pair, TwoLast(pair, times),
         NEW before \in SUBSET times, IsFiniteSet(before),
         NEW t \in Int, t > 0, \A x \in times : x >= t => x \in before,
         NEW x \in Int, x >= t
  PROVE  x = pair[1] \/ x = pair[2] <=> x \in before /\ Cardinality({e \in before : e > x}) < 2
<1>. DEFINE later == {e \in before : e > x}
<1>1. IsFiniteSet(later)
  <2>1. later \in SUBSET before
    OBVIOUS
  <2>. HIDE DEF later
  <2>. QED  BY <2>1, FS_Subset
<1>2. Cardinality(later) < 2 <=> \A d, e \in later : d = e
  <2>. HIDE DEF later
  <2>. QED  BY <1>1, FewerThanTwo
<1>3. \A e \in later : e \in before /\ e \in times /\ e \in Int /\ e > x
  OBVIOUS
<1>8. \A e \in before : e > x => e \in later
  OBVIOUS
<1>. HIDE DEF later
<1>4. CASE times = {} /\ pair = <<0, 0>>
  BY <1>4
<1>5. CASE \E b \in times : times = {b} /\ pair = <<0, b>>
  <2>1. PICK b \in times : times = {b} /\ pair = <<0, b>>
    BY <1>5
  <2>2. pair[1] = 0 /\ pair[2] = b /\ x # 0
    BY <2>1
  <2>3. \A d, e \in later : d = e
    BY <1>3, <2>1
  <2>4. x \in before <=> x = b
    BY <2>1
  <2>. QED  BY <1>2, <2>2, <2>3, <2>4 DEF later
<1>6. CASE \E a, b \in times : a < b /\ pair = <<a, b>> /\ \A y \in times : y = b \/ y <= a
  <2>1. PICK a, b \in times : a < b /\ pair = <<a, b>> /\ \A y \in times : y = b \/ y <= a
    BY <1>6
  <2>2. pair[1] = a /\ pair[2] = b
    BY <2>1
  <2>3. ASSUME x = a \/ x = b PROVE x \in before /\ \A d, e \in later : d = e
    <3>1. x \in before
      BY <2>3
    <3>2. ASSUME NEW d \in later PROVE d = b
      <4>1. d \in times /\ d \in Int /\ d > x
        BY <1>3
      <4>2. d = b \/ d <= a
        BY <2>1, <4>1
      <4>. QED  BY <2>1, <2>3, <4>1, <4>2
    <3>. QED  BY <3>1, <3>2
  <2>4. ASSUME x \in before, \A d, e \in later : d = e PROVE x = a \/ x = b
    <3>. SUFFICES ASSUME x < a PROVE FALSE
      BY <2>1, <2>4
    <3>1. a \in before /\ b \in before /\ a > x /\ b > x
      BY <2>1
    <3>2. a \in later /\ b \in later
      BY <1>8, <3>1
    <3>. QED  BY <2>1, <2>4, <3>2
  <2>. QED  BY <1>2, <2>2, <2>3, <2>4 DEF later
<1>7. (times = {} /\ pair = <<0, 0>>) \/ (\E b \in times : times = {b} /\ pair = <<0, b>>)
        \/ \E a, b \in times : a < b /\ pair = <<a, b>> /\ \A y \in times : y = b \/ y <= a
  BY DEF TwoLast
<1>. QED  BY <1>4, <1>5, <1>6, <1>7 DEF later

\* The first two after the cutoff are those of the timetable, when two are
\* there: what an answer leaves out is later.
LEMMA FirstTwoAhead ==
  ASSUME NEW times \in SUBSET Int, NEW pair, TwoFirst(pair, times), NEW c \in times, NEW d \in times, c # d,
         NEW after \in SUBSET Int, IsFiniteSet(after), times \in SUBSET after,
         \A x \in after : x \in times \/ \A y \in times : y < x,
         NEW x \in Int
  PROVE  x = pair[1] \/ x = pair[2] <=> x \in after /\ Cardinality({e \in after : e < x}) < 2
<1>. DEFINE earlier == {e \in after : e < x}
<1>1. IsFiniteSet(earlier)
  <2>1. earlier \in SUBSET after
    OBVIOUS
  <2>. HIDE DEF earlier
  <2>. QED  BY <2>1, FS_Subset
<1>2. Cardinality(earlier) < 2 <=> \A y, e \in earlier : y = e
  <2>. HIDE DEF earlier
  <2>. QED  BY <1>1, FewerThanTwo
<1>3. \A e \in earlier : e \in after /\ e \in Int /\ e < x
  OBVIOUS
<1>9. \A e \in after : e < x => e \in earlier
  OBVIOUS
<1>. HIDE DEF earlier
<1>4. PICK a, b \in times : a < b /\ pair = <<a, b>> /\ \A y \in times : y = a \/ b <= y
  BY DEF TwoFirst
<1>5. pair[1] = a /\ pair[2] = b
  BY <1>4
<1>6. \A y \in after : y = a \/ b <= y
  <2>. SUFFICES ASSUME NEW y \in after PROVE y = a \/ b <= y
    OBVIOUS
  <2>1. y \in times \/ b < y
    OBVIOUS
  <2>. QED  BY <1>4, <2>1
<1>7. ASSUME x = a \/ x = b PROVE x \in after /\ \A y, e \in earlier : y = e
  <2>1. x \in after
    BY <1>7
  <2>2. ASSUME NEW y \in earlier PROVE y = a
    <3>1. y \in after /\ y \in Int /\ y < x
      BY <1>3
    <3>2. y = a \/ b <= y
      BY <1>6, <3>1
    <3>. QED  BY <1>4, <1>7, <3>1, <3>2
  <2>. QED  BY <2>1, <2>2
<1>8. ASSUME x \in after, \A y, e \in earlier : y = e PROVE x = a \/ x = b
  <2>. SUFFICES ASSUME b < x PROVE FALSE
    BY <1>6, <1>8
  <2>1. a \in earlier /\ b \in earlier
    BY <1>4, <1>9
  <2>. QED  BY <1>4, <1>8, <2>1
<1>. QED  BY <1>2, <1>5, <1>7, <1>8 DEF earlier

Four(h) == {h.next_today[1], h.next_today[2], h.first_tomorrow[1], h.first_tomorrow[2]}

\* What Bridged names is a finite part of the timetable.
LEMMA BridgedFacts ==
  ASSUME NEW s \in Lines, NEW f
  PROVE  /\ IsFiniteSet(Bridged(s, f)) /\ \A x \in Bridged(s, f) : x \in Departures(s) /\ x \in Int
         /\ IsFiniteSet({x \in Coming(s, f) : x < NextCutoff(f)})
         /\ IsFiniteSet(Coming(s, NextCutoff(f)))
<1>1. IsFiniteSet(Departures(s)) /\ \A x \in Departures(s) : x \in Int
  BY DeparturesFacts
<1>2. /\ Bridged(s, f) \in SUBSET Departures(s)
      /\ {x \in Coming(s, f) : x < NextCutoff(f)} \in SUBSET Departures(s)
      /\ Coming(s, NextCutoff(f)) \in SUBSET Departures(s)
  BY DEF Bridged, Coming
<1>. QED  BY <1>1, <1>2, FS_Subset

\* As long as the answer reached past the cutoff, the times of the hint that
\* are still ahead are those the hint stands for.
LEMMA HintBridges ==
  ASSUME HintInv, NEW s \in ToSet(Streams), took[s] # 0, Reaches(s, took[s]), NEW x \in Int, x >= now
  PROVE  s \in Lines /\ (x \in Four(hint[s]) <=> x \in Bridged(s, took[s]))
<1>. DEFINE f == took[s]
            q == QueryTime(f)
            doc == AnswerTo(Diva[s], q)
            own == OwnTimes(doc, s, Len(doc))
            C == ComputeCutoff(f)
            A == {y \in own : y < C}
            B == {y \in own : y >= C}
            before == {y \in Coming(s, f) : y < C}
            after == Coming(s, C)
            p == hint[s].next_today
            r == hint[s].first_tomorrow
<1>1. /\ f \in Int /\ Day <= f /\ f <= now /\ Diva[s] \in Divas
      /\ q \in Int /\ 0 < q /\ q <= f
      /\ Answered(s) = doc
      /\ Holds(hint[s], own, C)
  BY HintHolds
<1>2. s \in Lines
  BY <1>1, ScheduleAssumption DEF Divas
<1>3. now \in Int /\ now > 0
  <2>1. (LastDay + 1) * Day - 1 \in Int /\ Day \in Int /\ Day > 0
    BY ScheduleAssumption
  <2>2. now \in Day..((LastDay + 1) * Day - 1)
    BY DEF HintInv
  <2>. HIDE DEF HintInv
  <2>. QED  BY <2>1, <2>2
<1>4. C = NextCutoff(f) /\ C \in Int /\ C > f
  <2>. HIDE DEF f
  <2>. QED  BY <1>1, CutoffIsNext
<1>5. /\ Len(doc) \in Nat /\ DOMAIN doc = 1..Len(doc) /\ OwnAscend(doc, s)
      /\ \A y \in own : y \in Departures(s) /\ y >= q
      /\ \A d \in Departures(s) : d >= q /\ d \notin own => \A y \in own : y < d
  <2>. HIDE DEF q
  <2>. QED  BY <1>1, AnswerFacts
<1>6. IsFiniteSet(before) /\ IsFiniteSet(after) /\ \A y \in Departures(s) : y \in Int
  BY <1>2, <1>4, BridgedFacts, DeparturesFacts
<1>7. \E c, d \in B : c # d
  <2>. DEFINE I == {i \in DOMAIN doc : doc[i].line = s /\ doc[i].when >= C}
  <2>1. Cardinality(I) >= 2
    BY <1>1, <1>4 DEF Reaches, Answered
  <2>2. IsFiniteSet(I)
    <3>1. IsFiniteSet(1..Len(doc)) /\ I \in SUBSET (1..Len(doc))
      BY <1>5, FS_Interval
    <3>. HIDE DEF I
    <3>. QED  BY <3>1, FS_Subset
  <2>3. ~(\A i, j \in I : i = j)
    <3>. HIDE DEF I
    <3>1. Cardinality(I) \in Nat
      BY <2>2, FS_CardinalityType
    <3>. QED  BY <2>1, <2>2, <3>1, FewerThanTwo
  <2>4. PICK i, j \in I : i # j
    BY <2>3
  <2>5. /\ i \in 1..Len(doc) /\ doc[i].line = s /\ doc[i].when >= C
        /\ j \in 1..Len(doc) /\ doc[j].line = s /\ doc[j].when >= C
    BY <1>5
  <2>6. doc[i].when # doc[j].when
    <3>1. i < j \/ j < i
      BY <2>4, <2>5
    <3>2. /\ \A k \in 1..Len(doc) : doc[k].line = s => doc[k].when \in Int
          /\ \A k, l \in 1..Len(doc) : k < l /\ doc[k].line = s /\ doc[l].line = s => doc[k].when < doc[l].when
      BY <1>5 DEF OwnAscend
    <3>. HIDE DEF doc, I
    <3>. QED  BY <2>5, <3>1, <3>2
  <2>7. doc[i].when \in B /\ doc[j].when \in B
    BY <2>5 DEF OwnTimes
  <2>. QED  BY <2>6, <2>7
<1>8. TwoLast(p, A) /\ TwoFirst(r, B) /\ p \in Int \X Int /\ r \in Int \X Int
  BY <1>1 DEF Holds, HintType
<1>. HIDE DEF f, q, doc, own, C
<1>9. own \in SUBSET Int
  BY <1>5, <1>6
<1>10. x = p[1] \/ x = p[2] <=> x \in before /\ Cardinality({e \in before : e > x}) < 2
  <2>1. before \in SUBSET A
    <3>. SUFFICES ASSUME NEW y \in Departures(s), y >= f, y < C PROVE y \in own
      BY DEF Coming
    <3>1. PICK c \in B : TRUE
      BY <1>7
    <3>2. c \in own /\ c >= C /\ c \in Int /\ y \in Int
      BY <1>6, <1>9
    <3>3. ~(c < y) /\ y >= q
      BY <1>1, <1>4, <3>2
    <3>. QED  BY <1>5, <3>2, <3>3
  <2>2. \A y \in A : y >= now => y \in before
    BY <1>1, <1>3, <1>5, <1>9 DEF Coming
  <2>3. A \in SUBSET Int
    BY <1>9
  <2>. HIDE DEF A, before, p
  <2>. QED  BY <1>3, <1>6, <1>8, <2>1, <2>2, <2>3, LastTwoAhead
<1>11. x = r[1] \/ x = r[2] <=> x \in after /\ Cardinality({e \in after : e < x}) < 2
  <2>1. B \in SUBSET after
    BY <1>5 DEF Coming
  <2>2. \A y \in after : y \in B \/ \A z \in B : z < y
    <3>. SUFFICES ASSUME NEW y \in Departures(s), y >= C, y \notin own, NEW z \in own PROVE z < y
      BY DEF Coming
    <3>1. y >= q
      BY <1>1, <1>4, <1>6
    <3>. QED  BY <1>5, <3>1
  <2>3. after \in SUBSET Int /\ B \in SUBSET Int
    BY <1>6, <1>9 DEF Coming
  <2>4. PICK c, d \in B : c # d
    BY <1>7
  <2>. HIDE DEF B, after, r
  <2>. QED  BY <1>6, <1>8, <2>1, <2>2, <2>3, <2>4, FirstTwoAhead
<1>12. x \in Bridged(s, f) <=> \/ x \in before /\ Cardinality({e \in before : e > x}) < 2
                               \/ x \in after /\ Cardinality({e \in after : e < x}) < 2
  BY <1>4 DEF Bridged
<1>13. x \in Four(hint[s]) <=> (x = p[1] \/ x = p[2]) \/ (x = r[1] \/ x = r[2])
  BY DEF Four
<1>. QED  BY <1>2, <1>10, <1>11, <1>12, <1>13 DEF f

\* A row that shows what counts, when what counts are the departures ahead,
\* shows the next of them.
LEMMA ShowsNextOf ==
  ASSUME NEW D, Timed(D), NEW row \in Seq(D), NEW kept \in SUBSET D, Shows(row, kept),
         NEW ahead \in SUBSET Int, IsFiniteSet(ahead),
         \A e \in kept : e.when \in ahead, \A x \in ahead : \E e \in kept : e.when = x
  PROVE  LET shown == {row[i].when : i \in DOMAIN row}
         IN  /\ shown \subseteq ahead
             /\ \A d \in ahead : Cardinality({e \in ahead : e < d}) < MaxSlots => d \in shown
<1>. DEFINE L == Len(row)
            shown == {row[i].when : i \in DOMAIN row}
<1>1. /\ L \in Nat /\ DOMAIN row = 1..L
      /\ \A i \in 1..L : row[i] \in kept
      /\ InOrder(row)
      /\ \A d \in kept : (\E i \in 1..L : row[i] = d) \/ (L = MaxSlots /\ row[MaxSlots].when < d.when)
  BY DEF Shows
<1>2. \A i \in 1..L : row[i].when \in ahead /\ row[i].when \in Int
  BY <1>1
<1>3. shown \subseteq ahead
  BY <1>1, <1>2
<1>. HIDE DEF L
<1>4. ASSUME NEW d \in ahead, d \notin shown PROVE ~(Cardinality({e \in ahead : e < d}) < MaxSlots)
  <2>. DEFINE S == {e \in ahead : e < d}
              g == [i \in 1..L |-> row[i].when]
  <2>1. PICK k \in kept : k.when = d
    OBVIOUS
  <2>2. L = MaxSlots /\ row[L].when < d
    <3>1. ~\E i \in 1..L : row[i] = k
      BY <1>1, <1>4, <2>1
    <3>. QED  BY <1>1, <2>1, <3>1
  <2>3. \A i \in 1..L : row[i].when < d
    <3>. SUFFICES ASSUME NEW i \in 1..L PROVE row[i].when < d
      OBVIOUS
    <3>0. L \in Nat
      BY <1>1
    <3>1. i = L \/ (i < L /\ L \in 1..L)
      BY <3>0
    <3>2. i = L \/ row[i].when < row[L].when
      BY <1>1, <3>1 DEF InOrder, L
    <3>3. L \in 1..L
      BY <1>1
    <3>4. row[i].when \in Int /\ row[L].when \in Int
      BY <1>2, <3>3
    <3>. QED  BY <2>2, <3>2, <3>4
  <2>4. IsFiniteSet(S)
    <3>1. S \in SUBSET ahead
      OBVIOUS
    <3>. HIDE DEF S
    <3>. QED  BY <3>1, FS_Subset
  <2>5. g \in Injection(1..L, S)
    <3>1. \A i \in 1..L : g[i] \in S
      BY <1>2, <2>3
    <3>2. ASSUME NEW i \in 1..L, NEW j \in 1..L, g[i] = g[j] PROVE i = j
      <4>1. row[i].when = row[j].when
        BY <3>2
      <4>2. ~(i < j) /\ ~(j < i)
        <5>1. (i < j => row[i].when < row[j].when) /\ (j < i => row[j].when < row[i].when)
          BY <1>1 DEF InOrder, L
        <5>2. row[i].when \in Int /\ row[j].when \in Int
          BY <1>2
        <5>. QED  BY <4>1, <5>1, <5>2
      <4>. QED  BY <1>1, <4>2
    <3>3. g \in [1..L -> S]
      <4>. HIDE DEF S
      <4>. QED  BY <3>1
    <3>. HIDE DEF g, S
    <3>. QED  BY <3>2, <3>3 DEF Injection, IsInjective
  <2>6. Cardinality(1..L) = L
    BY <1>1, FS_Interval
  <2>7. L <= Cardinality(S) /\ Cardinality(S) \in Nat
    <3>. HIDE DEF S, g
    <3>. QED  BY <2>4, <2>5, <2>6, FS_Injection, FS_CardinalityType
  <2>. QED  BY <1>1, <2>2, <2>7
<1>. QED  BY <1>3, <1>4

\* In every reachable state a row without realtime shows the very next
\* departures of its stream, from the last but one before the cutoff to the
\* second one after it (efa_parse.cpp:61-117, slot_merger.cpp:59-95).
THEOREM HintsBridgeTheNight == Spec => []BridgesTheNight
<1>1. HintInv => BridgesTheNight
  <2>. SUFFICES ASSUME HintInv, NEW s \in ToSet(Streams), MinutesApart, took[s] # 0, Usable, Reaches(s, took[s])
       PROVE  LET ahead == {d \in Bridged(s, took[s]) : d >= now}
                  shown == {Row(<<>>, s)[i].when : i \in DOMAIN Row(<<>>, s)}
              IN  /\ shown \subseteq ahead
                  /\ \A d \in ahead : Cardinality({e \in ahead : e < d}) < MaxSlots => d \in shown
    BY DEF BridgesTheNight
  <2>. DEFINE h == HintTimes(s)
              all == <<>> \o Hints(h)
              kept == KeptTo(all, now, Len(all))
              ahead == {d \in Bridged(s, took[s]) : d >= now}
  <2>1. now \in Int /\ now > 0
    <3>1. (LastDay + 1) * Day - 1 \in Int /\ Day \in Int /\ Day > 0
      BY ScheduleAssumption
    <3>2. now \in Day..((LastDay + 1) * Day - 1)
      BY DEF HintInv
    <3>. HIDE DEF HintInv
    <3>. QED  BY <3>1, <3>2
  <2>2. all \in Seq(Shown) /\ Timed(Shown)
    <3>1. all \in Seq(Shown)
      BY OfferedTyped
    <3>. QED  BY <3>1 DEF Timed, Shown
  <2>3. Row(<<>>, s) \in Seq(Shown) /\ Shows(Row(<<>>, s), kept)
    BY <2>2, MergeShows DEF Row
  <2>4. /\ Len(all) = 4 /\ \A i \in 1..4 : all[i] = Departure(h[i], "Hint") /\ h[i] \in Int
        /\ Four(hint[s]) = {h[i] : i \in 1..4}
    <3>1. hint[s] \in HintType
      BY HintTyped
    <3>. DEFINE p == hint[s].next_today
                r == hint[s].first_tomorrow
    <3>2. /\ p = <<p[1], p[2]>> /\ r = <<r[1], r[2]>>
          /\ p[1] \in Int /\ p[2] \in Int /\ r[1] \in Int /\ r[2] \in Int
      BY <3>1 DEF HintType
    <3>3. h = p \o r
      BY DEF HintTimes
    <3>. HIDE DEF h, p, r
    <3>4. p \in Seq(Int) /\ Len(p) = 2 /\ r \in Seq(Int) /\ Len(r) = 2
      <4>1. \A x, y \in Int : <<x, y>> \in Seq(Int) /\ Len(<<x, y>>) = 2
        OBVIOUS
      <4>. QED  BY <3>2, <4>1
    <3>5. /\ h \in Seq(Int) /\ Len(h) = 4
          /\ h[1] = p[1] /\ h[2] = p[2] /\ h[3] = r[1] /\ h[4] = r[2]
      <4>1. /\ p \o r \in Seq(Int) /\ Len(p \o r) = Len(p) + Len(r)
            /\ \A i \in 1..(Len(p) + Len(r)) : (p \o r)[i] = IF i <= Len(p) THEN p[i] ELSE r[i - Len(p)]
        BY <3>4, ConcatProperties
      <4>2. \A i \in 1..4 : h[i] = IF i <= 2 THEN p[i] ELSE r[i - 2]
        BY <3>3, <3>4, <4>1
      <4>3. h \in Seq(Int) /\ Len(h) = 4
        BY <3>3, <3>4, <4>1
      <4>. QED  BY <4>2, <4>3
    <3>6. Hints(h) = [i \in 1..4 |-> Departure(h[i], "Hint")]
      BY <3>5 DEF Hints
    <3>7. all = Hints(h)
      BY <3>6
    <3>8. Four(hint[s]) = {h[1], h[2], h[3], h[4]}
      BY <3>5 DEF Four, p, r
    <3>9. {h[i] : i \in 1..4} = {h[1], h[2], h[3], h[4]}
      <4>1. \A i : i \in 1..4 <=> i = 1 \/ i = 2 \/ i = 3 \/ i = 4
        OBVIOUS
      <4>. QED  BY <4>1
    <3>10. \A i \in 1..4 : h[i] \in Int
      <4>1. \A i \in 1..4 : i = 1 \/ i = 2 \/ i = 3 \/ i = 4
        OBVIOUS
      <4>. QED  BY <3>2, <3>5, <4>1
    <3>. HIDE DEF all
    <3>11. Len(all) = 4 /\ \A i \in 1..4 : all[i] = Departure(h[i], "Hint")
      BY <3>6, <3>7
    <3>. QED  BY <3>8, <3>9, <3>10, <3>11
  <2>. HIDE DEF h, all
  <2>5. \A x \in Int : x >= now => (x \in Four(hint[s]) <=> x \in Bridged(s, took[s]))
    BY HintBridges
  <2>6. s \in Lines
    BY <2>1, HintBridges
  <2>7. /\ IsFiniteSet(Bridged(s, took[s]))
        /\ \A x \in Bridged(s, took[s]) : x \in Departures(s) /\ x \in Int
    BY <2>6, BridgedFacts
  <2>8. IsFiniteSet(ahead) /\ ahead \in SUBSET Int /\ \A x \in ahead : x \in Departures(s)
    <3>1. ahead \in SUBSET Bridged(s, took[s])
      OBVIOUS
    <3>2. ahead \in SUBSET Int /\ \A x \in ahead : x \in Departures(s)
      BY <2>7
    <3>. HIDE DEF ahead
    <3>. QED  BY <2>7, <3>1, <3>2, FS_Subset
  <2>9. /\ kept \in SUBSET Shown
        /\ \A i \in 1..4 : Offered(all[i], now) => \E e \in kept : MinuteOf(e) = MinuteOf(all[i])
        /\ \A e \in kept : \E i \in 1..4 : e = all[i] /\ Offered(all[i], now)
    <3>1. 4 \in 0..Len(all) /\ 4 \in Nat
      BY <2>4
    <3>2. kept = KeptTo(all, now, 4)
      BY <2>4
    <3>3. \A e \in kept : \E i \in 1..4 : e = all[i] /\ Offered(all[i], now)
      BY <3>2 DEF KeptTo
    <3>. HIDE DEF kept
    <3>. QED  BY <2>2, <3>1, <3>2, <3>3, KeptFacts
  <2>. HIDE DEF kept
  <2>10. ASSUME NEW i \in 1..4
         PROVE  /\ all[i].when = h[i] /\ MinuteOf(all[i]) = h[i] \div Minute
                /\ Offered(all[i], now) <=> h[i] >= now
                /\ h[i] >= now => h[i] \in ahead
    <3>1. all[i] = Departure(h[i], "Hint") /\ h[i] \in Int /\ h[i] \in Four(hint[s])
      BY <2>4
    <3>2. all[i].when = h[i] /\ all[i].source = "Hint"
      BY <3>1 DEF Departure
    <3>3. h[i] >= now => h[i] # 0
      BY <2>1, <3>1
    <3>. QED  BY <2>5, <3>1, <3>2, <3>3 DEF Offered, MinuteOf
  <2>11. \A e \in kept : e.when \in ahead /\ MinuteOf(e) = e.when \div Minute
    BY <2>9, <2>10
  <2>12. ASSUME NEW x \in ahead PROVE \E e \in kept : e.when = x
    <3>1. PICK i \in 1..4 : h[i] = x
      BY <2>4, <2>5, <2>8
    <3>2. x >= now
      OBVIOUS
    <3>3. PICK e \in kept : MinuteOf(e) = MinuteOf(all[i])
      BY <2>9, <2>10, <3>1, <3>2
    <3>4. e.when \in Departures(s) /\ x \in Departures(s) /\ e.when \div Minute = x \div Minute
      BY <2>8, <2>10, <2>11, <3>1, <3>3
    <3>5. e.when = x
      BY <2>6, <3>4 DEF MinutesApart
    <3>. QED  BY <3>5
  <2>. HIDE DEF ahead
  <2>13. LET shown == {Row(<<>>, s)[i].when : i \in DOMAIN Row(<<>>, s)}
         IN  /\ shown \subseteq ahead
             /\ \A d \in ahead : Cardinality({e \in ahead : e < d}) < MaxSlots => d \in shown
    BY <2>2, <2>3, <2>8, <2>9, <2>11, <2>12, ShowsNextOf
  <2>. QED  BY <2>13 DEF ahead
<1>. QED  BY <1>1, HintInvariant, PTL
=============================================================================
