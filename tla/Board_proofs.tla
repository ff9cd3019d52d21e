---------------------------- MODULE Board_proofs ----------------------------
(***************************************************************************)
(* Proofs about Board: the civil calendar, what the parsers collect of a   *)
(* reply, what the merge shows of it, the gauges and the layout.  From     *)
(* BoardInv - what is shown is what was fetched of what is listed - follow *)
(* the four properties of the board, for every reply.                      *)
(***************************************************************************)
EXTENDS Board, SlotMerger_proofs

(***************************************************************************)
(* The civil calendar: civil_to_days, which never looks at a table, counts *)
(* the days the definition of a leap year counts.                          *)
(***************************************************************************)
\* The leap years among the first n years.
Leaps(n) == (n \div 4) - (n \div 100) + (n \div 400)

\* One more year is one more leap year, or none.
LEMMA LeapsStep ==
  ASSUME NEW y \in Nat, y > 0
  PROVE  Leaps(y) = Leaps(y - 1) + IF Leap(y) THEN 1 ELSE 0
<1>. DEFINE n == y - 1
<1>1. \A k \in {4, 100, 400} : y \div k = (n \div k) + IF y % k = 0 THEN 1 ELSE 0
  OBVIOUS
<1>2. (y % 100 = 0 => y % 4 = 0) /\ (y % 400 = 0 => y % 100 = 0)
  OBVIOUS
<1>3. \A k \in {4, 100, 400} : y \div k \in Int /\ n \div k \in Int
  OBVIOUS
<1>. DEFINE a == y \div 4 b == y \div 100 c == y \div 400
            d == n \div 4 e == n \div 100 f == n \div 400
<1>4. /\ a = d + (IF y % 4 = 0 THEN 1 ELSE 0) /\ b = e + (IF y % 100 = 0 THEN 1 ELSE 0)
      /\ c = f + (IF y % 400 = 0 THEN 1 ELSE 0)
  BY <1>1
<1>5. a \in Int /\ b \in Int /\ c \in Int /\ d \in Int /\ e \in Int /\ f \in Int
  BY <1>3
<1>6. Leaps(y) = a - b + c /\ Leaps(y - 1) = d - e + f
  BY DEF Leaps
<1>7. Leap(y) <=> y % 4 = 0 /\ (y % 100 # 0 \/ y % 400 = 0)
  BY DEF Leap
<1>. HIDE DEF a, b, c, d, e, f, n
<1>. QED  BY <1>2, <1>4, <1>5, <1>6, <1>7

\* Counted from 1970.
LEMMA LeapCount ==
  ASSUME NEW y \in Nat, y >= 1970
  PROVE  Cardinality({k \in 1970..y - 1 : Leap(k)}) = Leaps(y - 1) - 477
<1>. DEFINE Years(n) == {k \in 1970..(1970 + n) - 1 : Leap(k)}
            Good == {n \in Nat : /\ IsFiniteSet(Years(n))
                                 /\ Cardinality(Years(n)) = Leaps(1970 + n - 1) - 477}
<1>1. 0 \in Good
  <2>1. Years(0) = {}
    OBVIOUS
  <2>2. Leaps(1969) = 477
    BY DEF Leaps
  <2>. HIDE DEF Years
  <2>. QED  BY <2>1, <2>2, FS_EmptySet
<1>2. ASSUME NEW n \in Nat, n \in Good PROVE n + 1 \in Good
  <2>. DEFINE z == 1970 + n
  <2>1. Years(n + 1) = IF Leap(z) THEN Years(n) \cup {z} ELSE Years(n)
    <3>1. \A k : k \in 1970..(1970 + (n + 1)) - 1 <=> k \in 1970..(1970 + n) - 1 \/ k = z
      OBVIOUS
    <3>. HIDE DEF z
    <3>. QED  BY <3>1
  <2>2. z \notin Years(n)
    OBVIOUS
  <2>3. Leaps(z) = Leaps(z - 1) + IF Leap(z) THEN 1 ELSE 0
    BY LeapsStep
  <2>4. IsFiniteSet(Years(n)) /\ Cardinality(Years(n)) = Leaps(z - 1) - 477 /\ Cardinality(Years(n)) \in Nat
    <3>1. IsFiniteSet(Years(n)) /\ Cardinality(Years(n)) = Leaps(z - 1) - 477
      BY <1>2
    <3>. HIDE DEF Years
    <3>. QED  BY <3>1, FS_CardinalityType
  <2>5. 1970 + (n + 1) - 1 = z /\ Leaps(z - 1) \in Int /\ Leaps(z) \in Int
    BY DEF Leaps
  <2>6. IsFiniteSet(Years(n + 1)) /\ Cardinality(Years(n + 1)) = Leaps(z) - 477
    <3>. HIDE DEF Years, z
    <3>1. CASE Leap(z)
      <4>1. Cardinality(Years(n) \cup {z}) = Cardinality(Years(n)) + 1 /\ IsFiniteSet(Years(n) \cup {z})
        BY <2>2, <2>4, FS_AddElement
      <4>. QED  BY <2>1, <2>3, <2>4, <2>5, <3>1, <4>1
    <3>2. CASE ~Leap(z)
      BY <2>1, <2>3, <2>4, <2>5, <3>2
    <3>. QED  BY <3>1, <3>2
  <2>. HIDE DEF Years
  <2>. QED  BY <2>5, <2>6
<1>3. y - 1970 \in Good
  <2>1. Nat \subseteq Good
    <3>. HIDE DEF Good
    <3>. QED  BY <1>1, <1>2, SetInduction
  <2>. HIDE DEF Good
  <2>. QED  BY <2>1
<1>. QED  BY <1>3

\* The days before the first of a month.
DaysBefore(y, m) ==
  <<0, 31, 59, 90, 120, 151, 181, 212, 243, 273, 304, 334>>[m] + IF m > 2 /\ Leap(y) THEN 1 ELSE 0

LEMMA MonthsBefore ==
  ASSUME NEW y, NEW m \in 1..12
  PROVE  LET before[k \in 0..12] == IF k = 0 THEN 0 ELSE before[k - 1] + MonthDays(y)[k]
         IN  before[m - 1] = DaysBefore(y, m)
<1>. DEFINE Body(f) == [k \in 0..12 |-> IF k = 0 THEN 0 ELSE f[k - 1] + MonthDays(y)[k]]
            before == CHOOSE f : f = Body(f)
            step == [k \in 1..12 |-> [v \in Nat |-> v + MonthDays(y)[k]]]
<1>1. \A k \in 1..12 : MonthDays(y)[k] \in Nat
  BY DEF MonthDays
<1>2. step \in [1..12 -> [Nat -> Nat]]
  BY <1>1
<1>3. PICK f : Recursion(f, Nat, 0, 12, step)
  <2>. HIDE DEF step
  <2>. QED  BY <1>2, RecursionExists
<1>4. f = Body(f)
  <2>1. f \in [0..12 -> Nat] /\ f[0] = 0 /\ \A k \in 1..12 : f[k] = f[k - 1] + MonthDays(y)[k]
    BY <1>3 DEF Recursion
  <2>2. \A k \in 0..12 : f[k] = IF k = 0 THEN 0 ELSE f[k - 1] + MonthDays(y)[k]
    BY <2>1
  <2>. QED  BY <2>1, <2>2
<1>5. before = Body(before)
  <2>. HIDE DEF Body
  <2>. QED  BY <1>4
<1>. HIDE DEF before
<1>6. before[0] = 0 /\ \A k \in 1..12 : before[k] = before[k - 1] + MonthDays(y)[k]
  BY <1>5
<1>. DEFINE feb == IF Leap(y) THEN 29 ELSE 28
<1>7. MonthDays(y) = <<31, feb, 31, 30, 31, 30, 31, 31, 30, 31, 30, 31>> /\ feb \in Nat
  BY DEF MonthDays
<1>. HIDE DEF feb
<1>8. /\ before[0] = 0 /\ before[1] = 31 /\ before[2] = 31 + feb /\ before[3] = 62 + feb
      /\ before[4] = 92 + feb /\ before[5] = 123 + feb /\ before[6] = 153 + feb
      /\ before[7] = 184 + feb /\ before[8] = 215 + feb /\ before[9] = 245 + feb
      /\ before[10] = 276 + feb /\ before[11] = 306 + feb
  BY <1>6, <1>7
<1>9. before[m - 1] = DaysBefore(y, m)
  <2>. HIDE DEF Body
  <2>. QED  BY <1>8 DEF DaysBefore, feb
<1>. QED  BY <1>9 DEF before

\* The closed form is the count.
LEMMA CivilIsCalendar ==
  ASSUME NEW date, date.y \in Nat, date.y >= 1970, date.m \in 1..12, date.d \in Int
  PROVE  DayNumber(date) = CivilToDays(date)
<1>. DEFINE y == date.y  m == date.m  d == date.d
            z == IF m <= 2 THEN y - 1 ELSE y
            doy == (153 * (m + (IF m > 2 THEN -3 ELSE 9)) + 2) \div 5
<1>1. DayNumber(date) = 365 * (y - 1970) + (Leaps(y - 1) - 477) + DaysBefore(y, m) + d - 1
  BY LeapCount, MonthsBefore DEF DayNumber
<1>2. y \in Nat /\ y >= 1970 /\ m \in 1..12 /\ d \in Int /\ z \in Nat
  OBVIOUS
<1>3. CivilToDays(date) = 365 * z + Leaps(z) + doy + d - 1 - 719468
  <2>. DEFINE era == z \div 400  yoe == z - era * 400
  <2>1. CivilToDays(date) = era * 146097 + (yoe * 365 + yoe \div 4 - yoe \div 100 + (doy + d - 1)) - 719468
    BY DEF CivilToDays
  <2>2. era \in Int /\ yoe \in Int /\ yoe = z - 400 * era
    BY <1>2
  <2>3. yoe \div 4 = (z \div 4) - 100 * era /\ yoe \div 100 = (z \div 100) - 4 * era
    <3>. HIDE DEF z, era
    <3>. QED  BY <1>2, <2>2
  <2>4. z \div 4 \in Int /\ z \div 100 \in Int /\ doy \in Int
    BY <1>2
  <2>5. Leaps(z) = (z \div 4) - (z \div 100) + era
    BY DEF Leaps
  <2>. DEFINE a == z \div 4  b == z \div 100
  <2>. HIDE DEF era, yoe, z, doy, m, d, a, b
  <2>6. CivilToDays(date) = era * 146097 + (yoe * 365 + (a - 100 * era) - (b - 4 * era) + (doy + d - 1)) - 719468
    BY <2>1, <2>3 DEF a, b
  <2>7. a \in Int /\ b \in Int /\ Leaps(z) = a - b + era
    BY <2>4, <2>5 DEF a, b
  <2>. QED  BY <1>2, <2>2, <2>4, <2>6, <2>7
<1>4. Leaps(y) = Leaps(y - 1) + IF Leap(y) THEN 1 ELSE 0
  BY <1>2, LeapsStep
<1>5. doy = IF m = 1 THEN 306 ELSE IF m = 2 THEN 337
            ELSE <<0, 31, 61, 92, 122, 153, 184, 214, 245, 275>>[m - 2]
  BY <1>2
<1>6. Leaps(y) \in Int /\ Leaps(y - 1) \in Int
  BY <1>2 DEF Leaps
<1>. HIDE DEF doy, y, m, d
<1>7. CASE m <= 2
  <2>1. z = y - 1 /\ m \in {1, 2}
    BY <1>2, <1>7
  <2>2. DaysBefore(y, m) = IF m = 1 THEN 0 ELSE 31
    BY <2>1 DEF DaysBefore
  <2>. QED  BY <1>1, <1>2, <1>3, <1>5, <1>6, <2>1, <2>2
<1>8. CASE m > 2
  <2>1. z = y /\ m \in 3..12
    BY <1>2, <1>8
  <2>2. DaysBefore(y, m) = doy + 59 + IF Leap(y) THEN 1 ELSE 0
    BY <1>5, <2>1 DEF DaysBefore
  <2>3. doy \in Int
    BY <1>5, <2>1
  <2>. QED  BY <1>1, <1>2, <1>3, <1>4, <1>6, <2>1, <2>2, <2>3
<1>. QED  BY <1>2, <1>7, <1>8
(***************************************************************************)
(* What the merge makes of at most MaxSlots departures and no hints.       *)
(***************************************************************************)
Parsed == [when : Int, source : {"Realtime", "Plan"}, planned : Int]

LEMMA ParsedTimed == Timed(Parsed)
BY DEF Parsed, Timed

\* The values of a function on 1..k are no more than k, and k if they differ.
Values(f, k) == {f[i] : i \in 1..k}
Differ(f, k) == \A i, j \in 1..k : f[i] = f[j] => i = j

LEMMA ImageSize ==
  ASSUME NEW k \in Nat, NEW f
  PROVE  /\ IsFiniteSet(Values(f, k)) /\ Cardinality(Values(f, k)) \in Nat
         /\ Cardinality(Values(f, k)) <= k
         /\ Differ(f, k) => Cardinality(Values(f, k)) = k
<1>. DEFINE T == {f[i] : i \in 1..k}
            g == [i \in 1..k |-> f[i]]
<1>1. IsFiniteSet(1..k) /\ Cardinality(1..k) = k
  BY FS_Interval
<1>2. g \in Surjection(1..k, T)
  BY DEF Surjection
<1>3. Differ(f, k) => g \in Injection(1..k, T)
  BY DEF Injection, IsInjective, Differ
<1>. HIDE DEF T, g
<1>4. IsFiniteSet(T) /\ Cardinality(T) <= k /\ (g \in Injection(1..k, T) => Cardinality(T) = k)
  BY <1>1, <1>2, FS_Surjection
<1>5. Cardinality(T) \in Nat
  BY <1>4, FS_CardinalityType
<1>. QED  BY <1>3, <1>4, <1>5 DEF T, Values

\* row has departures of slots that are ahead of t, one of each minute.
RowOf(row, list, t) ==
  /\ \A n \in 1..Len(row) : row[n].when >= t /\ \E i \in 1..Len(list) : list[i] = row[n]
  /\ \A i \in 1..Len(list) :
       list[i].when >= t => \E n \in 1..Len(row) : MinuteOf(row[n]) = MinuteOf(list[i])
  /\ \A n, m \in 1..Len(row) : n < m => MinuteOf(row[n]) < MinuteOf(row[m])

LEMMA NoHints ==
  ASSUME NEW D, NEW list \in Seq(D)
  PROVE  list \o Hints(<<>>) = list
<1>1. Hints(<<>>) = <<>>
  BY DEF Hints
<1>. QED  BY <1>1

\* Few enough departures are all shown, but for those that have left and those
\* of a minute that is already taken.
LEMMA FewAreShown ==
  ASSUME NEW list \in Seq(Parsed), Len(list) <= MaxSlots, NEW t \in Int
  PROVE  MergeSlots(list, <<>>, t) \in Seq(Parsed) /\ RowOf(MergeSlots(list, <<>>, t), list, t)
<1>. DEFINE row == MergeSlots(list, <<>>, t)
            L == Len(list)
            kept == KeptTo(list, t, L)
<1>0. Timed(Parsed) /\ L \in Nat /\ MaxSlots \in Nat /\ L \in 0..Len(list)
  BY ParsedTimed, MergerAssumption
<1>1. row \in Seq(Parsed) /\ Shows(row, kept)
  <2>1. list \o Hints(<<>>) = list
    BY NoHints
  <2>. QED  BY <1>0, <2>1, MergeShows
<1>2. /\ kept \in SUBSET Parsed /\ Apart(kept)
      /\ \A i \in 1..L : Offered(list[i], t) => \E e \in kept : MinuteOf(e) = MinuteOf(list[i])
  BY <1>0, KeptFacts
<1>3. \A e \in kept : \E i \in 1..L : Offered(list[i], t) /\ list[i] = e
  BY DEF KeptTo
<1>4. \A i \in 1..L : Offered(list[i], t) <=> list[i].when >= t
  <2>1. \A i \in 1..L : list[i] \in Parsed
    OBVIOUS
  <2>2. \A d \in Parsed : d.source # "Hint"
    BY DEF Parsed
  <2>. HIDE DEF L
  <2>. QED  BY <2>1, <2>2 DEF Offered
<1>5. IsFiniteSet(kept) /\ Cardinality(kept) \in Nat /\ Cardinality(kept) <= L
  <2>. DEFINE T == {list[i] : i \in 1..L}
  <2>1. IsFiniteSet(T) /\ Cardinality(T) \in Nat /\ Cardinality(T) <= L
    BY <1>0, ImageSize DEF Values
  <2>2. kept \in SUBSET T
    BY <1>3
  <2>. HIDE DEF T, kept
  <2>3. IsFiniteSet(kept) /\ Cardinality(kept) <= Cardinality(T)
    BY <2>1, <2>2, FS_Subset
  <2>4. Cardinality(kept) \in Nat
    BY <2>3, FS_CardinalityType
  <2>. QED  BY <1>0, <2>1, <2>3, <2>4
<1>. HIDE DEF kept, row, L
<1>6. Len(row) \in Nat /\ InOrder(row) /\ \A n \in 1..Len(row) : row[n] \in kept /\ row[n] \in Parsed
  BY <1>1 DEF Shows
<1>7. \A d \in kept : \E n \in 1..Len(row) : row[n] = d
  <2>. SUFFICES ASSUME NEW d \in kept, \A n \in 1..Len(row) : row[n] # d PROVE FALSE
    OBVIOUS
  <2>. DEFINE T == {row[n] : n \in 1..Len(row)}
  <2>1. Len(row) = MaxSlots
    BY <1>1 DEF Shows
  <2>2. IsFiniteSet(T) /\ Cardinality(T) = MaxSlots
    <3>1. Len(row) \in 0..Len(row)
      BY <1>6
    <3>. QED  BY <1>0, <1>1, <1>6, <2>1, <3>1, RowCount
  <2>3. d \notin T /\ T \cup {d} \in SUBSET kept
    BY <1>6
  <2>. HIDE DEF T
  <2>4. IsFiniteSet(T \cup {d}) /\ Cardinality(T \cup {d}) = MaxSlots + 1
    BY <2>2, <2>3, FS_AddElement
  <2>5. Cardinality(T \cup {d}) <= Cardinality(kept)
    BY <1>5, <2>3, FS_Subset
  <2>. QED  BY <1>0, <1>5, <2>4, <2>5 DEF L
<1>8. \A n \in 1..Len(row) : row[n].when >= t /\ \E i \in 1..L : list[i] = row[n]
  BY <1>3, <1>4, <1>6
<1>9. ASSUME NEW i \in 1..L, list[i].when >= t
      PROVE  \E n \in 1..Len(row) : MinuteOf(row[n]) = MinuteOf(list[i])
  BY <1>2, <1>4, <1>7, <1>9
<1>10. ASSUME NEW n \in 1..Len(row), NEW m \in 1..Len(row), n < m
       PROVE  MinuteOf(row[n]) < MinuteOf(row[m])
  <2>1. row[n].when < row[m].when /\ row[n].when \in Int /\ row[m].when \in Int
    BY <1>6, <1>10 DEF InOrder, Parsed
  <2>2. /\ MinuteOf(row[n]) \in Int /\ MinuteOf(row[m]) \in Int
        /\ row[n].when <= row[m].when => MinuteOf(row[n]) <= MinuteOf(row[m])
    BY <1>0, <1>6, MinutesInOrder
  <2>3. MinuteOf(row[n]) # MinuteOf(row[m])
    BY <1>2, <1>6, <2>1 DEF Apart
  <2>. QED  BY <2>1, <2>2, <2>3
<1>. QED  BY <1>1, <1>8, <1>9, <1>10 DEF RowOf, row, L

(***************************************************************************)
(* The S-Bahn: what consumeOebbDoc has collected after n journeys.         *)
(***************************************************************************)
Journeys == [plan : Int, real : Int, cancelled : BOOLEAN]
Train(j) == Slot(j.plan, j.real, 0)
Takes(j, t) == ~j.cancelled /\ Train(j).when # 0 /\ Train(j).when >= t

Ordered(trains, t) ==
  \A i, k \in 1..Len(trains) :
    i < k /\ Takes(trains[i], t) /\ Takes(trains[k], t)
      => Train(trains[i]).when <= Train(trains[k]).when

\* Each slot is a train, no two are of a minute, and none is missing while
\* there is room; in an ordered reply those missing are later.
Collected(list, trains, t, n) ==
  /\ Len(list) <= MaxSlots
  /\ \A k \in 1..Len(list) :
       \E i \in 1..n : Takes(trains[i], t) /\ list[k] = Train(trains[i])
  /\ \A k, l \in 1..Len(list) : MinuteOf(list[k]) = MinuteOf(list[l]) => k = l
  /\ Len(list) < MaxSlots =>
       \A i \in 1..n : Takes(trains[i], t) =>
         \E k \in 1..Len(list) : MinuteOf(list[k]) = MinuteOf(Train(trains[i]))
  /\ Ordered(trains, t) =>
       \A i \in 1..n : Takes(trains[i], t) =>
         \/ \E k \in 1..Len(list) : /\ MinuteOf(list[k]) = MinuteOf(Train(trains[i]))
                                     /\ list[k].when <= Train(trains[i]).when
         \/ /\ Len(list) = MaxSlots
            /\ \A k \in 1..Len(list) : MinuteOf(list[k]) < MinuteOf(Train(trains[i]))

LEMMA TrainParsed ==
  ASSUME NEW j \in Journeys
  PROVE  Train(j) \in Parsed /\ Train(j).when \in Int /\ MinuteOf(Train(j)) \in Int
<1>1. Train(j) \in Parsed
  BY DEF Train, Slot, Parsed, Journeys
<1>. QED  BY <1>1, ParsedTimed, MinutesInOrder DEF Parsed

\* One journey keeps this.
LEMMA TakeCollects ==
  ASSUME NEW journeyList \in Seq(Journeys), NEW t \in Int, NEW n \in Nat, n + 1 <= Len(journeyList),
         NEW taken \in Seq(Parsed), Collected(taken, journeyList, t, n)
  PROVE  LET next == TakeJourney(taken, journeyList[n + 1], t)
         IN  next \in Seq(Parsed) /\ Collected(next, journeyList, t, n + 1)
<1>. DEFINE j == journeyList[n + 1]
            d == Train(j)
            L == Len(taken)
            next == TakeJourney(taken, j, t)
            M(i) == MinuteOf(Train(journeyList[i]))
            T(i) == Takes(journeyList[i], t)
<1>0. L \in Nat /\ L <= MaxSlots /\ MaxSlots \in Nat
  BY MergerAssumption DEF Collected
<1>1. /\ d \in Parsed /\ d.when \in Int /\ MinuteOf(d) \in Int
      /\ \A i \in 1..(n + 1) : Train(journeyList[i]) \in Parsed /\ M(i) \in Int
  <2>1. \A i \in 1..(n + 1) : journeyList[i] \in Journeys
    OBVIOUS
  <2>. QED  BY <2>1, TrainParsed
<1>2. next = IF \/ L >= MaxSlots \/ ~Takes(j, t) \/ \E k \in 1..L : MinuteOf(taken[k]) = MinuteOf(d)
             THEN taken ELSE Append(taken, d)
  <2>1. DOMAIN taken = 1..L
    OBVIOUS
  <2>2. ~Takes(j, t) <=> j.cancelled \/ d.when = 0 \/ d.when < t
    BY <1>1 DEF Takes
  <2>3. next = IF \/ L >= MaxSlots \/ j.cancelled \/ d.when = 0 \/ d.when < t
                  \/ \E k \in DOMAIN taken : MinuteOf(taken[k]) = MinuteOf(d)
               THEN taken ELSE Append(taken, d)
    BY DEF TakeJourney, Train
  <2>. HIDE DEF next, d, j, L
  <2>. QED  BY <2>1, <2>2, <2>3
<1>3. \A i : i \in 1..(n + 1) <=> i \in 1..n \/ i = n + 1
  OBVIOUS
\* The trains before this one are not later in an ordered reply.
<1>4. ASSUME Ordered(journeyList, t), T(n + 1), NEW k \in 1..L
      PROVE  taken[k].when <= d.when /\ MinuteOf(taken[k]) <= MinuteOf(d)
  <2>1. PICK i \in 1..n : T(i) /\ taken[k] = Train(journeyList[i])
    BY DEF Collected
  <2>2. i \in 1..Len(journeyList) /\ n + 1 \in 1..Len(journeyList) /\ i < n + 1
    OBVIOUS
  <2>3. Train(journeyList[i]).when <= d.when
    BY <1>4, <2>1, <2>2 DEF Ordered
  <2>4. Train(journeyList[i]) \in Parsed
    BY <1>1, <2>2
  <2>. QED  BY <1>1, <2>1, <2>3, <2>4, ParsedTimed, MinutesInOrder
<1>5. \A k \in 1..L : MinuteOf(taken[k]) \in Int /\ taken[k] \in Parsed
  <2>1. \A k \in 1..L : taken[k] \in Parsed
    OBVIOUS
  <2>. QED  BY <2>1, ParsedTimed, MinutesInOrder
<1>. HIDE DEF next, d, j, M, T
<1>6. CASE next = taken
  <2>1. L >= MaxSlots \/ ~Takes(j, t) \/ \E k \in 1..L : MinuteOf(taken[k]) = MinuteOf(d)
    <3>1. L < MaxSlots /\ Takes(j, t) /\ ~(\E k \in 1..L : MinuteOf(taken[k]) = MinuteOf(d)) => next = Append(taken, d)
      BY <1>0, <1>2
    <3>2. Len(Append(taken, d)) = L + 1 /\ L \in Nat
      BY <1>0, <1>1
    <3>. QED  BY <1>0, <1>6, <3>1, <3>2
  <2>2. \A k \in 1..L : \E i \in 1..(n + 1) : Takes(journeyList[i], t) /\ taken[k] = Train(journeyList[i])
    BY <1>3 DEF Collected
  <2>3. ASSUME L < MaxSlots, NEW i \in 1..(n + 1), Takes(journeyList[i], t)
        PROVE  \E k \in 1..L : MinuteOf(taken[k]) = MinuteOf(Train(journeyList[i]))
    <3>1. CASE i \in 1..n
      BY <2>3, <3>1 DEF Collected
    <3>2. CASE i = n + 1
      BY <1>0, <2>1, <2>3, <3>2 DEF j, d
    <3>. QED  BY <1>3, <3>1, <3>2
  <2>4. ASSUME Ordered(journeyList, t), NEW i \in 1..(n + 1), Takes(journeyList[i], t)
        PROVE  \/ \E k \in 1..L : /\ MinuteOf(taken[k]) = MinuteOf(Train(journeyList[i]))
                                  /\ taken[k].when <= Train(journeyList[i]).when
               \/ /\ L = MaxSlots
                  /\ \A k \in 1..L : MinuteOf(taken[k]) < MinuteOf(Train(journeyList[i]))
    <3>1. CASE i \in 1..n
      BY <2>4, <3>1 DEF Collected
    <3>2. CASE i = n + 1
      <4>1. d = Train(journeyList[i]) /\ T(n + 1)
        BY <2>4, <3>2 DEF d, j, T
      <4>2. \A k \in 1..L : taken[k].when <= d.when /\ MinuteOf(taken[k]) <= MinuteOf(d)
        BY <1>4, <2>4, <4>1
      <4>3. CASE \E k \in 1..L : MinuteOf(taken[k]) = MinuteOf(d)
        BY <4>1, <4>2, <4>3
      <4>4. CASE ~(\E k \in 1..L : MinuteOf(taken[k]) = MinuteOf(d))
        <5>1. L = MaxSlots
          BY <1>0, <2>1, <2>4, <3>2, <4>4 DEF j
        <5>2. \A k \in 1..L : MinuteOf(taken[k]) < MinuteOf(d)
          BY <1>1, <1>5, <4>2, <4>4
        <5>. QED  BY <4>1, <5>1, <5>2
      <4>. QED  BY <4>3, <4>4
    <3>. QED  BY <1>3, <3>1, <3>2
  <2>5. \A k, l \in 1..L : MinuteOf(taken[k]) = MinuteOf(taken[l]) => k = l
    BY DEF Collected
  <2>6. Collected(taken, journeyList, t, n + 1)
    BY <1>0, <2>2, <2>3, <2>4, <2>5 DEF Collected
  <2>. QED  BY <1>6, <2>6 DEF next, j
<1>7. CASE next # taken
  <2>1. /\ L < MaxSlots /\ Takes(j, t) /\ next = Append(taken, d)
        /\ \A k \in 1..L : MinuteOf(taken[k]) # MinuteOf(d)
    BY <1>0, <1>2, <1>7
  <2>2. /\ next \in Seq(Parsed) /\ Len(next) = L + 1 /\ next[L + 1] = d
        /\ \A k \in 1..L : next[k] = taken[k]
    BY <1>1, <2>1
  <2>3. \A k : k \in 1..Len(next) <=> k \in 1..L \/ k = L + 1
    BY <1>0, <2>2
  <2>4. Takes(journeyList[n + 1], t) /\ d = Train(journeyList[n + 1])
    BY <2>1 DEF d, j
  <2>5. \A k \in 1..Len(next) : \E i \in 1..(n + 1) : Takes(journeyList[i], t) /\ next[k] = Train(journeyList[i])
    <3>1. \A k \in 1..L : \E i \in 1..n : Takes(journeyList[i], t) /\ taken[k] = Train(journeyList[i])
      BY DEF Collected
    <3>. QED  BY <1>3, <2>2, <2>3, <2>4, <3>1
  <2>6. \A k, l \in 1..Len(next) : MinuteOf(next[k]) = MinuteOf(next[l]) => k = l
    <3>1. \A k, l \in 1..L : MinuteOf(taken[k]) = MinuteOf(taken[l]) => k = l
      BY DEF Collected
    <3>. QED  BY <2>1, <2>2, <2>3, <3>1
  \* While there was room, none was missing.
  <2>7. \A i \in 1..n : Takes(journeyList[i], t) =>
          \E k \in 1..L : MinuteOf(taken[k]) = MinuteOf(Train(journeyList[i]))
    BY <2>1 DEF Collected
  <2>8. \A i \in 1..(n + 1) : Takes(journeyList[i], t) =>
          \E k \in 1..Len(next) : MinuteOf(next[k]) = MinuteOf(Train(journeyList[i]))
    BY <1>3, <2>2, <2>3, <2>4, <2>7
  <2>9. ASSUME Ordered(journeyList, t), NEW i \in 1..(n + 1), Takes(journeyList[i], t)
        PROVE  \E k \in 1..Len(next) : /\ MinuteOf(next[k]) = MinuteOf(Train(journeyList[i]))
                                       /\ next[k].when <= Train(journeyList[i]).when
    <3>1. CASE i \in 1..n
      <4>1. \E k \in 1..L : /\ MinuteOf(taken[k]) = MinuteOf(Train(journeyList[i]))
                            /\ taken[k].when <= Train(journeyList[i]).when
        BY <2>1, <2>9, <3>1 DEF Collected
      <4>. QED  BY <2>2, <2>3, <4>1
    <3>2. CASE i = n + 1
      <4>1. next[L + 1] = Train(journeyList[i]) /\ L + 1 \in 1..Len(next) /\ d.when <= d.when
        BY <1>1, <2>2, <2>3, <2>4, <3>2
      <4>. QED  BY <2>2, <4>1
    <3>. QED  BY <1>3, <3>1, <3>2
  <2>10. Collected(next, journeyList, t, n + 1)
    <3>1. Len(next) <= MaxSlots
      BY <1>0, <2>1, <2>2
    <3>. HIDE DEF L
    <3>. QED  BY <2>5, <2>6, <2>8, <2>9, <3>1 DEF Collected
  <2>. QED  BY <2>2, <2>10 DEF next, j
<1>. QED  BY <1>6, <1>7

\* After the last journey.
LEMMA BoardCollected ==
  ASSUME NEW journeyList \in Seq(Journeys), NEW t \in Int
  PROVE  LET all == ParseOebbStationBoard(journeyList, t)
         IN  all \in Seq(Parsed) /\ Collected(all, journeyList, t, Len(journeyList))
<1>. DEFINE L == Len(journeyList)
            Body(f) == [n \in 0..L |-> IF n = 0 THEN <<>> ELSE TakeJourney(f[n - 1], journeyList[n], t)]
            taken == CHOOSE f : f = Body(f)
            step == [n \in 1..L |-> [s \in Seq(Parsed) |-> TakeJourney(s, journeyList[n], t)]]
<1>1. L \in Nat
  OBVIOUS
<1>2. step \in [1..L -> [Seq(Parsed) -> Seq(Parsed)]]
  <2>. SUFFICES ASSUME NEW n \in 1..L, NEW s \in Seq(Parsed)
                PROVE  TakeJourney(s, journeyList[n], t) \in Seq(Parsed)
    OBVIOUS
  <2>1. Train(journeyList[n]) \in Parsed
    BY TrainParsed
  <2>. QED  BY <2>1 DEF TakeJourney, Train
<1>3. PICK f : Recursion(f, Seq(Parsed), <<>>, L, step)
  <2>1. <<>> \in Seq(Parsed)
    OBVIOUS
  <2>. HIDE DEF step, L
  <2>. QED  BY <1>1, <1>2, <2>1, RecursionExists
<1>. HIDE DEF L
<1>4. f = Body(f)
  <2>1. f \in [0..L -> Seq(Parsed)] /\ f[0] = <<>>
    BY <1>3 DEF Recursion
  <2>2. ASSUME NEW n \in 1..L PROVE f[n] = TakeJourney(f[n - 1], journeyList[n], t)
    <3>1. f[n] = step[n][f[n - 1]]
      BY <1>3 DEF Recursion
    <3>2. f[n - 1] \in Seq(Parsed)
      BY <1>1, <2>1
    <3>. QED  BY <3>1, <3>2
  <2>3. \A n \in 0..L : f[n] = IF n = 0 THEN <<>> ELSE TakeJourney(f[n - 1], journeyList[n], t)
    BY <1>1, <2>1, <2>2
  <2>. QED  BY <2>1, <2>3
<1>5. taken = Body(taken)
  <2>. HIDE DEF Body
  <2>. QED  BY <1>4
<1>. HIDE DEF taken
<1>6. taken[0] = <<>> /\ \A n \in 1..L : taken[n] = TakeJourney(taken[n - 1], journeyList[n], t)
  <2>1. 0 \in 0..L /\ \A n \in 1..L : n \in 0..L /\ n # 0
    BY <1>1
  <2>. QED  BY <1>5, <2>1
<1>. DEFINE Good == {n \in Nat : n <= L => taken[n] \in Seq(Parsed) /\ Collected(taken[n], journeyList, t, n)}
<1>7. 0 \in Good
  <2>1. <<>> \in Seq(Parsed) /\ Len(<<>>) = 0
    OBVIOUS
  <2>2. Collected(<<>>, journeyList, t, 0)
    BY <2>1, MergerAssumption DEF Collected
  <2>. QED  BY <1>6, <2>1, <2>2
<1>8. ASSUME NEW n \in Nat, n \in Good PROVE n + 1 \in Good
  <2>. SUFFICES ASSUME n + 1 <= L
       PROVE  taken[n + 1] \in Seq(Parsed) /\ Collected(taken[n + 1], journeyList, t, n + 1)
    OBVIOUS
  <2>1. n + 1 \in 1..L /\ (n + 1) - 1 = n /\ n <= L
    BY <1>1
  <2>2. taken[n] \in Seq(Parsed) /\ Collected(taken[n], journeyList, t, n)
    BY <1>8, <2>1
  <2>3. taken[n + 1] = TakeJourney(taken[n], journeyList[n + 1], t)
    BY <1>6, <2>1
  <2>. QED  BY <2>1, <2>2, <2>3, TakeCollects DEF L
<1>9. L \in Good
  <2>. HIDE DEF Good
  <2>1. Nat \subseteq Good
    BY <1>7, <1>8, SetInduction
  <2>. QED  BY <1>1, <2>1
<1>10. ParseOebbStationBoard(journeyList, t) = taken[L]
  BY DEF ParseOebbStationBoard, taken, L
<1>. QED  BY <1>1, <1>9, <1>10 DEF L

\* What the row shows of the trains that are ahead, if none of those running
\* has left between start and at.
LEMMA TrainsShown ==
  ASSUME NEW J \in Seq(Journeys), NEW start \in Int, NEW at \in Int, start <= at,
         \A i \in 1..Len(J) : ~J[i].cancelled /\ Train(J[i]).when # 0 => Train(J[i]).when \notin start..at - 1
  PROVE  LET row     == MergeSlots(ParseOebbStationBoard(J, start), <<>>, at)
             ahead   == {i \in 1..Len(J) : ~J[i].cancelled /\ Train(J[i]).when # 0 /\ Train(J[i]).when >= at}
             minutes == {MinuteOf(Train(J[i])) : i \in ahead}
         IN  /\ row \in Seq(Parsed)
             /\ Len(row) = IF Cardinality(minutes) < MaxSlots THEN Cardinality(minutes) ELSE MaxSlots
             /\ Ordered(J, start) => \A n \in 1..Len(row) :
                  /\ \E i \in ahead : Train(J[i]).when = row[n].when
                  /\ Cardinality({m \in minutes : m < MinuteOf(row[n])}) = n - 1
                  /\ \A i \in ahead : MinuteOf(Train(J[i])) = MinuteOf(row[n]) => Train(J[i]).when >= row[n].when
<1>. DEFINE list == ParseOebbStationBoard(J, start)
            row == MergeSlots(list, <<>>, at)
            ahead == {i \in 1..Len(J) : ~J[i].cancelled /\ Train(J[i]).when # 0 /\ Train(J[i]).when >= at}
            minutes == {MinuteOf(Train(J[i])) : i \in ahead}
            slotMinutes == {MinuteOf(list[k]) : k \in 1..Len(list)}
            rowMinutes == {MinuteOf(row[n]) : n \in 1..Len(row)}
<1>0. MaxSlots \in Nat /\ Len(J) \in Nat
  BY MergerAssumption
<1>1. list \in Seq(Parsed) /\ Collected(list, J, start, Len(J))
  BY BoardCollected
<1>. HIDE DEF list
<1>2. Len(list) <= MaxSlots /\ Len(list) \in Nat
  BY <1>1 DEF Collected
<1>3. row \in Seq(Parsed) /\ RowOf(row, list, at)
  BY <1>1, <1>2, FewAreShown
<1>. HIDE DEF row
<1>4. Len(row) \in Nat
  BY <1>3
<1>5. \A i \in 1..Len(J) : Train(J[i]).when \in Int /\ MinuteOf(Train(J[i])) \in Int
  BY TrainParsed
<1>6. \A i \in 1..Len(J) : Takes(J[i], start) <=> i \in ahead
  BY <1>5 DEF Takes
<1>7. \A n \in 1..Len(row) : row[n].when \in Int /\ MinuteOf(row[n]) \in Int
  <2>1. \A n \in 1..Len(row) : row[n] \in Parsed
    BY <1>3
  <2>. QED  BY <2>1, ParsedTimed, MinutesInOrder DEF Parsed
<1>. HIDE DEF ahead
<1>8. \A i \in ahead : i \in 1..Len(J) /\ Train(J[i]).when >= at
  BY DEF ahead
<1>9. \A k \in 1..Len(list) : list[k].when >= at /\ \E i \in ahead : list[k] = Train(J[i])
  <2>1. \A k \in 1..Len(list) : \E i \in 1..Len(J) : Takes(J[i], start) /\ list[k] = Train(J[i])
    BY <1>1 DEF Collected
  <2>. QED  BY <1>6, <1>8, <2>1
<1>10. \A k, l \in 1..Len(list) : MinuteOf(list[k]) = MinuteOf(list[l]) => k = l
  BY <1>1 DEF Collected
<1>11. \A n, m \in 1..Len(row) : MinuteOf(row[n]) = MinuteOf(row[m]) => n = m
  <2>1. \A n, m \in 1..Len(row) : n < m => MinuteOf(row[n]) < MinuteOf(row[m])
    BY <1>3 DEF RowOf
  <2>. QED  BY <1>4, <1>7, <2>1
<1>12. Cardinality(slotMinutes) = Len(list)
  <2>. DEFINE f == [k \in 1..Len(list) |-> MinuteOf(list[k])]
  <2>1. slotMinutes = Values(f, Len(list))
    BY DEF Values
  <2>2. Differ(f, Len(list))
    BY <1>10 DEF Differ
  <2>. HIDE DEF f, slotMinutes
  <2>. QED  BY <1>2, <2>1, <2>2, ImageSize
<1>13. Cardinality(rowMinutes) = Len(row)
  <2>. DEFINE f == [k \in 1..Len(row) |-> MinuteOf(row[k])]
  <2>1. rowMinutes = Values(f, Len(row))
    BY DEF Values
  <2>2. Differ(f, Len(row))
    BY <1>11 DEF Differ
  <2>. HIDE DEF f, rowMinutes
  <2>. QED  BY <1>4, <2>1, <2>2, ImageSize
<1>14. rowMinutes = slotMinutes
  <2>1. \A n \in 1..Len(row) : \E k \in 1..Len(list) : list[k] = row[n]
    BY <1>3 DEF RowOf
  <2>2. \A k \in 1..Len(list) : \E n \in 1..Len(row) : MinuteOf(row[n]) = MinuteOf(list[k])
    BY <1>3, <1>9 DEF RowOf
  <2>3. \A m : m \in rowMinutes => m \in slotMinutes
    BY <2>1
  <2>4. \A m : m \in slotMinutes => m \in rowMinutes
    BY <2>2
  <2>. HIDE DEF rowMinutes, slotMinutes
  <2>. QED  BY <2>3, <2>4
<1>15. IsFiniteSet(minutes) /\ Cardinality(minutes) \in Nat
  <2>. DEFINE f == [i \in 1..Len(J) |-> MinuteOf(Train(J[i]))]
              T == Values(f, Len(J))
  <2>1. IsFiniteSet(T)
    <3>. HIDE DEF f
    <3>. QED  BY <1>0, ImageSize
  <2>2. minutes \in SUBSET T
    BY <1>8 DEF Values
  <2>. HIDE DEF T, minutes
  <2>. QED  BY <2>1, <2>2, FS_Subset, FS_CardinalityType
<1>16. slotMinutes \in SUBSET minutes
  BY <1>9
<1>17. Len(list) < MaxSlots => minutes \in SUBSET slotMinutes
  <2>. SUFFICES ASSUME Len(list) < MaxSlots, NEW i \in ahead
                PROVE  \E k \in 1..Len(list) : MinuteOf(list[k]) = MinuteOf(Train(J[i]))
    OBVIOUS
  <2>1. i \in 1..Len(J) /\ Takes(J[i], start)
    BY <1>6, <1>8
  <2>. QED  BY <1>1, <2>1 DEF Collected
<1>18. Len(row) = IF Cardinality(minutes) < MaxSlots THEN Cardinality(minutes) ELSE MaxSlots
  <2>. HIDE DEF minutes, slotMinutes, rowMinutes
  <2>1. Len(row) = Len(list)
    BY <1>12, <1>13, <1>14
  <2>2. Len(list) <= Cardinality(minutes)
    BY <1>12, <1>15, <1>16, FS_Subset
  <2>3. Len(list) < MaxSlots => minutes = slotMinutes
    BY <1>16, <1>17
  <2>4. Len(list) < MaxSlots => Cardinality(minutes) = Len(list)
    BY <1>12, <2>3
  <2>. QED  BY <1>0, <1>2, <1>15, <2>1, <2>2, <2>4
<1>19. ASSUME Ordered(J, start), NEW n \in 1..Len(row)
       PROVE  /\ \E i \in ahead : Train(J[i]).when = row[n].when
              /\ Cardinality({m \in minutes : m < MinuteOf(row[n])}) = n - 1
              /\ \A i \in ahead : MinuteOf(Train(J[i])) = MinuteOf(row[n]) => Train(J[i]).when >= row[n].when
  <2>1. PICK k \in 1..Len(list) : list[k] = row[n]
    BY <1>3 DEF RowOf
  \* A train that is not shown is later than the whole row.
  <2>2. ASSUME NEW i \in ahead
        PROVE  \/ \E l \in 1..Len(list) : /\ MinuteOf(list[l]) = MinuteOf(Train(J[i]))
                                           /\ list[l].when <= Train(J[i]).when
               \/ \A l \in 1..Len(list) : MinuteOf(list[l]) < MinuteOf(Train(J[i]))
    <3>1. i \in 1..Len(J) /\ Takes(J[i], start)
      BY <1>6, <1>8
    <3>. QED  BY <1>1, <1>19, <3>1 DEF Collected
  <2>3. \E i \in ahead : Train(J[i]).when = row[n].when
    <3>1. PICK i \in ahead : list[k] = Train(J[i])
      BY <1>9
    <3>. QED  BY <2>1, <3>1
  <2>4. ASSUME NEW i \in ahead, MinuteOf(Train(J[i])) = MinuteOf(row[n])
        PROVE  Train(J[i]).when >= row[n].when
    <3>1. MinuteOf(list[k]) = MinuteOf(Train(J[i])) /\ MinuteOf(Train(J[i])) \in Int
      BY <1>5, <1>8, <2>1, <2>4
    <3>2. PICK l \in 1..Len(list) : /\ MinuteOf(list[l]) = MinuteOf(Train(J[i]))
                                     /\ list[l].when <= Train(J[i]).when
      BY <2>2, <3>1
    <3>3. l = k
      BY <1>10, <3>1, <3>2
    <3>4. Train(J[i]).when \in Int /\ row[n].when \in Int
      BY <1>5, <1>7, <1>8
    <3>. QED  BY <2>1, <3>2, <3>3, <3>4
  <2>5. Cardinality({m \in minutes : m < MinuteOf(row[n])}) = n - 1
    <3>. DEFINE f == [l \in 1..n - 1 |-> MinuteOf(row[l])]
                Sooner == {m \in minutes : m < MinuteOf(row[n])}
    <3>0. n - 1 \in Nat /\ \A l \in 1..n - 1 : l \in 1..Len(row) /\ l < n
      BY <1>4
    <3>1. \A l \in 1..n - 1 : f[l] \in Sooner
      <4>. SUFFICES ASSUME NEW l \in 1..n - 1 PROVE MinuteOf(row[l]) \in Sooner
        OBVIOUS
      <4>1. MinuteOf(row[l]) < MinuteOf(row[n])
        BY <1>3, <3>0 DEF RowOf
      <4>2. MinuteOf(row[l]) \in rowMinutes
        BY <3>0
      <4>3. MinuteOf(row[l]) \in minutes
        <5>. HIDE DEF rowMinutes, slotMinutes, minutes
        <5>. QED  BY <1>14, <1>16, <4>2
      <4>. HIDE DEF minutes
      <4>. QED  BY <4>1, <4>3
    <3>2. ASSUME NEW i \in ahead, MinuteOf(Train(J[i])) < MinuteOf(row[n])
          PROVE  \E l \in 1..n - 1 : MinuteOf(row[l]) = MinuteOf(Train(J[i]))
      <4>1. PICK l \in 1..Len(list) : MinuteOf(list[l]) = MinuteOf(Train(J[i]))
        <5>1. ~(MinuteOf(list[k]) < MinuteOf(Train(J[i])))
          BY <1>5, <1>7, <1>8, <2>1, <3>2
        <5>. QED  BY <2>2, <5>1
      <4>2. PICK p \in 1..Len(row) : MinuteOf(row[p]) = MinuteOf(Train(J[i]))
        BY <1>3, <1>9, <4>1 DEF RowOf
      <4>3. ~(n < p) /\ n # p
        <5>1. n < p => MinuteOf(row[n]) < MinuteOf(row[p])
          BY <1>3 DEF RowOf
        <5>. QED  BY <1>7, <3>2, <4>2, <5>1
      <4>4. p \in 1..n - 1
        BY <4>3
      <4>. QED  BY <4>2, <4>4
    <3>3. Sooner = Values(f, n - 1)
      <4>1. \A m \in Sooner : \E l \in 1..n - 1 : f[l] = m
        BY <3>2
      <4>. HIDE DEF Sooner, f
      <4>. QED  BY <3>1, <4>1 DEF Values
    <3>4. Differ(f, n - 1)
      BY <1>11, <3>0 DEF Differ
    <3>. HIDE DEF f, Sooner
    <3>5. Cardinality(Sooner) = n - 1
      BY <3>0, <3>3, <3>4, ImageSize
    <3>. QED  BY <3>5 DEF Sooner
  <2>. QED  BY <2>3, <2>4, <2>5
<1>. HIDE DEF minutes, slotMinutes, rowMinutes
<1>. QED  BY <1>3, <1>18, <1>19 DEF row, list, ahead, minutes

(***************************************************************************)
(* The buses: what parseMonitorResponse takes from the departures of a     *)
(* line, and from the monitors.                                            *)
(***************************************************************************)
DepartureSlot(dep) == Slot(ParseIso8601(dep.plan), ParseIso8601(dep.real), ParseIso8601(dep.plan))
Readable(departures) == \A i \in 1..Len(departures) : DepartureSlot(departures[i]) \in Parsed
KnownTo(departures, n) == {i \in 1..n : DepartureSlot(departures[i]).when # 0}
FirstTo(departures, n) ==
  {i \in KnownTo(departures, n) : Cardinality({j \in KnownTo(departures, n) : j < i}) < MaxSlots}

\* The slots are the first departures with a time.
Lined(list, departures, n) ==
  /\ list \in Seq(Parsed)
  /\ Len(list) = IF Cardinality(KnownTo(departures, n)) < MaxSlots
                  THEN Cardinality(KnownTo(departures, n)) ELSE MaxSlots
  /\ \A k \in 1..Len(list) : \E i \in FirstTo(departures, n) : list[k] = DepartureSlot(departures[i])
  /\ \A i \in FirstTo(departures, n) : \E k \in 1..Len(list) : list[k] = DepartureSlot(departures[i])

LEMMA KnownFinite ==
  ASSUME NEW departures, NEW n \in Nat
  PROVE  IsFiniteSet(KnownTo(departures, n)) /\ Cardinality(KnownTo(departures, n)) \in Nat
<1>1. IsFiniteSet(1..n)
  BY FS_Interval
<1>2. KnownTo(departures, n) \in SUBSET (1..n)
  BY DEF KnownTo
<1>. QED  BY <1>1, <1>2, FS_Subset, FS_CardinalityType

LEMMA TakeLines ==
  ASSUME NEW departures, NEW n \in Nat, DepartureSlot(departures[n + 1]) \in Parsed,
         NEW list, Lined(list, departures, n)
  PROVE  Lined(TakeDeparture(list, departures[n + 1]), departures, n + 1)
<1>. DEFINE d == DepartureSlot(departures[n + 1])
            next == TakeDeparture(list, departures[n + 1])
            known == KnownTo(departures, n)
            more == KnownTo(departures, n + 1)
            first == FirstTo(departures, n)
            firstMore == FirstTo(departures, n + 1)
            L == Len(list)
            C == Cardinality(known)
<1>1. IsFiniteSet(known) /\ C \in Nat
  BY KnownFinite
<1>2. MaxSlots \in Nat /\ list \in Seq(Parsed) /\ L \in Nat /\ L = (IF C < MaxSlots THEN C ELSE MaxSlots)
  BY MergerAssumption DEF Lined
<1>3. next = IF d.when = 0 \/ L >= MaxSlots THEN list ELSE Append(list, d)
  BY DEF TakeDeparture, DepartureSlot
<1>4. n + 1 \notin known /\ \A i \in known : i \in 1..n
  BY DEF KnownTo
<1>5. more = IF d.when = 0 THEN known ELSE known \cup {n + 1}
  BY DEF KnownTo
<1>. HIDE DEF d, known, more, first, firstMore, next
<1>6. \A i \in known : {j \in more : j < i} = {j \in known : j < i}
  BY <1>4, <1>5
<1>7. {j \in more : j < n + 1} = known
  BY <1>4, <1>5
<1>8. CASE d.when = 0
  <2>1. next = list /\ more = known
    BY <1>3, <1>5, <1>8
  <2>2. firstMore = first
    BY <2>1 DEF first, firstMore, FirstTo, known, more
  <2>. QED  BY <2>1, <2>2 DEF Lined, next, known, more, first, firstMore
<1>9. CASE d.when # 0
  <2>1. more = known \cup {n + 1}
    BY <1>5, <1>9
  <2>2. Cardinality(more) = C + 1
    BY <1>1, <1>4, <2>1, FS_AddElement
  <2>3. \A i : i \in firstMore <=> i \in more /\ Cardinality({j \in more : j < i}) < MaxSlots
    BY DEF firstMore, FirstTo, more
  <2>4. \A i : i \in first <=> i \in known /\ Cardinality({j \in known : j < i}) < MaxSlots
    BY DEF first, FirstTo, known
  <2>5. firstMore = IF C < MaxSlots THEN first \cup {n + 1} ELSE first
    <3>1. n + 1 \in firstMore <=> C < MaxSlots
      BY <1>7, <2>1, <2>3
    <3>2. \A i \in known : i \in firstMore <=> i \in first
      BY <1>6, <2>1, <2>3, <2>4
    <3>3. \A i : i \in firstMore => i \in known \/ i = n + 1
      BY <2>1, <2>3
    <3>4. \A i : i \in first => i \in known
      BY <2>4
    <3>. QED  BY <1>4, <3>1, <3>2, <3>3, <3>4
  <2>6. CASE C < MaxSlots
    <3>1. next = Append(list, d)
      BY <1>1, <1>2, <1>3, <1>9, <2>6
    <3>2. /\ next \in Seq(Parsed) /\ Len(next) = L + 1 /\ next[L + 1] = d
          /\ \A k \in 1..L : next[k] = list[k]
      BY <1>2, <3>1 DEF d
    <3>3. \A k \in 1..L : \E i \in first : list[k] = DepartureSlot(departures[i])
      BY DEF Lined, first
    <3>4. \A i \in first : \E k \in 1..L : list[k] = DepartureSlot(departures[i])
      BY DEF Lined, first
    <3>5. firstMore = first \cup {n + 1}
      BY <2>5, <2>6
    <3>6. \A k : k \in 1..Len(next) <=> k \in 1..L \/ k = L + 1
      BY <1>2, <3>2
    <3>7. \A k \in 1..Len(next) : \E i \in firstMore : next[k] = DepartureSlot(departures[i])
      BY <3>2, <3>3, <3>5, <3>6 DEF d
    <3>8. \A i \in firstMore : \E k \in 1..Len(next) : next[k] = DepartureSlot(departures[i])
      BY <3>2, <3>4, <3>5, <3>6 DEF d
    <3>9. Len(next) = IF Cardinality(more) < MaxSlots THEN Cardinality(more) ELSE MaxSlots
      BY <1>1, <1>2, <2>2, <2>6, <3>2
    <3>. QED  BY <3>2, <3>7, <3>8, <3>9 DEF Lined, next, more, firstMore
  <2>7. CASE ~(C < MaxSlots)
    <3>1. next = list /\ firstMore = first
      BY <1>1, <1>2, <1>3, <2>5, <2>7
    <3>2. L = IF Cardinality(more) < MaxSlots THEN Cardinality(more) ELSE MaxSlots
      BY <1>1, <1>2, <2>2, <2>7
    <3>. QED  BY <1>2, <3>1, <3>2 DEF Lined, next, more, first, firstMore
  <2>. QED  BY <2>6, <2>7
<1>. QED  BY <1>8, <1>9

\* After the last departure.
LEMMA LineCollected ==
  ASSUME NEW departures, Len(departures) \in Nat, Readable(departures)
  PROVE  Lined(LineSlots(departures), departures, Len(departures))
<1>. DEFINE L == Len(departures)
            Body(f) == [n \in 0..L |-> IF n = 0 THEN <<>> ELSE TakeDeparture(f[n - 1], departures[n])]
            taken == CHOOSE f : f = Body(f)
            step == [n \in 1..L |-> [s \in Seq(Parsed) |-> TakeDeparture(s, departures[n])]]
<1>1. L \in Nat
  OBVIOUS
<1>2. step \in [1..L -> [Seq(Parsed) -> Seq(Parsed)]]
  <2>. SUFFICES ASSUME NEW n \in 1..L, NEW s \in Seq(Parsed)
                PROVE  TakeDeparture(s, departures[n]) \in Seq(Parsed)
    OBVIOUS
  <2>1. DepartureSlot(departures[n]) \in Parsed
    BY DEF Readable
  <2>. QED  BY <2>1 DEF TakeDeparture, DepartureSlot
<1>3. PICK f : Recursion(f, Seq(Parsed), <<>>, L, step)
  <2>1. <<>> \in Seq(Parsed)
    OBVIOUS
  <2>. HIDE DEF step, L
  <2>. QED  BY <1>1, <1>2, <2>1, RecursionExists
<1>. HIDE DEF L
<1>4. f = Body(f)
  <2>1. f \in [0..L -> Seq(Parsed)] /\ f[0] = <<>>
    BY <1>3 DEF Recursion
  <2>2. ASSUME NEW n \in 1..L PROVE f[n] = TakeDeparture(f[n - 1], departures[n])
    <3>1. f[n] = step[n][f[n - 1]]
      BY <1>3 DEF Recursion
    <3>2. f[n - 1] \in Seq(Parsed)
      BY <1>1, <2>1
    <3>. QED  BY <3>1, <3>2
  <2>3. \A n \in 0..L : f[n] = IF n = 0 THEN <<>> ELSE TakeDeparture(f[n - 1], departures[n])
    BY <1>1, <2>1, <2>2
  <2>. QED  BY <2>1, <2>3
<1>5. taken = Body(taken)
  <2>. HIDE DEF Body
  <2>. QED  BY <1>4
<1>. HIDE DEF taken
<1>6. taken[0] = <<>> /\ \A n \in 1..L : taken[n] = TakeDeparture(taken[n - 1], departures[n])
  <2>1. 0 \in 0..L /\ \A n \in 1..L : n \in 0..L /\ n # 0
    BY <1>1
  <2>. QED  BY <1>5, <2>1
<1>. DEFINE Good == {n \in Nat : n <= L => Lined(taken[n], departures, n)}
<1>7. 0 \in Good
  <2>1. <<>> \in Seq(Parsed) /\ Len(<<>>) = 0
    OBVIOUS
  <2>2. KnownTo(departures, 0) = {} /\ FirstTo(departures, 0) = {}
    BY DEF KnownTo, FirstTo
  <2>3. Cardinality({}) = 0
    BY FS_EmptySet
  <2>4. Lined(<<>>, departures, 0)
    BY <2>1, <2>2, <2>3, MergerAssumption DEF Lined
  <2>. QED  BY <1>6, <2>4
<1>8. ASSUME NEW n \in Nat, n \in Good PROVE n + 1 \in Good
  <2>. SUFFICES ASSUME n + 1 <= L PROVE Lined(taken[n + 1], departures, n + 1)
    OBVIOUS
  <2>1. n + 1 \in 1..L /\ (n + 1) - 1 = n /\ n <= L
    BY <1>1
  <2>2. Lined(taken[n], departures, n)
    BY <1>8, <2>1
  <2>3. taken[n + 1] = TakeDeparture(taken[n], departures[n + 1])
    BY <1>6, <2>1
  <2>4. DepartureSlot(departures[n + 1]) \in Parsed
    BY <2>1 DEF Readable, L
  <2>. QED  BY <2>2, <2>3, <2>4, TakeLines
<1>9. L \in Good
  <2>. HIDE DEF Good
  <2>1. Nat \subseteq Good
    BY <1>7, <1>8, SetInduction
  <2>. QED  BY <1>1, <2>1
<1>10. LineSlots(departures) = taken[L]
  BY DEF LineSlots, taken, L
<1>. QED  BY <1>1, <1>9, <1>10 DEF L

\* The lines of a stream among the first n monitors, and their departures.
OwnTo(M, s, n) ==
  {own \in UNION {{i} \X DOMAIN M[i].lines : i \in 1..n} :
     M[own[1]].rbl = Filters[s].rbl /\ Serves(s, M[own[1]].lines[own[2]])}
Departures(M, own) == M[own[1]].lines[own[2]].departures

\* A reply that can be read.
Reply(M) ==
  /\ M = [i \in 1..Len(M) |-> M[i]] /\ Len(M) \in Nat
  /\ \A i \in 1..Len(M) : /\ DOMAIN M[i].lines = 1..Len(M[i].lines) /\ Len(M[i].lines) \in Nat
                          /\ \A l \in DOMAIN M[i].lines : /\ Len(M[i].lines[l].departures) \in Nat
                                                          /\ Readable(M[i].lines[l].departures)

\* The slots are departures of own lines; all of the first, if there is one line.
Owned(list, M, s, n) ==
  /\ list \in Seq(Parsed) /\ Len(list) <= MaxSlots
  /\ \A k \in 1..Len(list) : \E own \in OwnTo(M, s, n) :
       \E i \in KnownTo(Departures(M, own), Len(Departures(M, own))) :
         list[k] = DepartureSlot(Departures(M, own)[i])
  /\ OwnTo(M, s, n) = {} => list = <<>>
  /\ \A own \in OwnTo(M, s, n) : OwnTo(M, s, n) = {own} => list = LineSlots(Departures(M, own))

LEMMA OwnMember ==
  ASSUME NEW M, NEW s, NEW n, NEW i, NEW l
  PROVE  <<i, l>> \in OwnTo(M, s, n) <=>
           i \in 1..n /\ l \in DOMAIN M[i].lines /\ M[i].rbl = Filters[s].rbl /\ Serves(s, M[i].lines[l])
BY DEF OwnTo

LEMMA OwnShape ==
  ASSUME NEW M, NEW s, NEW n, NEW own \in OwnTo(M, s, n)
  PROVE  \E i \in 1..n : \E l \in DOMAIN M[i].lines : own = <<i, l>>
BY DEF OwnTo

LEMMA LinesParsed ==
  ASSUME NEW M, Reply(M), NEW i \in 1..Len(M), NEW l \in DOMAIN M[i].lines
  PROVE  LET departures == M[i].lines[l].departures
         IN  /\ Lined(LineSlots(departures), departures, Len(departures))
             /\ LineSlots(departures) \in Seq(Parsed) /\ Len(LineSlots(departures)) <= MaxSlots
<1>. DEFINE departures == M[i].lines[l].departures
<1>1. Len(departures) \in Nat /\ Readable(departures)
  BY DEF Reply
<1>. HIDE DEF departures
<1>2. Lined(LineSlots(departures), departures, Len(departures))
  BY <1>1, LineCollected
<1>3. Cardinality(KnownTo(departures, Len(departures))) \in Nat /\ MaxSlots \in Nat
  BY <1>1, KnownFinite, MergerAssumption
<1>4. LineSlots(departures) \in Seq(Parsed) /\ Len(LineSlots(departures)) <= MaxSlots
  BY <1>2, <1>3 DEF Lined
<1>. QED  BY <1>2, <1>4 DEF departures

\* What is written over the front of what was there.
LEMMA WrittenOver ==
  ASSUME NEW new \in Seq(Parsed), NEW old \in Seq(Parsed), Len(new) <= MaxSlots, Len(old) <= MaxSlots
  PROVE  LET over == new \o SubSeq(old, Len(new) + 1, Len(old))
         IN  /\ over \in Seq(Parsed) /\ Len(over) <= MaxSlots
             /\ \A k \in 1..Len(over) : \/ k \in 1..Len(new) /\ over[k] = new[k]
                                        \/ k \in 1..Len(old) /\ over[k] = old[k]
             /\ old = <<>> => over = new
<1>. DEFINE tail == SubSeq(old, Len(new) + 1, Len(old))
            over == new \o tail
<1>0. MaxSlots \in Nat /\ Len(new) \in Nat /\ Len(old) \in Nat
  BY MergerAssumption
<1>1. /\ tail \in Seq(Parsed)
      /\ Len(tail) = IF Len(new) < Len(old) THEN Len(old) - Len(new) ELSE 0
      /\ \A k \in 1..Len(tail) : tail[k] = old[Len(new) + k]
  OBVIOUS
<1>. HIDE DEF tail
<1>2. /\ over \in Seq(Parsed) /\ Len(over) = Len(new) + Len(tail)
      /\ \A k \in 1..Len(over) : over[k] = IF k <= Len(new) THEN new[k] ELSE tail[k - Len(new)]
  BY <1>1
<1>. HIDE DEF over
<1>3. ASSUME NEW k \in 1..Len(over)
      PROVE  \/ k \in 1..Len(new) /\ over[k] = new[k]
             \/ k \in 1..Len(old) /\ over[k] = old[k]
  <2>1. CASE k <= Len(new)
    <3>1. k \in 1..Len(new)
      BY <1>0, <1>2, <2>1
    <3>. QED  BY <1>2, <2>1, <3>1
  <2>2. CASE ~(k <= Len(new))
    <3>1. k - Len(new) \in 1..Len(tail) /\ Len(new) + (k - Len(new)) = k
      BY <1>1, <1>2, <2>2
    <3>2. over[k] = tail[k - Len(new)] /\ tail[k - Len(new)] = old[k]
      BY <1>0, <1>1, <1>2, <2>2, <3>1
    <3>. QED  BY <1>1, <1>2, <2>2, <3>1, <3>2
  <2>. QED  BY <2>1, <2>2
<1>4. Len(over) <= MaxSlots
  BY <1>0, <1>1, <1>2
<1>5. ASSUME old = <<>> PROVE over = new
  <2>1. Len(over) = Len(new) /\ \A k \in 1..Len(new) : over[k] = new[k]
    BY <1>1, <1>2, <1>5
  <2>. QED  BY <1>2, <2>1
<1>. QED  BY <1>2, <1>3, <1>4, <1>5 DEF over, tail

\* One monitor keeps this.
LEMMA TakeOwns ==
  ASSUME NEW M, Reply(M), NEW s, NEW n \in Nat, n + 1 <= Len(M), NEW list, Owned(list, M, s, n)
  PROVE  Owned(TakeMonitor(s, list, M[n + 1]), M, s, n + 1)
<1>. DEFINE mon == M[n + 1]
            mine == {l \in DOMAIN mon.lines : Serves(s, mon.lines[l])}
            least == CHOOSE l \in mine : \A m \in mine : l <= m
            new == LineSlots(mon.lines[least].departures)
            next == TakeMonitor(s, list, mon)
            own == OwnTo(M, s, n)
            more == OwnTo(M, s, n + 1)
<1>0. n + 1 \in 1..Len(M) /\ \A i : i \in 1..(n + 1) <=> i \in 1..n \/ i = n + 1
  BY DEF Reply
<1>1. next = IF mon.rbl # Filters[s].rbl \/ mine = {} THEN list
             ELSE new \o SubSeq(list, Len(new) + 1, Len(list))
  BY DEF TakeMonitor
<1>2. list \in Seq(Parsed) /\ Len(list) <= MaxSlots
  BY DEF Owned
<1>3. \A e \in own : e \in more
  <2>. SUFFICES ASSUME NEW e \in own PROVE e \in more
    OBVIOUS
  <2>1. PICK i, l : i \in 1..n /\ l \in DOMAIN M[i].lines /\ e = <<i, l>>
    BY OwnShape
  <2>. QED  BY <1>0, <2>1, OwnMember
<1>4. \A e \in more : e \in own \/ (mon.rbl = Filters[s].rbl /\ \E l \in mine : e = <<n + 1, l>>)
  <2>. SUFFICES ASSUME NEW e \in more
                PROVE  e \in own \/ (mon.rbl = Filters[s].rbl /\ \E l \in mine : e = <<n + 1, l>>)
    OBVIOUS
  <2>1. PICK i, l : i \in 1..(n + 1) /\ l \in DOMAIN M[i].lines /\ e = <<i, l>>
    BY OwnShape
  <2>2. M[i].rbl = Filters[s].rbl /\ Serves(s, M[i].lines[l])
    BY <2>1, OwnMember
  <2>3. CASE i \in 1..n
    BY <2>1, <2>2, <2>3, OwnMember
  <2>4. CASE i = n + 1
    BY <2>1, <2>2, <2>4
  <2>. QED  BY <1>0, <2>1, <2>3, <2>4
<1>5. ASSUME mon.rbl = Filters[s].rbl, NEW l \in mine PROVE <<n + 1, l>> \in more /\ <<n + 1, l>> \notin own
  BY <1>0, <1>5, OwnMember
<1>. HIDE DEF mon, next, own, more, new, least
<1>6. CASE mon.rbl # Filters[s].rbl \/ mine = {}
  <2>1. next = list
    BY <1>1, <1>6
  <2>2. more = own
    <3>. HIDE DEF mine
    <3>. QED  BY <1>3, <1>4, <1>6
  <2>. QED  BY <2>1, <2>2 DEF Owned, next, mon, more, own
<1>7. CASE mon.rbl = Filters[s].rbl /\ mine # {}
  <2>1. least \in mine
    <3>1. mine \in SUBSET Nat
      BY <1>0 DEF mon, Reply
    <3>2. \E l \in mine : \A m \in mine : l <= m
      <4>. HIDE DEF mine
      <4>. QED  BY <1>7, <3>1, LeastNatural
    <3>. HIDE DEF mine
    <3>. QED  BY <3>2 DEF least
  <2>2. <<n + 1, least>> \in more /\ <<n + 1, least>> \notin own
    BY <1>5, <1>7, <2>1
  <2>3. Departures(M, <<n + 1, least>>) = mon.lines[least].departures
    BY DEF Departures, mon
  <2>. DEFINE departures == mon.lines[least].departures
  <2>4. Lined(new, departures, Len(departures)) /\ new \in Seq(Parsed) /\ Len(new) <= MaxSlots
    <3>1. least \in DOMAIN M[n + 1].lines
      BY <2>1 DEF mon
    <3>. QED  BY <1>0, <3>1, LinesParsed DEF new, mon
  <2>. DEFINE over == new \o SubSeq(list, Len(new) + 1, Len(list))
  <2>5. next = over
    BY <1>1, <1>7
  <2>6. /\ over \in Seq(Parsed) /\ Len(over) <= MaxSlots
        /\ \A k \in 1..Len(over) : \/ k \in 1..Len(new) /\ over[k] = new[k]
                                   \/ k \in 1..Len(list) /\ over[k] = list[k]
        /\ list = <<>> => over = new
    BY <1>2, <2>4, WrittenOver
  <2>. HIDE DEF over, departures
  <2>7. ASSUME NEW k \in 1..Len(over)
        PROVE  \E e \in more : \E i \in KnownTo(Departures(M, e), Len(Departures(M, e))) :
                 over[k] = DepartureSlot(Departures(M, e)[i])
    <3>1. CASE k \in 1..Len(new) /\ over[k] = new[k]
      <4>1. PICK i \in FirstTo(departures, Len(departures)) : new[k] = DepartureSlot(departures[i])
        BY <2>4, <3>1 DEF Lined
      <4>2. i \in KnownTo(departures, Len(departures))
        BY <4>1 DEF FirstTo
      <4>. QED  BY <2>2, <2>3, <3>1, <4>1, <4>2 DEF departures
    <3>2. CASE k \in 1..Len(list) /\ over[k] = list[k]
      <4>1. \E e \in own : \E i \in KnownTo(Departures(M, e), Len(Departures(M, e))) :
              list[k] = DepartureSlot(Departures(M, e)[i])
        BY <3>2 DEF Owned, own
      <4>. QED  BY <1>3, <3>2, <4>1
    <3>. QED  BY <2>6, <2>7, <3>1, <3>2
  <2>8. ASSUME NEW e \in more, more = {e} PROVE over = LineSlots(Departures(M, e))
    <3>1. e = <<n + 1, least>>
      BY <2>2, <2>8
    <3>2. own = {}
      BY <1>3, <2>2, <2>8
    <3>3. list = <<>>
      BY <3>2 DEF Owned, own
    <3>. QED  BY <2>3, <2>6, <3>1, <3>3 DEF new
  <2>9. more # {}
    BY <2>2
  <2>. QED  BY <2>5, <2>6, <2>7, <2>8, <2>9 DEF Owned, next, mon, more
<1>. QED  BY <1>6, <1>7

\* After the last monitor.
LEMMA StreamCollected ==
  ASSUME NEW M, Reply(M), NEW asked, NEW s \in asked, s \in ToSet(StreamOrder)
  PROVE  Owned(ParseMonitorResponse(M, asked)[s], M, s, Len(M))
<1>. DEFINE L == Len(M)
            Body(f) == [n \in 0..L |-> IF n = 0 THEN <<>> ELSE TakeMonitor(s, f[n - 1], M[n])]
            taken == CHOOSE f : f = Body(f)
            Few == {x \in Seq(Parsed) : Len(x) <= MaxSlots}
            step == [n \in 1..L |-> [x \in Few |-> TakeMonitor(s, x, M[n])]]
<1>1. L \in Nat
  BY DEF Reply
<1>2. step \in [1..L -> [Few -> Few]]
  <2>. SUFFICES ASSUME NEW n \in 1..L, NEW x \in Few PROVE TakeMonitor(s, x, M[n]) \in Few
    OBVIOUS
  <2>. DEFINE mon == M[n]
              mine == {l \in DOMAIN mon.lines : Serves(s, mon.lines[l])}
              least == CHOOSE l \in mine : \A m \in mine : l <= m
              new == LineSlots(mon.lines[least].departures)
              over == new \o SubSeq(x, Len(new) + 1, Len(x))
  <2>1. TakeMonitor(s, x, M[n]) = IF mon.rbl # Filters[s].rbl \/ mine = {} THEN x ELSE over
    BY DEF TakeMonitor
  <2>2. ASSUME mine # {} PROVE over \in Few
    <3>1. mine \in SUBSET Nat
      BY DEF Reply
    <3>2. least \in mine
      <4>1. \E l \in mine : \A m \in mine : l <= m
        <5>. HIDE DEF mine
        <5>. QED  BY <2>2, <3>1, LeastNatural
      <4>. HIDE DEF mine
      <4>. QED  BY <4>1
    <3>3. least \in DOMAIN M[n].lines
      BY <3>2
    <3>. HIDE DEF least
    <3>4. new \in Seq(Parsed) /\ Len(new) <= MaxSlots
      BY <3>3, LinesParsed
    <3>. HIDE DEF new
    <3>. QED  BY <3>4, WrittenOver
  <2>. HIDE DEF mine, over
  <2>. QED  BY <2>1, <2>2
<1>3. PICK f : Recursion(f, Few, <<>>, L, step)
  <2>1. <<>> \in Few
    BY MergerAssumption
  <2>. HIDE DEF step, L, Few
  <2>. QED  BY <1>1, <1>2, <2>1, RecursionExists
<1>. HIDE DEF L
<1>4. f = Body(f)
  <2>1. f \in [0..L -> Few] /\ f[0] = <<>>
    BY <1>3 DEF Recursion
  <2>. HIDE DEF Few
  <2>2. ASSUME NEW n \in 1..L PROVE f[n] = TakeMonitor(s, f[n - 1], M[n])
    <3>1. f[n] = step[n][f[n - 1]]
      BY <1>3 DEF Recursion
    <3>2. f[n - 1] \in Few
      BY <1>1, <2>1
    <3>. QED  BY <3>1, <3>2
  <2>3. \A n \in 0..L : f[n] = IF n = 0 THEN <<>> ELSE TakeMonitor(s, f[n - 1], M[n])
    BY <1>1, <2>1, <2>2
  <2>. QED  BY <2>1, <2>3
<1>5. taken = Body(taken)
  <2>. HIDE DEF Body
  <2>. QED  BY <1>4
<1>. HIDE DEF taken
<1>6. taken[0] = <<>> /\ \A n \in 1..L : taken[n] = TakeMonitor(s, taken[n - 1], M[n])
  <2>1. 0 \in 0..L /\ \A n \in 1..L : n \in 0..L /\ n # 0
    BY <1>1
  <2>. QED  BY <1>5, <2>1
<1>. DEFINE Good == {n \in Nat : n <= L => Owned(taken[n], M, s, n)}
<1>7. 0 \in Good
  <2>1. <<>> \in Seq(Parsed) /\ Len(<<>>) = 0
    OBVIOUS
  <2>2. OwnTo(M, s, 0) = {}
    BY DEF OwnTo
  <2>3. Owned(<<>>, M, s, 0)
    BY <2>1, <2>2, MergerAssumption DEF Owned
  <2>. QED  BY <1>6, <2>3
<1>8. ASSUME NEW n \in Nat, n \in Good PROVE n + 1 \in Good
  <2>. SUFFICES ASSUME n + 1 <= L PROVE Owned(taken[n + 1], M, s, n + 1)
    OBVIOUS
  <2>1. n + 1 \in 1..L /\ (n + 1) - 1 = n /\ n <= L
    BY <1>1
  <2>2. Owned(taken[n], M, s, n)
    BY <1>8, <2>1
  <2>3. taken[n + 1] = TakeMonitor(s, taken[n], M[n + 1])
    BY <1>6, <2>1
  <2>. QED  BY <2>2, <2>3, TakeOwns DEF L
<1>9. L \in Good
  <2>. HIDE DEF Good
  <2>1. Nat \subseteq Good
    BY <1>7, <1>8, SetInduction
  <2>. QED  BY <1>1, <2>1
<1>10. ParseMonitorResponse(M, asked)[s] = taken[L]
  BY DEF ParseMonitorResponse, taken, L
<1>. QED  BY <1>1, <1>9, <1>10 DEF L

(***************************************************************************)
(* The states: what has been listed, fetched and shown.                    *)
(***************************************************************************)
LineNames == {l.name : l \in Lines}
LineDirections == {l.towards : l \in Lines}
LineEntries == [name : LineNames, towards : LineDirections, departures : Seq(BusTimes)]
MonitorEntries == [rbl : Stops, lines : Seq(LineEntries)]

Listing == world \in Worlds /\ journeys \in Seq(Trains) /\ monitors \in Seq(MonitorEntries)

Fetched == [ParseMonitorResponse(OgdBody, Asked) EXCEPT ![SBahn] = ParseOebbStationBoard(HafasBody, world.start)]

ShownBoard(lag) ==
  [screen |-> "Board", at |-> world.start + lag,
   rows |-> [s \in DOMAIN Fetched |-> MergeSlots(Fetched[s], <<>>, world.start + lag)]]

\* The screens that stand alone.
Named == UNION {[1..n -> Ssids] : n \in Nat}

Alone ==
  [screen : {"Offline"}, aps : Named, wanted : Named, mismatch : Named]
  \cup [screen : {"Notice"}, foot : BOOLEAN] \cup [screen : {"WifiAuth"}, wanted : Named]

\* The inductive invariant: what is shown is what was fetched of what is listed.
BoardInv ==
  /\ Listing
  /\ slots = <<>> \/ slots = Fetched
  /\ \/ view = [screen |-> "none"]
     \/ \E lag \in Lags : view = ShownBoard(lag)
     \/ view \in Alone

LEMMA InitBoard == Init => BoardInv
BY DEF Init, BoardInv, Listing

LEMMA ListingStep ==
  ASSUME Listing, Next
  PROVE  Listing' /\ (view.screen = "none" \/ UNCHANGED vars)
<1>. USE DEF Listing
<1>1. ASSUME NEW rbl \in Stops, ListMonitor(rbl) PROVE Listing' /\ view.screen = "none"
  <2>1. [rbl |-> rbl, lines |-> <<>>] \in MonitorEntries
    BY DEF MonitorEntries
  <2>. QED  BY <1>1, <2>1 DEF ListMonitor, Room
<1>2. ASSUME NEW line \in Lines, ListLine(line) PROVE Listing' /\ view.screen = "none"
  <2>. DEFINE L == Len(monitors)
              entry == [name |-> line.name, towards |-> line.towards, departures |-> <<>>]
  <2>1. entry \in LineEntries
    <3>1. line.name \in LineNames /\ line.towards \in LineDirections /\ <<>> \in Seq(BusTimes)
      BY DEF LineNames, LineDirections
    <3>. QED  BY <3>1 DEF LineEntries
  <2>2. monitors # <<>> /\ monitors' = [monitors EXCEPT ![L].lines = Append(@, entry)] /\ view.screen = "none"
        /\ UNCHANGED <<world, journeys>>
    BY <1>2 DEF ListLine, Room
  <2>3. L \in 1..L /\ monitors[L] \in MonitorEntries
    BY <2>2
  <2>. DEFINE mon == monitors[L]
              newLines == Append(mon.lines, entry)
              newMon == [mon EXCEPT !.lines = newLines]
  <2>4. newLines \in Seq(LineEntries)
    <3>1. mon.lines \in Seq(LineEntries)
      BY <2>3 DEF MonitorEntries
    <3>. HIDE DEF mon, entry
    <3>. QED  BY <2>1, <3>1
  <2>5. newMon \in MonitorEntries
    <3>. HIDE DEF newLines, mon, L
    <3>. QED  BY <2>3, <2>4 DEF MonitorEntries, mon
  <2>6. monitors' = [monitors EXCEPT ![L] = newMon]
    BY <2>2, <2>3
  <2>. HIDE DEF newMon, mon, newLines, entry
  <2>7. monitors' \in Seq(MonitorEntries)
    BY <2>3, <2>5, <2>6
  <2>. QED  BY <2>2, <2>7
<1>3. ASSUME NEW times \in BusTimes, ListDeparture(times) PROVE Listing' /\ view.screen = "none"
  <2>. DEFINE L == Len(monitors)
              mon == monitors[L]
              K == Len(mon.lines)
              entry == mon.lines[K]
              new == [entry EXCEPT !.departures = Append(@, times)]
  <2>0. Last(monitors) = mon
    BY DEF Last
  <2>1. /\ monitors # <<>> /\ mon.lines # <<>>
        /\ monitors' = [monitors EXCEPT ![L].lines[K].departures = Append(@, times)] /\ view.screen = "none"
        /\ UNCHANGED <<world, journeys>>
    BY <1>3, <2>0 DEF ListDeparture, Room
  <2>2. L \in 1..L /\ mon \in MonitorEntries
    BY <2>1
  <2>3. mon.lines \in Seq(LineEntries)
    BY <2>2 DEF MonitorEntries
  <2>4. K \in 1..K /\ entry \in LineEntries
    BY <2>1, <2>3
  <2>5. new \in LineEntries
    <3>1. entry.departures \in Seq(BusTimes)
      BY <2>4 DEF LineEntries
    <3>2. Append(entry.departures, times) \in Seq(BusTimes)
      BY <3>1
    <3>. HIDE DEF entry
    <3>. QED  BY <2>4, <3>2 DEF LineEntries
  <2>. DEFINE newLines == [mon.lines EXCEPT ![K] = new]
  <2>6. newLines \in Seq(LineEntries)
    <3>. HIDE DEF new, mon
    <3>. QED  BY <2>3, <2>4, <2>5
  <2>. DEFINE newMon == [mon EXCEPT !.lines = newLines]
  <2>7. newMon \in MonitorEntries
    <3>. HIDE DEF newLines, mon
    <3>. QED  BY <2>2, <2>6 DEF MonitorEntries
  <2>8. monitors' = [monitors EXCEPT ![L] = newMon]
    BY <2>1, <2>2, <2>4
  <2>. HIDE DEF newMon
  <2>. QED  BY <2>1, <2>2, <2>7, <2>8
<1>4. ASSUME NEW j \in Trains, ListTrain(j) PROVE Listing' /\ view.screen = "none"
  BY <1>4 DEF ListTrain, Room
<1>5. ASSUME Fetch PROVE Listing' /\ view.screen = "none"
  BY <1>5 DEF Fetch
<1>6. ASSUME NEW lag \in Lags, Show(lag) PROVE Listing' /\ view.screen = "none"
  BY <1>6 DEF Show
<1>7. ASSUME ShowOffline PROVE Listing' /\ view.screen = "none"
  BY <1>7 DEF ShowOffline, Empty
<1>8. ASSUME NEW foot \in BOOLEAN, ShowNotice(foot) PROVE Listing' /\ view.screen = "none"
  BY <1>8 DEF ShowNotice, Empty
<1>9. ASSUME ShowWifiAuth PROVE Listing' /\ view.screen = "none"
  BY <1>9 DEF ShowWifiAuth, Empty
<1>. HIDE DEF Listing
<1>. QED  BY <1>1, <1>2, <1>3, <1>4, <1>5, <1>6, <1>7, <1>8, <1>9 DEF Next

\* What a screen that stands alone is drawn from.
LEMMA NamedAre ==
  /\ Configured \subseteq Named /\ Scans \subseteq Named
  /\ \A wanted, aps \in Named : FindCaseMismatch(wanted, aps) \subseteq Named
<1>1. Networks \subseteq Nat
  BY WorldAssumption
<1>2. Configured \subseteq Named /\ Scans \subseteq Named
  BY <1>1 DEF Configured, Scans, Named
<1>3. ASSUME NEW wanted \in Named, NEW aps \in Named PROVE FindCaseMismatch(wanted, aps) \subseteq Named
  <2>1. <<>> \in Named
    <3>1. <<>> \in [1..0 -> Ssids]
      OBVIOUS
    <3>. QED  BY <3>1 DEF Named
  <2>2. ASSUME NEW m \in (DOMAIN wanted) \X (DOMAIN aps) PROVE <<wanted[m[1]], aps[m[2]]>> \in Named
    <3>1. wanted[m[1]] \in Ssids /\ aps[m[2]] \in Ssids
      BY DEF Named
    <3>2. <<wanted[m[1]], aps[m[2]]>> \in [1..2 -> Ssids]
      BY <3>1
    <3>. QED  BY <3>2 DEF Named
  <2>. QED  BY <2>1, <2>2 DEF FindCaseMismatch
<1>. QED  BY <1>2, <1>3

\* What was fetched changes with what is listed only.
LEMMA FetchedStays ==
  ASSUME UNCHANGED <<world, journeys, monitors>>
  PROVE  Fetched' = Fetched
<1>1. HafasBody' = HafasBody
  BY DEF HafasBody, Instant
<1>2. OgdBody' = OgdBody
  BY DEF OgdBody, WrittenLine, Written
<1>. QED  BY <1>1, <1>2 DEF Fetched

LEMMA NextBoard == BoardInv /\ [Next]_vars => BoardInv'
<1>. SUFFICES ASSUME BoardInv, [Next]_vars PROVE BoardInv'
  OBVIOUS
<1>1. CASE UNCHANGED vars
  <2>1. Fetched' = Fetched
    BY <1>1, FetchedStays DEF vars
  <2>2. \A lag : ShownBoard(lag)' = ShownBoard(lag)
    BY <1>1, <2>1 DEF vars, ShownBoard
  <2>. QED  BY <1>1, <2>1, <2>2 DEF vars, BoardInv, Listing, Alone, Named
<1>2. CASE Next /\ ~UNCHANGED vars
  <2>1. Listing' /\ view.screen = "none"
    BY <1>2, ListingStep DEF BoardInv
  <2>2. view = [screen |-> "none"]
    BY <2>1 DEF BoardInv, ShownBoard, Alone
  <2>3. ASSUME slots' = <<>>, view' = view PROVE BoardInv'
    BY <2>1, <2>2, <2>3 DEF BoardInv
  <2>4. ASSUME NEW rbl \in Stops, ListMonitor(rbl) PROVE BoardInv'
    BY <2>3, <2>4 DEF ListMonitor, Room
  <2>5. ASSUME NEW line \in Lines, ListLine(line) PROVE BoardInv'
    BY <2>3, <2>5 DEF ListLine, Room
  <2>6. ASSUME NEW times \in BusTimes, ListDeparture(times) PROVE BoardInv'
    BY <2>3, <2>6 DEF ListDeparture, Room
  <2>7. ASSUME NEW j \in Trains, ListTrain(j) PROVE BoardInv'
    BY <2>3, <2>7 DEF ListTrain, Room
  <2>8. ASSUME Fetch PROVE BoardInv'
    <3>1. slots' = Fetched /\ UNCHANGED <<world, journeys, monitors, view>>
      BY <2>8 DEF Fetch, Fetched
    <3>2. Fetched' = Fetched
      BY <3>1, FetchedStays
    <3>. QED  BY <2>1, <2>2, <3>1, <3>2 DEF BoardInv
  <2>9. ASSUME NEW lag \in Lags, Show(lag) PROVE BoardInv'
    <3>1. slots = Fetched /\ UNCHANGED <<world, journeys, monitors, slots>>
      BY <2>9 DEF Show, BoardInv
    <3>2. Fetched' = Fetched
      BY <3>1, FetchedStays
    <3>3. view' = ShownBoard(lag)
      BY <2>9, <3>1 DEF Show, ShownBoard
    <3>4. view' = ShownBoard(lag)'
      BY <3>1, <3>2, <3>3 DEF ShownBoard
    <3>. QED  BY <2>1, <3>1, <3>2, <3>4 DEF BoardInv
  <2>10. ASSUME ShowOffline PROVE BoardInv'
    <3>1. PICK wanted \in Configured, aps \in Scans : \E mismatch \in FindCaseMismatch(wanted, aps) :
            view' = [screen |-> "Offline", aps |-> aps, wanted |-> wanted, mismatch |-> mismatch]
      BY <2>10 DEF ShowOffline
    <3>2. view' \in Alone
      BY <3>1, NamedAre DEF Alone
    <3>3. slots' = <<>>
      BY <2>10 DEF ShowOffline, Empty
    <3>. QED  BY <2>1, <3>2, <3>3 DEF BoardInv, Alone, Named
  <2>11. ASSUME NEW foot \in BOOLEAN, ShowNotice(foot) PROVE BoardInv'
    <3>1. slots' = <<>> /\ view' = [screen |-> "Notice", foot |-> foot]
      BY <2>11 DEF ShowNotice, Empty
    <3>2. view' \in Alone
      BY <3>1 DEF Alone
    <3>. QED  BY <2>1, <3>1, <3>2 DEF BoardInv, Alone, Named
  <2>12. ASSUME ShowWifiAuth PROVE BoardInv'
    <3>1. PICK wanted \in Configured : view' = [screen |-> "WifiAuth", wanted |-> wanted]
      BY <2>12 DEF ShowWifiAuth
    <3>2. view' \in Alone
      BY <3>1, NamedAre DEF Alone
    <3>3. slots' = <<>>
      BY <2>12 DEF ShowWifiAuth, Empty
    <3>. QED  BY <2>1, <3>2, <3>3 DEF BoardInv, Alone, Named
  <2>. QED  BY <1>2, <2>4, <2>5, <2>6, <2>7, <2>8, <2>9, <2>10, <2>11, <2>12 DEF Next
<1>. QED  BY <1>1, <1>2

\* The invariant holds of every behaviour.
THEOREM BoardHolds == Spec => []BoardInv
BY InitBoard, NextBoard, PTL DEF Spec

(***************************************************************************)
(* The S-Bahn row.                                                         *)
(***************************************************************************)
LEMMA InstantTyped ==
  ASSUME NEW time \in Seq(Int), Len(time) <= 1, world \in Worlds
  PROVE  Instant(time) \in Int /\ world.start \in Nat /\ world.zone \in Int
<1>1. world.start \in Nat /\ world.zone \in Int
  BY WorldAssumption
<1>2. time # <<>> => time[1] \in Int
  OBVIOUS
<1>. QED  BY <1>1, <1>2 DEF Instant

LEMMA HafasTyped ==
  ASSUME Listing
  PROVE  HafasBody \in Seq(Journeys) /\ Len(HafasBody) = Len(journeys) /\ Len(journeys) \in Nat
<1>1. journeys \in Seq(Trains) /\ world \in Worlds
  BY DEF Listing
<1>2. ASSUME NEW i \in DOMAIN journeys
      PROVE  [journeys[i] EXCEPT !.plan = Instant(@), !.real = Instant(@)] \in Journeys
  <2>. DEFINE j == journeys[i]
  <2>1. j \in Trains
    BY <1>1
  <2>2. j \in [plan : Seq(Int), real : Seq(Int), cancelled : BOOLEAN] /\ Len(j.plan) <= 1 /\ Len(j.real) <= 1
    BY <2>1, WorldAssumption
  <2>. HIDE DEF j
  <2>3. Instant(j.plan) \in Int /\ Instant(j.real) \in Int
    BY <1>1, <2>2, InstantTyped
  <2>. QED  BY <2>2, <2>3 DEF Journeys, j
<1>3. DOMAIN journeys = 1..Len(journeys) /\ Len(journeys) \in Nat
  BY <1>1
<1>4. HafasBody \in [1..Len(journeys) -> Journeys]
  BY <1>2, <1>3 DEF HafasBody
<1>. QED  BY <1>3, <1>4

LEMMA BoardShown ==
  ASSUME BoardInv, view.screen = "Board"
  PROVE  /\ Listing
         /\ view.rows = [s \in DOMAIN Fetched |-> MergeSlots(Fetched[s], <<>>, view.at)]
         /\ view.at \in Int /\ world.start \in Int /\ world.start <= view.at
<1>1. Listing
  BY DEF BoardInv
<1>2. PICK lag \in Lags : view = ShownBoard(lag)
  BY DEF BoardInv, Alone
<1>3. view.at = world.start + lag /\ view.rows = [s \in DOMAIN Fetched |-> MergeSlots(Fetched[s], <<>>, view.at)]
  BY <1>2 DEF ShownBoard
<1>4. lag \in Nat /\ world.start \in Nat
  BY <1>1, WorldAssumption DEF Listing
<1>. QED  BY <1>1, <1>2, <1>3, <1>4

\* fetchSnapshot gives every stream its slots.
LEMMA FetchedStreams ==
  /\ DOMAIN Fetched = {"58A_ATZ", "58A_HIETZING", "58B_ATZ", SBahn}
  /\ Fetched[SBahn] = ParseOebbStationBoard(HafasBody, world.start)
  /\ \A s \in Asked : s \in DOMAIN Fetched /\ s \in ToSet(StreamOrder)
                      /\ Fetched[s] = ParseMonitorResponse(OgdBody, Asked)[s]
  /\ \A s \in DOMAIN Fetched \ (Asked \cup {SBahn}) : Fetched[s] = <<>>
<1>1. ToSet(StreamOrder) = {"58A_ATZ", "58A_HIETZING", "58B_ATZ", SBahn}
  <2>1. DOMAIN StreamOrder = {1, 2, 3, 4}
    BY DEF StreamOrder
  <2>2. ToSet(StreamOrder) = {StreamOrder[1], StreamOrder[2], StreamOrder[3], StreamOrder[4]}
    BY <2>1 DEF ToSet
  <2>. QED  BY <2>2 DEF StreamOrder
<1>2. DOMAIN ParseMonitorResponse(OgdBody, Asked) = ToSet(StreamOrder)
  BY DEF ParseMonitorResponse
<1>3. \A s \in ToSet(StreamOrder) \ Asked : ParseMonitorResponse(OgdBody, Asked)[s] = <<>>
  BY DEF ParseMonitorResponse
<1>4. SBahn \in ToSet(StreamOrder) /\ Asked \subseteq ToSet(StreamOrder) \ {SBahn}
  BY <1>1, WorldAssumption
<1>. QED  BY <1>1, <1>2, <1>3, <1>4 DEF Fetched

LEMMA RowIsNextTrains == BoardInv => SBahnRowIsNextTrains
<1>. SUFFICES ASSUME BoardInv, view.screen = "Board" PROVE SBahnRowIsNextTrains
  BY DEF SBahnRowIsNextTrains
<1>. DEFINE J == HafasBody
            start == world.start
            at == view.at
            row == MergeSlots(ParseOebbStationBoard(J, start), <<>>, at)
            trainsAhead == {i \in 1..Len(J) : ~J[i].cancelled /\ Train(J[i]).when # 0 /\ Train(J[i]).when >= at}
            trainMinutes == {MinuteOf(Train(J[i])) : i \in trainsAhead}
            ahead == {i \in Running : When(i) >= at}
            minutes == {When(i) \div Minute : i \in ahead}
            stay == \A i \in Running : When(i) \notin start..at - 1
            inOrder == \A i, k \in Running : i < k => When(i) <= When(k)
<1>1. Listing /\ at \in Int /\ start \in Int /\ start <= at /\ view.rows[SBahn] = row
  BY BoardShown, FetchedStreams
<1>2. J \in Seq(Journeys) /\ DOMAIN J = 1..Len(J)
  BY <1>1, HafasTyped
<1>3. /\ \A i : Train(J[i]).when = When(i)
      /\ \A i : MinuteOf(Train(J[i])) = When(i) \div Minute
  BY DEF Train, When, MinuteOf
<1>4. \A i : i \in Running <=> i \in 1..Len(J) /\ ~J[i].cancelled /\ Train(J[i]).when # 0
  BY <1>2, <1>3 DEF Running
<1>5. trainsAhead = ahead /\ trainMinutes = minutes
  <2>1. \A i : i \in trainsAhead <=> i \in ahead
    BY <1>3, <1>4
  <2>2. trainsAhead = ahead
    BY <2>1
  <2>. HIDE DEF trainsAhead, ahead
  <2>. QED  BY <1>3, <2>2
<1>6. ASSUME inOrder PROVE Ordered(J, start)
  <2>. SUFFICES ASSUME NEW i \in 1..Len(J), NEW k \in 1..Len(J), i < k, Takes(J[i], start), Takes(J[k], start)
                PROVE  Train(J[i]).when <= Train(J[k]).when
    BY DEF Ordered
  <2>1. i \in Running /\ k \in Running
    BY <1>4 DEF Takes
  <2>. QED  BY <1>3, <1>6, <2>1
<1>. HIDE DEF J, start, at
<1>7. ASSUME stay
      PROVE  \A i \in 1..Len(J) : ~J[i].cancelled /\ Train(J[i]).when # 0 => Train(J[i]).when \notin start..at - 1
  BY <1>3, <1>4, <1>7
<1>8. ASSUME stay
      PROVE  /\ row \in Seq(Parsed)
             /\ Len(row) = IF Cardinality(trainMinutes) < MaxSlots THEN Cardinality(trainMinutes) ELSE MaxSlots
             /\ Ordered(J, start) => \A n \in 1..Len(row) :
                  /\ \E i \in trainsAhead : Train(J[i]).when = row[n].when
                  /\ Cardinality({m \in trainMinutes : m < MinuteOf(row[n])}) = n - 1
                  /\ \A i \in trainsAhead : MinuteOf(Train(J[i])) = MinuteOf(row[n]) => Train(J[i]).when >= row[n].when
  <2>1. \A i \in 1..Len(J) : ~J[i].cancelled /\ Train(J[i]).when # 0 => Train(J[i]).when \notin start..at - 1
    BY <1>7, <1>8
  <2>. QED  BY <1>1, <1>2, <2>1, TrainsShown
<1>. HIDE DEF row, trainsAhead, trainMinutes, ahead, minutes, inOrder
<1>9. ASSUME stay
      PROVE  /\ Len(row) = IF Cardinality(minutes) < MaxSlots THEN Cardinality(minutes) ELSE MaxSlots
             /\ inOrder => \A n \in DOMAIN row :
                  /\ \E i \in ahead : When(i) = row[n].when
                  /\ Cardinality({m \in minutes : m < MinuteOf(row[n])}) = n - 1
                  /\ \A i \in ahead : When(i) \div Minute = MinuteOf(row[n]) => When(i) >= row[n].when
  <2>1. DOMAIN row = 1..Len(row)
    BY <1>8, <1>9
  <2>. HIDE DEF stay
  <2>. QED  BY <1>3, <1>5, <1>6, <1>8, <1>9, <2>1
<1>. QED  BY <1>1, <1>9 DEF SBahnRowIsNextTrains, ahead, minutes, stay, inOrder, start, at

(***************************************************************************)
(* The bus rows.                                                           *)
(***************************************************************************)
LEMMA OneTime ==
  ASSUME NEW time \in Seq(Int), Len(time) <= 1, time # <<>>
  PROVE  DOMAIN time = 1..1 /\ time[1] \in Int
<1>. DEFINE n == Len(time)
<1>1. n \in Nat /\ n # 0 /\ n <= 1 /\ DOMAIN time = 1..n /\ \A i \in 1..n : time[i] \in Int
  OBVIOUS
<1>. HIDE DEF n
<1>2. n = 1
  BY <1>1
<1>. QED  BY <1>1, <1>2

\* What the server writes is read as the instant it means.
LEMMA WrittenIsRead ==
  ASSUME Listing, NEW times \in BusTimes, NEW time \in {times.plan, times.real}
  PROVE  ParseIso8601(Written(time)) = Instant(time) /\ Instant(time) \in Int
<1>. DEFINE local == world.start + time[1] + world.zone
            day == local \div SecondsPerDay
            date == DateOf[day]
<1>1. world \in Worlds /\ world.start \in Int /\ world.zone \in Int
  BY WorldAssumption DEF Listing
<1>2. time \in Seq(Int) /\ Len(time) <= 1
  BY WorldAssumption
<1>3. Instant(time) \in Int
  BY <1>1, <1>2, InstantTyped
<1>4. CASE time = <<>>
  <2>1. Written(time) = <<>>
    BY <1>4 DEF Written
  <2>. QED  BY <1>3, <1>4, <2>1 DEF ParseIso8601, Instant
<1>5. CASE time # <<>>
  <2>1. DOMAIN time = 1..1 /\ time[1] \in Int
    BY <1>2, <1>5, OneTime
  <2>2. Written(time)[1] = [date |-> date, tod |-> local % SecondsPerDay, zone |-> world.zone]
    BY <2>1 DEF Written
  <2>3. Written(time) # <<>>
    <3>1. DOMAIN Written(time) = 1..1
      BY <2>1 DEF Written
    <3>2. DOMAIN <<>> = {} /\ 1 \in 1..1
      OBVIOUS
    <3>. QED  BY <3>1, <3>2
  <2>4. local \in Int
    BY <1>1, <2>1
  <2>5. day \in Days
    BY <1>1, <1>5, WorldAssumption
  <2>6. date \in Dates /\ DayNumber(date) = day
    <3>1. \E d \in Dates : DayNumber(d) = day
      BY <2>5 DEF Days
    <3>2. date = CHOOSE d \in Dates : DayNumber(d) = day
      BY <2>5 DEF DateOf
    <3>. HIDE DEF date, day
    <3>. QED  BY <3>1, <3>2
  <2>. HIDE DEF date
  <2>7. CivilToDays(date) = day
    <3>1. date.y \in Nat /\ date.y >= 1970 /\ date.m \in 1..12 /\ date.d \in Int
      <4>1. date.y \in Nat /\ date.y >= 1970 /\ date.m \in 1..12 /\ date.d \in 1..MonthDays(date.y)[date.m]
        BY <2>6, WorldAssumption
      <4>. QED  BY <4>1
    <3>. QED  BY <2>6, <3>1, CivilIsCalendar
  <2>8. ParseIso8601(Written(time)) = day * SecondsPerDay + (local % SecondsPerDay) - world.zone
    BY <2>2, <2>3, <2>7 DEF ParseIso8601
  <2>9. day * SecondsPerDay + (local % SecondsPerDay) = local
    <3>. HIDE DEF local
    <3>. QED  BY <2>4 DEF SecondsPerDay
  <2>10. Instant(time) = local - world.zone
    BY <1>1, <1>5, <2>1 DEF Instant
  <2>11. day \in Int /\ local % SecondsPerDay \in Int
    <3>. HIDE DEF local
    <3>. QED  BY <2>4 DEF SecondsPerDay
  <2>. DEFINE whole == day * SecondsPerDay
  <2>12. whole \in Int
    BY <2>11 DEF SecondsPerDay
  <2>. HIDE DEF day, local, whole
  <2>. QED  BY <1>1, <1>3, <2>4, <2>8, <2>9, <2>10, <2>11, <2>12 DEF whole
<1>. QED  BY <1>4, <1>5

\* The reply, entry by entry.
LEMMA OgdEntries ==
  ASSUME Listing
  PROVE  /\ OgdBody = [i \in 1..Len(OgdBody) |-> OgdBody[i]]
         /\ Len(OgdBody) = Len(monitors) /\ Len(monitors) \in Nat /\ DOMAIN monitors = 1..Len(monitors)
         /\ \A i \in 1..Len(monitors) :
              /\ OgdBody[i].rbl = monitors[i].rbl
              /\ DOMAIN OgdBody[i].lines = 1..Len(OgdBody[i].lines)
              /\ DOMAIN OgdBody[i].lines = DOMAIN monitors[i].lines
              /\ Len(OgdBody[i].lines) \in Nat
              /\ \A l \in DOMAIN monitors[i].lines :
                   /\ OgdBody[i].lines[l].name = monitors[i].lines[l].name
                   /\ OgdBody[i].lines[l].towards = monitors[i].lines[l].towards
                   /\ monitors[i].lines[l].departures \in Seq(BusTimes)
                   /\ OgdBody[i].lines[l].departures =
                        [k \in 1..Len(monitors[i].lines[l].departures) |->
                           [plan |-> Written(monitors[i].lines[l].departures[k].plan),
                            real |-> Written(monitors[i].lines[l].departures[k].real)]]
<1>. DEFINE Mon(m) == [m EXCEPT !.lines = [l \in DOMAIN @ |-> WrittenLine(@[l])]]
<1>1. monitors \in Seq(MonitorEntries) /\ DOMAIN monitors = 1..Len(monitors) /\ Len(monitors) \in Nat
  BY DEF Listing
<1>2. OgdBody = [i \in 1..Len(monitors) |-> Mon(monitors[i])]
  <2>1. OgdBody = [i \in DOMAIN monitors |-> Mon(monitors[i])]
    BY DEF OgdBody
  <2>. HIDE DEF Mon
  <2>. QED  BY <1>1, <2>1
<1>3. ASSUME NEW i \in 1..Len(monitors), NEW mon, mon = monitors[i], NEW new, new = Mon(mon)
      PROVE  /\ new.rbl = mon.rbl
             /\ DOMAIN new.lines = 1..Len(new.lines) /\ DOMAIN new.lines = DOMAIN mon.lines
             /\ Len(new.lines) \in Nat
             /\ \A l \in DOMAIN mon.lines :
                  /\ new.lines[l].name = mon.lines[l].name
                  /\ new.lines[l].towards = mon.lines[l].towards
                  /\ mon.lines[l].departures \in Seq(BusTimes)
                  /\ new.lines[l].departures =
                       [k \in 1..Len(mon.lines[l].departures) |->
                          [plan |-> Written(mon.lines[l].departures[k].plan),
                           real |-> Written(mon.lines[l].departures[k].real)]]
  <2>1. mon \in MonitorEntries
    <3>1. monitors[i] \in MonitorEntries
      BY <1>1
    <3>. QED  BY <1>3, <3>1
  <2>2. new.rbl = mon.rbl /\ new.lines = [l \in DOMAIN mon.lines |-> WrittenLine(mon.lines[l])]
    <3>1. mon \in [rbl : Stops, lines : Seq(LineEntries)]
      BY <2>1 DEF MonitorEntries
    <3>2. new = [mon EXCEPT !.lines = [l \in DOMAIN mon.lines |-> WrittenLine(mon.lines[l])]]
      BY <1>3
    <3>. HIDE DEF Mon
    <3>. QED  BY <3>1, <3>2
  <2>. HIDE DEF Mon
  <2>3. mon.lines \in Seq(LineEntries) /\ DOMAIN mon.lines = 1..Len(mon.lines) /\ Len(mon.lines) \in Nat
    BY <2>1 DEF MonitorEntries
  <2>4. DOMAIN new.lines = DOMAIN mon.lines /\ Len(new.lines) = Len(mon.lines)
    BY <2>2, <2>3
  <2>5. ASSUME NEW l \in DOMAIN mon.lines
        PROVE  /\ new.lines[l].name = mon.lines[l].name
               /\ new.lines[l].towards = mon.lines[l].towards
               /\ mon.lines[l].departures \in Seq(BusTimes)
               /\ new.lines[l].departures =
                    [k \in 1..Len(mon.lines[l].departures) |->
                       [plan |-> Written(mon.lines[l].departures[k].plan),
                        real |-> Written(mon.lines[l].departures[k].real)]]
    <3>. DEFINE e == mon.lines[l]
    <3>1. e \in LineEntries
      BY <2>3
    <3>2. new.lines[l] = WrittenLine(e)
      BY <2>2
    <3>. HIDE DEF e
    <3>3. e.departures \in Seq(BusTimes) /\ DOMAIN e.departures = 1..Len(e.departures)
      BY <3>1 DEF LineEntries
    <3>4. /\ WrittenLine(e).name = e.name /\ WrittenLine(e).towards = e.towards
          /\ WrittenLine(e).departures =
               [k \in DOMAIN e.departures |-> [plan |-> Written(e.departures[k].plan),
                                               real |-> Written(e.departures[k].real)]]
      BY <3>1 DEF LineEntries, WrittenLine
    <3>. QED  BY <3>2, <3>3, <3>4 DEF e
  <2>. QED  BY <2>2, <2>3, <2>4, <2>5
<1>. HIDE DEF Mon
<1>4. Len(OgdBody) = Len(monitors)
  BY <1>1, <1>2
<1>. QED  BY <1>1, <1>2, <1>3, <1>4

\* The server's departures and the parser's.
LEMMA OgdRead ==
  ASSUME Listing
  PROVE  /\ Reply(OgdBody)
         /\ \A s : OwnTo(OgdBody, s, Len(OgdBody)) = OwnLines(s)
         /\ \A s : \A own \in OwnLines(s) :
              /\ Len(Departures(OgdBody, own)) \in Nat
              /\ Known(own) = KnownTo(Departures(OgdBody, own), Len(Departures(OgdBody, own)))
              /\ \A k \in 1..Len(Departures(OgdBody, own)) :
                   Meant(own)[k] = DepartureSlot(Departures(OgdBody, own)[k])
<1>. DEFINE M == OgdBody
            Deps(i, l) == M[i].lines[l].departures
            deps(i, l) == monitors[i].lines[l].departures
<1>1. /\ M = [i \in 1..Len(M) |-> M[i]]
      /\ Len(M) = Len(monitors) /\ Len(monitors) \in Nat /\ DOMAIN monitors = 1..Len(monitors)
      /\ \A i \in 1..Len(monitors) :
           /\ M[i].rbl = monitors[i].rbl
           /\ DOMAIN M[i].lines = 1..Len(M[i].lines)
           /\ DOMAIN M[i].lines = DOMAIN monitors[i].lines
           /\ Len(M[i].lines) \in Nat
           /\ \A l \in DOMAIN monitors[i].lines :
                /\ M[i].lines[l].name = monitors[i].lines[l].name
                /\ M[i].lines[l].towards = monitors[i].lines[l].towards
                /\ deps(i, l) \in Seq(BusTimes)
                /\ Deps(i, l) = [k \in 1..Len(deps(i, l)) |->
                                   [plan |-> Written(deps(i, l)[k].plan),
                                    real |-> Written(deps(i, l)[k].real)]]
  BY OgdEntries
<1>. HIDE DEF M
<1>2. ASSUME NEW i \in 1..Len(monitors), NEW l \in DOMAIN monitors[i].lines
      PROVE  /\ Len(Deps(i, l)) = Len(deps(i, l)) /\ Len(Deps(i, l)) \in Nat
             /\ DOMAIN deps(i, l) = 1..Len(deps(i, l))
             /\ \A k \in 1..Len(Deps(i, l)) :
                  /\ DepartureSlot(Deps(i, l)[k]) \in Parsed
                  /\ DepartureSlot(Deps(i, l)[k]) =
                       Slot(Instant(deps(i, l)[k].plan), Instant(deps(i, l)[k].real), Instant(deps(i, l)[k].plan))
  <2>1. /\ deps(i, l) \in Seq(BusTimes)
        /\ Deps(i, l) = [k \in 1..Len(deps(i, l)) |-> [plan |-> Written(deps(i, l)[k].plan),
                                                       real |-> Written(deps(i, l)[k].real)]]
    BY <1>1
  <2>. HIDE DEF Deps, deps
  <2>2. Len(deps(i, l)) \in Nat /\ DOMAIN deps(i, l) = 1..Len(deps(i, l))
    BY <2>1
  <2>3. Len(Deps(i, l)) = Len(deps(i, l))
    BY <2>1, <2>2
  <2>4. ASSUME NEW k \in 1..Len(deps(i, l))
        PROVE  /\ DepartureSlot(Deps(i, l)[k]) \in Parsed
               /\ DepartureSlot(Deps(i, l)[k]) =
                    Slot(Instant(deps(i, l)[k].plan), Instant(deps(i, l)[k].real), Instant(deps(i, l)[k].plan))
    <3>. DEFINE times == deps(i, l)[k]
    <3>1. times \in BusTimes
      BY <2>1
    <3>2. Deps(i, l)[k].plan = Written(times.plan) /\ Deps(i, l)[k].real = Written(times.real)
      BY <2>1
    <3>. HIDE DEF times
    <3>3. /\ ParseIso8601(Written(times.plan)) = Instant(times.plan) /\ Instant(times.plan) \in Int
          /\ ParseIso8601(Written(times.real)) = Instant(times.real) /\ Instant(times.real) \in Int
      BY <3>1, WrittenIsRead
    <3>. QED  BY <3>2, <3>3 DEF DepartureSlot, Slot, Parsed, times
  <2>. QED  BY <2>2, <2>3, <2>4
<1>3. Reply(M)
  <2>1. \A i \in 1..Len(M) : \A l \in DOMAIN M[i].lines :
          Len(M[i].lines[l].departures) \in Nat /\ Readable(M[i].lines[l].departures)
    BY <1>1, <1>2 DEF Readable
  <2>. HIDE DEF Deps, deps
  <2>. QED  BY <1>1, <2>1 DEF Reply
<1>4. ASSUME NEW s PROVE OwnTo(M, s, Len(M)) = OwnLines(s)
  <2>1. \A own : own \in OwnTo(M, s, Len(M)) <=>
          \E i \in 1..Len(monitors) : \E l \in DOMAIN monitors[i].lines :
            own = <<i, l>> /\ monitors[i].rbl = Filters[s].rbl /\ Serves(s, monitors[i].lines[l])
    <3>1. \A own : own \in OwnTo(M, s, Len(M)) <=>
            \E i \in 1..Len(M) : \E l \in DOMAIN M[i].lines :
              own = <<i, l>> /\ M[i].rbl = Filters[s].rbl /\ Serves(s, M[i].lines[l])
      BY DEF OwnTo
    <3>2. \A i \in 1..Len(monitors) : \A l \in DOMAIN monitors[i].lines :
            Serves(s, M[i].lines[l]) <=> Serves(s, monitors[i].lines[l])
      BY <1>1 DEF Serves
    <3>. HIDE DEF Deps, deps
    <3>. QED  BY <1>1, <3>1, <3>2
  <2>2. \A own : own \in OwnLines(s) <=>
          \E i \in 1..Len(monitors) : \E l \in DOMAIN monitors[i].lines :
            own = <<i, l>> /\ monitors[i].rbl = Filters[s].rbl /\ Serves(s, monitors[i].lines[l])
    BY <1>1 DEF OwnLines
  <2>. QED  BY <2>1, <2>2
<1>5. ASSUME NEW s, NEW own \in OwnLines(s)
      PROVE  /\ Len(Departures(M, own)) \in Nat
             /\ Known(own) = KnownTo(Departures(M, own), Len(Departures(M, own)))
             /\ \A k \in 1..Len(Departures(M, own)) : Meant(own)[k] = DepartureSlot(Departures(M, own)[k])
  <2>1. PICK i \in 1..Len(monitors) : \E l \in DOMAIN monitors[i].lines : own = <<i, l>>
    BY <1>1 DEF OwnLines
  <2>2. PICK l \in DOMAIN monitors[i].lines : own = <<i, l>>
    BY <2>1
  <2>3. Departures(M, own) = Deps(i, l) /\ monitors[own[1]].lines[own[2]].departures = deps(i, l)
    BY <2>2 DEF Departures
  <2>4. Meant(own) = [k \in DOMAIN deps(i, l) |-> Slot(Instant(deps(i, l)[k].plan),
                                    Instant(deps(i, l)[k].real), Instant(deps(i, l)[k].plan))]
    BY <2>3 DEF Meant
  <2>. HIDE DEF Deps, deps
  <2>5. DOMAIN Meant(own) = 1..Len(Deps(i, l))
        /\ \A k \in 1..Len(Deps(i, l)) : Meant(own)[k] = DepartureSlot(Deps(i, l)[k])
    BY <1>2, <2>4
  <2>6. Known(own) = KnownTo(Deps(i, l), Len(Deps(i, l)))
    BY <2>5 DEF Known, KnownTo
  <2>. QED  BY <1>2, <2>3, <2>5, <2>6
<1>. QED  BY <1>3, <1>4, <1>5 DEF M

LEMMA OwnLineLined ==
  ASSUME Listing, NEW s, NEW own \in OwnLines(s)
  PROVE  LET departures == Departures(OgdBody, own)
         IN  Lined(LineSlots(departures), departures, Len(departures))
<1>1. /\ Reply(OgdBody) /\ own \in OwnTo(OgdBody, s, Len(OgdBody))
  BY OgdRead
<1>. DEFINE M == OgdBody
<1>. HIDE DEF M
<1>2. PICK i, l : i \in 1..Len(M) /\ l \in DOMAIN M[i].lines /\ own = <<i, l>>
  BY <1>1, OwnShape DEF M
<1>3. Lined(LineSlots(M[i].lines[l].departures), M[i].lines[l].departures, Len(M[i].lines[l].departures))
  BY <1>1, <1>2, LinesParsed DEF M
<1>4. Departures(M, own) = M[i].lines[l].departures
  BY <1>2 DEF Departures
<1>. QED  BY <1>3, <1>4 DEF M

LEMMA RowIsOfItsLine == BoardInv => BusRowIsOfItsLine
<1>. SUFFICES ASSUME BoardInv, view.screen = "Board", NEW s \in Asked
     PROVE  LET row == view.rows[s]
            IN  /\ ToSet(row) \subseteq UNION {{Meant(own)[k] : k \in Known(own)} : own \in OwnLines(s)}
                /\ \A own \in OwnLines(s) : OwnLines(s) = {own} =>
                     LET first == {k \in Known(own) : Cardinality({j \in Known(own) : j < k}) < MaxSlots}
                     IN  {MinuteOf(d) : d \in ToSet(row)}
                           = {MinuteOf(Meant(own)[k]) : k \in {k \in first : Meant(own)[k].when >= view.at}}
  BY DEF BusRowIsOfItsLine
<1>. DEFINE M == OgdBody
            list == ParseMonitorResponse(M, Asked)[s]
            at == view.at
            row == MergeSlots(list, <<>>, at)
            deps(own) == Departures(M, own)
<1>1. Listing /\ at \in Int /\ view.rows[s] = row
  BY BoardShown, FetchedStreams
<1>2. /\ Reply(M)
      /\ OwnTo(M, s, Len(M)) = OwnLines(s)
      /\ \A own \in OwnLines(s) :
           /\ Len(deps(own)) \in Nat
           /\ Known(own) = KnownTo(deps(own), Len(deps(own)))
           /\ \A k \in 1..Len(deps(own)) : Meant(own)[k] = DepartureSlot(deps(own)[k])
  BY <1>1, OgdRead
<1>3. Owned(list, M, s, Len(M))
  BY <1>2, FetchedStreams, StreamCollected
<1>4. \A own \in OwnLines(s) : Lined(LineSlots(deps(own)), deps(own), Len(deps(own)))
  BY <1>1, OwnLineLined
<1>5. \A own : \A k \in KnownTo(deps(own), Len(deps(own))) : k \in 1..Len(deps(own))
  BY DEF KnownTo
<1>. HIDE DEF M, list, at, deps
<1>6. list \in Seq(Parsed) /\ Len(list) <= MaxSlots
  BY <1>3 DEF Owned
<1>7. row \in Seq(Parsed) /\ RowOf(row, list, at)
  BY <1>1, <1>6, FewAreShown
<1>. HIDE DEF row
<1>8. \A d : d \in ToSet(row) <=> \E n \in 1..Len(row) : d = row[n]
  <2>1. DOMAIN row = 1..Len(row)
    BY <1>7
  <2>. QED  BY <2>1 DEF ToSet
<1>9. ASSUME NEW d \in ToSet(row)
      PROVE  \E own \in OwnLines(s) : \E k \in Known(own) : d = Meant(own)[k]
  <2>1. PICK i \in 1..Len(list) : list[i] = d
    BY <1>7, <1>8 DEF RowOf
  <2>2. PICK own \in OwnLines(s) : \E k \in KnownTo(deps(own), Len(deps(own))) : list[i] = DepartureSlot(deps(own)[k])
    BY <1>2, <1>3 DEF Owned, deps
  <2>. QED  BY <1>2, <1>5, <2>1, <2>2
<1>10. ASSUME NEW own \in OwnLines(s), OwnLines(s) = {own}
       PROVE  LET first == {k \in Known(own) : Cardinality({j \in Known(own) : j < k}) < MaxSlots}
              IN  {MinuteOf(d) : d \in ToSet(row)}
                    = {MinuteOf(Meant(own)[k]) : k \in {k \in first : Meant(own)[k].when >= at}}
  <2>. DEFINE first == {k \in Known(own) : Cardinality({j \in Known(own) : j < k}) < MaxSlots}
              mine == deps(own)
  <2>1. list = LineSlots(mine)
    BY <1>2, <1>3, <1>10 DEF Owned, deps
  <2>2. Lined(list, mine, Len(mine))
    BY <1>4, <2>1
  <2>3. first = FirstTo(mine, Len(mine))
    BY <1>2 DEF FirstTo
  <2>4. \A k \in first : k \in 1..Len(mine) /\ Meant(own)[k] = DepartureSlot(mine[k])
    BY <1>2, <1>5
  <2>. HIDE DEF first, mine
  <2>5. ASSUME NEW d \in ToSet(row)
        PROVE  \E k \in first : Meant(own)[k].when >= at /\ MinuteOf(d) = MinuteOf(Meant(own)[k])
    <3>1. PICK i \in 1..Len(list) : list[i] = d /\ d.when >= at
      BY <1>7, <1>8 DEF RowOf
    <3>2. PICK k \in first : list[i] = DepartureSlot(mine[k])
      BY <2>2, <2>3 DEF Lined
    <3>. QED  BY <2>4, <3>1, <3>2
  <2>6. ASSUME NEW k \in first, Meant(own)[k].when >= at
        PROVE  \E d \in ToSet(row) : MinuteOf(d) = MinuteOf(Meant(own)[k])
    <3>1. PICK i \in 1..Len(list) : list[i] = DepartureSlot(mine[k])
      BY <2>2, <2>3 DEF Lined
    <3>2. list[i] = Meant(own)[k] /\ list[i].when >= at
      BY <2>4, <2>6, <3>1
    <3>3. PICK n \in 1..Len(row) : MinuteOf(row[n]) = MinuteOf(list[i])
      BY <1>7, <3>2 DEF RowOf
    <3>. QED  BY <1>8, <3>2, <3>3
  <2>7. {MinuteOf(d) : d \in ToSet(row)} = {MinuteOf(Meant(own)[k]) : k \in {k \in first : Meant(own)[k].when >= at}}
    <3>1. \A m : m \in {MinuteOf(d) : d \in ToSet(row)} => m \in {MinuteOf(Meant(own)[k]) : k \in {k \in first : Meant(own)[k].when >= at}}
      BY <2>5
    <3>2. \A m : m \in {MinuteOf(Meant(own)[k]) : k \in {k \in first : Meant(own)[k].when >= at}} => m \in {MinuteOf(d) : d \in ToSet(row)}
      BY <2>6
    <3>. QED  BY <3>1, <3>2
  <2>. QED  BY <2>7 DEF first
<1>. QED  BY <1>1, <1>9, <1>10 DEF at

(***************************************************************************)
(* The gauges.                                                             *)
(***************************************************************************)
\* Products and quotients by the minute, in order.
LEMMA TimesMinute ==
  ASSUME NEW a \in Int, NEW b \in Int
  PROVE  /\ a * Minute \in Int /\ b * Minute \in Int
         /\ a >= b => a * Minute >= b * Minute
         /\ a > b => a * Minute >= b * Minute + Minute
         /\ a > b + 1 => a * Minute >= b * Minute + Minute + Minute
<1>1. Minute \in Int /\ Minute > 0
  BY MergerAssumption
<1>2. a * Minute \in Int /\ b * Minute \in Int
  BY <1>1
<1>3. ASSUME NEW k \in Nat, a = b + k PROVE a * Minute = b * Minute + k * Minute
  BY <1>1, <1>3
<1>4. ASSUME NEW k \in Nat
      PROVE  /\ k * Minute \in Int /\ k * Minute >= 0 /\ (k >= 1 => k * Minute >= Minute)
             /\ k >= 2 => k * Minute >= Minute + Minute
  <2>1. k >= 1 => k * Minute = Minute + (k - 1) * Minute /\ (k - 1) * Minute >= 0
    BY <1>1
  <2>2. k >= 2 => k * Minute = Minute + Minute + (k - 2) * Minute /\ (k - 2) * Minute >= 0
    BY <1>1
  <2>3. k * Minute \in Int /\ (k - 1) * Minute \in Int /\ (k - 2) * Minute \in Int /\ k * Minute >= 0
    BY <1>1
  <2>. QED  BY <1>1, <2>1, <2>2, <2>3
<1>5. a >= b => a - b \in Nat /\ a = b + (a - b)
  OBVIOUS
<1>. DEFINE k == a - b
<1>6. a >= b => a * Minute = b * Minute + k * Minute
  BY <1>3, <1>5
<1>7. a >= b => /\ k * Minute \in Int /\ k * Minute >= 0 /\ (k >= 1 => k * Minute >= Minute)
                /\ k >= 2 => k * Minute >= Minute + Minute
  BY <1>4, <1>5
<1>8. (a > b => k >= 1) /\ (a > b + 1 => k >= 2)
  OBVIOUS
<1>. HIDE DEF k
<1>. QED  BY <1>1, <1>2, <1>6, <1>7, <1>8

LEMMA DivMinute ==
  ASSUME NEW a \in Int, NEW k \in Int
  PROVE  a \div Minute \in Int /\ (a \div Minute >= k <=> a >= k * Minute)
<1>. DEFINE q == a \div Minute
            r == a % Minute
<1>1. Minute \in Int /\ Minute > 0
  BY MergerAssumption
<1>2. q \in Int /\ r \in Int /\ 0 <= r /\ r < Minute /\ a = Minute * q + r
  BY <1>1
<1>. HIDE DEF q, r
<1>3. a = q * Minute + r
  BY <1>1, <1>2
<1>4. /\ q * Minute \in Int /\ k * Minute \in Int
      /\ q >= k => q * Minute >= k * Minute
      /\ k > q => k * Minute >= q * Minute + Minute
  BY <1>2, TimesMinute
<1>. QED  BY <1>1, <1>2, <1>3, <1>4 DEF q

\* Where a deviation of so many seconds stands on the scale.
LEMMA DeviationBounds ==
  ASSUME NEW d \in Parsed
  PROVE  LET late == d.when - d.planned
             half == Minute \div 2
             dev  == DeviationMinutes(d, Minute)
         IN  /\ dev \in Int
             /\ \A k \in Nat \ {0} : dev >= k <=> late + half >= k * Minute
             /\ \A k \in Nat \ {0} : dev <= -k <=> half - late >= k * Minute
<1>. DEFINE late == d.when - d.planned
            half == Minute \div 2
            dev == DeviationMinutes(d, Minute)
            up == (late + half) \div Minute
            down == (half - late) \div Minute
<1>1. late \in Int
  BY DEF Parsed
<1>2. half \in Int /\ 0 <= half /\ half < Minute /\ Minute \in Int /\ Minute > 0
  BY MergerAssumption
<1>3. dev = IF late >= 0 THEN up ELSE -down
  BY DEF DeviationMinutes
<1>. HIDE DEF late, half, dev
<1>4. late + half \in Int /\ half - late \in Int
  BY <1>1, <1>2
<1>5. up \in Int /\ down \in Int
  BY <1>4, DivMinute
<1>6. ASSUME NEW k \in Int
      PROVE  (up >= k <=> late + half >= k * Minute) /\ (down >= k <=> half - late >= k * Minute)
  BY <1>4, DivMinute
<1>. HIDE DEF up, down
<1>7. late >= 0 => up >= 0
  <2>1. 0 * Minute = 0
    BY <1>2
  <2>. QED  BY <1>1, <1>2, <1>6, <2>1
<1>8. late < 0 => down >= 0
  <2>1. 0 * Minute = 0
    BY <1>2
  <2>. QED  BY <1>1, <1>2, <1>6, <2>1
<1>9. ASSUME NEW k \in Nat \ {0}
      PROVE  (dev >= k <=> late + half >= k * Minute) /\ (dev <= -k <=> half - late >= k * Minute)
  <2>1. k * Minute \in Int /\ k * Minute >= Minute /\ k \in Int /\ k > 0
    <3>1. 1 * Minute = Minute
      BY <1>2
    <3>. QED  BY <3>1, TimesMinute
  <2>2. CASE late >= 0
    <3>1. dev = up /\ ~(dev <= -k)
      BY <1>3, <1>5, <1>7, <2>1, <2>2
    <3>2. ~(half - late >= k * Minute)
      BY <1>1, <1>2, <2>1, <2>2
    <3>. QED  BY <1>6, <2>1, <3>1, <3>2
  <2>3. CASE late < 0
    <3>1. dev = -down /\ ~(dev >= k)
      BY <1>1, <1>3, <1>5, <1>8, <2>1, <2>3
    <3>2. ~(late + half >= k * Minute)
      BY <1>1, <1>2, <2>1, <2>3
    <3>3. dev <= -k <=> down >= k
      BY <1>5, <2>1, <3>1
    <3>. QED  BY <1>6, <2>1, <3>1, <3>2, <3>3
  <2>. QED  BY <1>1, <2>2, <2>3
<1>10. dev \in Int
  BY <1>3, <1>5
<1>. QED  BY <1>9, <1>10 DEF late, half, dev

\* The place on the scale, a mark off either end included.
Scaled(dev) == IF dev > UpMin THEN UpMin + 1 ELSE IF dev < -DownMin THEN -(DownMin + 1) ELSE dev

LEMMA NearestMark ==
  ASSUME NEW d \in Parsed, d.source = "Realtime", d.planned # 0
  PROVE  Says(d) = <<Scaled(DeviationMinutes(d, Minute))>>
<1>. DEFINE late == d.when - d.planned
            half == Minute \div 2
            dev == DeviationMinutes(d, Minute)
            c == Scaled(dev)
            off(m) == IF late > m * Minute THEN late - m * Minute ELSE m * Minute - late
            nearer(m, n) == off(m) < off(n) \/ (off(m) = off(n) /\ m * m >= n * n)
            marks == -4..6
<1>1. /\ dev \in Int
      /\ \A k \in Nat \ {0} : dev >= k <=> late + half >= k * Minute
      /\ \A k \in Nat \ {0} : dev <= -k <=> half - late >= k * Minute
  BY DeviationBounds
<1>2. late \in Int
  BY DEF Parsed
<1>3. /\ half \in Int /\ half + half <= Minute /\ Minute <= half + half + 1
      /\ 0 <= half /\ Minute \in Int /\ Minute > 0
  BY MergerAssumption
<1>4. c \in marks /\ c = IF dev > 5 THEN 6 ELSE IF dev < -3 THEN -4 ELSE dev
  BY <1>1 DEF Scaled, UpMin, DownMin
<1>. DEFINE X == c * Minute
<1>. HIDE DEF late, half, dev, c
<1>5. X \in Int
  BY <1>3, <1>4
<1>6. ASSUME c >= 1
      PROVE  late + half >= X /\ (c < 6 => late + half < X + Minute)
  <2>1. c \in Nat \ {0} /\ c + 1 \in Nat \ {0} /\ dev >= c
    BY <1>1, <1>4, <1>6
  <2>2. (c + 1) * Minute = X + Minute
    BY <1>3, <1>4
  <2>3. c < 6 => ~(dev >= c + 1)
    BY <1>1, <1>4, <1>6
  <2>4. late + half >= X
    BY <1>1, <2>1
  <2>5. c < 6 => ~(late + half >= (c + 1) * Minute)
    BY <1>1, <2>1, <2>3
  <2>. HIDE DEF X
  <2>. QED  BY <1>2, <1>3, <1>5, <2>2, <2>4, <2>5
<1>7. ASSUME c <= -1
      PROVE  half - late >= -X /\ (c > -4 => half - late < -X + Minute)
  <2>1. -c \in Nat \ {0} /\ -c + 1 \in Nat \ {0} /\ dev <= c /\ -(-c) = c
    <3>1. c \in Int /\ c <= -1
      BY <1>4, <1>7
    <3>2. dev <= c
      BY <1>1, <1>4, <1>7
    <3>. QED  BY <3>1, <3>2
  <2>2. (-c + 1) * Minute = -X + Minute /\ (-c) * Minute = -X
    BY <1>3, <1>4
  <2>3. c > -4 => ~(dev <= -(-c + 1))
    <3>1. c > -4 => dev = c
      BY <1>1, <1>4, <1>7
    <3>2. -(-c + 1) = c - 1 /\ c \in Int
      BY <1>4
    <3>. QED  BY <3>1, <3>2
  <2>4. half - late >= (-c) * Minute
    BY <1>1, <2>1
  <2>5. c > -4 => ~(half - late >= (-c + 1) * Minute)
    BY <1>1, <2>1, <2>3
  <2>. HIDE DEF X
  <2>. QED  BY <1>2, <1>3, <1>5, <2>2, <2>4, <2>5
<1>8. ASSUME c = 0
      PROVE  X = 0 /\ late + half < Minute /\ half - late < Minute
  <2>1. dev = 0
    BY <1>1, <1>4, <1>8
  <2>2. ~(late + half >= 1 * Minute) /\ ~(half - late >= 1 * Minute)
    BY <1>1, <2>1
  <2>3. 1 * Minute = Minute /\ 0 * Minute = 0
    BY <1>3
  <2>. QED  BY <1>2, <1>3, <1>8, <2>2, <2>3
\* Every other mark is further away.
<1>9. ASSUME NEW n \in marks PROVE nearer(c, n)
  <2>. DEFINE Y == n * Minute
  <2>1. /\ Y \in Int
        /\ (n > c => Y >= X + Minute) /\ (n > c + 1 => Y >= X + Minute + Minute)
        /\ (c > n => X >= Y + Minute) /\ (c > n + 1 => X >= Y + Minute + Minute)
    <3>0. n \in Int /\ c \in Int
      BY <1>4
    <3>1. Y \in Int /\ (n > c => Y >= X + Minute) /\ (n > c + 1 => Y >= X + Minute + Minute)
      BY <3>0, TimesMinute
    <3>2. (c > n => X >= Y + Minute) /\ (c > n + 1 => X >= Y + Minute + Minute)
      BY <3>0, TimesMinute
    <3>. QED  BY <3>1, <3>2
  <2>2. off(c) = (IF late > X THEN late - X ELSE X - late) /\ off(n) = (IF late > Y THEN late - Y ELSE Y - late)
    OBVIOUS
  <2>. HIDE DEF X, Y, off
  <2>3. off(c) < off(n) \/ off(c) = off(n)
    BY <1>2, <1>3, <1>4, <1>5, <1>6, <1>7, <1>8, <2>1, <2>2
  <2>4. ASSUME off(c) = off(n) PROVE n = c \/ (c >= 1 /\ n = c - 1) \/ (c <= -1 /\ n = c + 1)
    <3>0. n \in Int /\ c \in Int
      BY <1>4
    <3>1. CASE c >= 1
      <4>1. n > c \/ n = c \/ n = c - 1 \/ c > n + 1
        BY <3>0
      <4>2. n > c => c < 6
        BY <1>4
      <4>. QED  BY <1>2, <1>3, <1>5, <1>6, <2>1, <2>2, <2>4, <3>1, <4>1, <4>2
    <3>2. CASE c <= -1
      <4>1. c > n \/ n = c \/ n = c + 1 \/ n > c + 1
        BY <3>0
      <4>2. c > n => c > -4
        BY <1>4
      <4>. QED  BY <1>2, <1>3, <1>5, <1>7, <2>1, <2>2, <2>4, <3>2, <4>1, <4>2
    <3>3. CASE c = 0
      <4>1. n > c \/ n = c \/ c > n
        BY <3>0
      <4>. QED  BY <1>2, <1>3, <1>5, <1>8, <2>1, <2>2, <2>4, <3>3, <4>1
    <3>. QED  BY <3>0, <3>1, <3>2, <3>3
  <2>5. c >= 1 => c * c >= (c - 1) * (c - 1)
    <3>1. c * c = (c - 1) * (c - 1) + c + c - 1
      BY <1>4
    <3>2. (c - 1) * (c - 1) \in Int
      BY <1>4
    <3>. QED  BY <1>4, <3>1, <3>2
  <2>6. c <= -1 => c * c >= (c + 1) * (c + 1)
    <3>1. c * c = (c + 1) * (c + 1) - c - c - 1
      BY <1>4
    <3>2. (c + 1) * (c + 1) \in Int
      BY <1>4
    <3>. QED  BY <1>4, <3>1, <3>2
  <2>7. c * c >= c * c
    BY <1>4
  <2>8. off(c) = off(n) => c * c >= n * n
    BY <2>4, <2>5, <2>6, <2>7
  <2>. QED  BY <2>3, <2>8
<1>10. ASSUME NEW m \in marks, \A n \in marks : nearer(m, n) PROVE m = c
  <2>. DEFINE Y == m * Minute
  <2>1. nearer(m, c) /\ nearer(c, m) /\ nearer(m, 0)
    BY <1>4, <1>9, <1>10
  <2>2. /\ off(c) = (IF late > X THEN late - X ELSE X - late)
        /\ off(m) = (IF late > Y THEN late - Y ELSE Y - late)
        /\ off(0) = (IF late > 0 THEN late ELSE -late)
    <3>1. 0 * Minute = 0
      BY <1>3
    <3>. QED  BY <1>2, <3>1
  <2>3. Y \in Int /\ (m = -c => Y = -X) /\ (m # 0 => Y # 0)
    BY <1>3, <1>4
  <2>. HIDE DEF X, Y, off
  <2>4. off(m) \in Int /\ off(c) \in Int /\ off(0) \in Int
    BY <1>2, <1>5, <2>2, <2>3
  <2>5. off(m) = off(c) /\ m * m = c * c /\ off(m) <= off(0)
    <3>1. m * m \in Int /\ c * c \in Int
      BY <1>4
    <3>. QED  BY <2>1, <2>4, <3>1
  <2>6. m = c \/ m = -c
    <3>1. (m - c) * (m + c) = 0
      BY <1>4, <2>5
    <3>2. m - c \in Int /\ m + c \in Int
      BY <1>4
    <3>3. m - c = 0 \/ m + c = 0
      BY <3>1, <3>2
    <3>. QED  BY <1>4, <3>3
  <2>7. ASSUME m = -c, m # c PROVE FALSE
    <3>1. m # 0 /\ Y = -X /\ Y # 0
      BY <1>4, <2>3, <2>7
    <3>. QED  BY <1>2, <1>5, <2>2, <2>3, <2>5, <3>1
  <2>. QED  BY <2>6, <2>7
<1>11. (CHOOSE m \in marks : \A n \in marks : nearer(m, n)) = c
  <2>. HIDE DEF nearer, marks
  <2>. QED  BY <1>4, <1>9, <1>10
<1>12. -(DownMin + 1)..UpMin + 1 = marks
  BY DEF DownMin, UpMin
<1>13. Says(d) = <<CHOOSE m \in marks : \A n \in marks : nearer(m, n)>>
  BY <1>12 DEF Says, late
<1>. QED  BY <1>11, <1>13 DEF c, dev

Covers(b, x, y) == x >= b.x /\ x < b.x + b.w /\ y >= b.y /\ y < b.y + b.h
Sized(boxes) == \A b \in boxes : b.x \in Int /\ b.y \in Int /\ b.w \in Int /\ b.h \in Int

LEMMA InPixels ==
  ASSUME NEW boxes, Sized(boxes), NEW x \in Int, NEW y \in Int
  PROVE  <<x, y>> \in Pixels(boxes) <=> \E b \in boxes : Covers(b, x, y)
<1>1. ASSUME NEW b \in boxes
      PROVE  <<x, y>> \in (b.x..b.x + b.w - 1) \X (b.y..b.y + b.h - 1) <=> Covers(b, x, y)
  <2>1. b.x \in Int /\ b.y \in Int /\ b.w \in Int /\ b.h \in Int
    BY DEF Sized
  <2>. QED  BY <2>1 DEF Covers
<1>2. <<x, y>> \in Pixels(boxes) <=>
        \E b \in boxes : <<x, y>> \in (b.x..b.x + b.w - 1) \X (b.y..b.y + b.h - 1)
  BY DEF Pixels
<1>. QED  BY <1>1, <1>2

\* The ticks as they are drawn: left of the middle only at the two long ones.
LEMMA TicksDrawn ==
  /\ Sized(Ticks)
  /\ \A b \in Ticks : \A y \in Int \ {0, ZeroDy} : ~Covers(b, -2, y) /\ ~Covers(b, -3, y)
<1>. DEFINE mark(m) == HTick(ZeroDy - m * Scale, IF m % 5 = 0 THEN 5 ELSE 3, m \in {UpMin, -DownMin})
<1>1. ASSUME NEW b \in Ticks
      PROVE  \/ b = Box("gauge", 0, 0, 1, 24)
             \/ b = Box("gauge", -3, 15, 8, 1)
             \/ b = Box("gauge", -2, 0, 6, 1)
             \/ \E y \in Int, w \in {3, 4} : b = Box("gauge", -1, y, w, 1)
  <2>1. CASE b = Box("gauge", 0, 0, 1, GaugeH)
    BY <2>1 DEF GaugeH
  <2>2. CASE b = HTick(ZeroDy, 7, TRUE)
    <3>1. 7 \div 2 = 3
      OBVIOUS
    <3>. QED  BY <2>2, <3>1 DEF HTick, ZeroDy
  <2>3. ASSUME NEW m \in (-DownMin..UpMin) \ {0}, b = mark(m)
        PROVE  \/ b = Box("gauge", -2, 0, 6, 1)
               \/ \E y \in Int, w \in {3, 4} : b = Box("gauge", -1, y, w, 1)
    <3>1. 5 \div 2 = 2 /\ 3 \div 2 = 1 /\ m \in Int /\ m >= -3 /\ m <= 5 /\ m # 0
      BY DEF DownMin, UpMin
    <3>2. CASE m = 5
      BY <2>3, <3>1, <3>2 DEF HTick, ZeroDy, Scale, UpMin
    <3>3. CASE m # 5
      <4>1. m % 5 # 0
        BY <3>1, <3>3
      <4>2. ZeroDy - m * Scale \in Int
        BY <3>1 DEF ZeroDy, Scale
      <4>3. \E w \in {3, 4} : b = Box("gauge", -1, ZeroDy - m * Scale, w, 1)
        BY <2>3, <3>1, <4>1 DEF HTick
      <4>. QED  BY <4>2, <4>3
    <3>. QED  BY <3>2, <3>3
  <2>. QED  BY <2>1, <2>2, <2>3 DEF Ticks
<1>2. Sized(Ticks)
  BY <1>1 DEF Box, Sized
<1>3. ASSUME NEW b \in Ticks, NEW y \in Int \ {0, ZeroDy} PROVE ~Covers(b, -2, y) /\ ~Covers(b, -3, y)
  BY <1>1 DEF Covers, Box, ZeroDy
<1>. QED  BY <1>2, <1>3

\* The look of a gauge that compares, by the place on the scale.
LEMMA GaugeByPlace ==
  ASSUME NEW dev \in Int
  PROVE  /\ Gauge(TRUE, dev) = Gauge(TRUE, Scaled(dev))
         /\ Scaled(dev) \in -4..6
<1>. DEFINE c == Scaled(dev)
<1>1. c \in -4..6
  BY DEF Scaled, UpMin, DownMin
<1>2. Clamp(dev) = Clamp(c) /\ (dev < 0 <=> c < 0) /\ (dev > 0 <=> c > 0)
  BY DEF Scaled, Clamp, UpMin, DownMin
<1>3. (dev > UpMin <=> c > UpMin) /\ (dev < -DownMin <=> c < -DownMin)
  BY DEF Scaled, UpMin, DownMin
<1>. HIDE DEF c
<1>4. Bar(dev) = Bar(c)
  BY <1>2 DEF Bar
<1>5. Tab(dev) = Tab(c)
  BY <1>3 DEF Tab
<1>. QED  BY <1>1, <1>4, <1>5 DEF Gauge, c

\* Pixels that tell the places apart.
LEMMA Probes ==
  ASSUME NEW c \in -4..6
  PROVE  LET P == Pixels(Gauge(TRUE, c))
         IN  /\ (<<-2, 12>> \in P <=> c >= 1) /\ (<<-2, 9>> \in P <=> c >= 2) /\ (<<-2, 6>> \in P <=> c >= 3)
             /\ (<<-2, 3>> \in P <=> c >= 4) /\ (<<-2, 1>> \in P <=> c >= 5) /\ (<<-3, -2>> \in P <=> c >= 6)
             /\ (<<-2, 17>> \in P <=> c <= -1) /\ (<<-2, 20>> \in P <=> c <= -2) /\ (<<-2, 23>> \in P <=> c <= -3)
             /\ (<<-3, 24>> \in P <=> c <= -4)
             /\ <<-3, 13>> \notin P
<1>. DEFINE P == Pixels(Gauge(TRUE, c))
            h == IF c > 5 THEN 15 ELSE IF c < -3 THEN 9 ELSE IF c < 0 THEN -3 * c ELSE 3 * c
            bar == IF c = 0 THEN Box("gauge", -2, 14, 5, 2)
                   ELSE Box("gauge", -2, IF c > 0 THEN 15 - h ELSE 15, 5, h)
            tab == IF c > 5 THEN {Box("gauge", -3, -2, 7, 2)}
                   ELSE IF c < -3 THEN {Box("gauge", -3, 24, 7, 2)} ELSE {}
<1>1. Bar(c) = bar
  <2>1. h = Scale * (IF c < 0 THEN -Clamp(c) ELSE Clamp(c))
    BY DEF Scale, Clamp, UpMin, DownMin
  <2>2. h < 2 <=> c = 0
    OBVIOUS
  <2>. HIDE DEF h
  <2>. QED  BY <2>1, <2>2 DEF Bar, ZeroDy
<1>2. Tab(c) = tab
  BY DEF Tab, UpMin, DownMin, GaugeH
<1>3. h \in Int /\ h >= 0
  OBVIOUS
<1>4. Sized({bar}) /\ Sized(tab)
  <2>. HIDE DEF h
  <2>. QED  BY <1>3 DEF Box, Sized
<1>5. Gauge(TRUE, c) = Ticks \cup {bar} \cup tab /\ Sized(Gauge(TRUE, c))
  <2>1. Gauge(TRUE, c) = Ticks \cup {bar} \cup tab
    <3>. HIDE DEF bar, tab
    <3>. QED  BY <1>1, <1>2 DEF Gauge
  <2>. HIDE DEF bar, tab
  <2>2. \A b \in Gauge(TRUE, c) : b \in Ticks \/ b \in {bar} \/ b \in tab
    BY <2>1
  <2>. QED  BY <1>4, <2>1, <2>2, TicksDrawn DEF Sized
<1>6. ASSUME NEW x \in {-2, -3}, NEW y \in Int \ {0, 15}
      PROVE  <<x, y>> \in P <=> Covers(bar, x, y) \/ \E b \in tab : Covers(b, x, y)
  <2>1. \A b \in Ticks : ~Covers(b, x, y)
    BY TicksDrawn DEF ZeroDy
  <2>2. <<x, y>> \in P <=> \E b \in Gauge(TRUE, c) : Covers(b, x, y)
    <3>. DEFINE G == Gauge(TRUE, c)
    <3>0. x \in Int /\ y \in Int
      OBVIOUS
    <3>1. Sized(G)
      BY <1>5
    <3>. HIDE DEF G
    <3>2. <<x, y>> \in Pixels(G) <=> \E b \in G : Covers(b, x, y)
      BY <3>0, <3>1, InPixels
    <3>. QED  BY <3>2 DEF G
  <2>. HIDE DEF bar, tab, P
  <2>. QED  BY <1>5, <2>1, <2>2
<1>7. \A y \in Int \ {0, 15} :
        /\ Covers(bar, -2, y) <=> IF c = 0 THEN y = 14
                                  ELSE IF c > 0 THEN y >= 15 - h /\ y < 15 ELSE y >= 15 /\ y < 15 + h
        /\ ~Covers(bar, -3, y)
  <2>. HIDE DEF h
  <2>. QED  BY <1>3 DEF Covers, Box
<1>8. \A y \in Int : /\ (\E b \in tab : Covers(b, -3, y)) <=> (c > 5 /\ y \in {-2, -1}) \/ (c < -3 /\ y \in {24, 25})
                     /\ (\E b \in tab : Covers(b, -2, y)) <=> (c > 5 /\ y \in {-2, -1}) \/ (c < -3 /\ y \in {24, 25})
  <2>1. CASE c > 5
    <3>1. tab = {Box("gauge", -3, -2, 7, 2)}
      BY <2>1
    <3>2. \A y \in Int : /\ Covers(Box("gauge", -3, -2, 7, 2), -3, y) <=> y \in {-2, -1}
                         /\ Covers(Box("gauge", -3, -2, 7, 2), -2, y) <=> y \in {-2, -1}
      BY DEF Covers, Box
    <3>. HIDE DEF tab
    <3>. QED  BY <2>1, <3>1, <3>2
  <2>2. CASE c < -3
    <3>1. tab = {Box("gauge", -3, 24, 7, 2)}
      BY <2>2
    <3>2. \A y \in Int : /\ Covers(Box("gauge", -3, 24, 7, 2), -3, y) <=> y \in {24, 25}
                         /\ Covers(Box("gauge", -3, 24, 7, 2), -2, y) <=> y \in {24, 25}
      BY DEF Covers, Box
    <3>. HIDE DEF tab
    <3>. QED  BY <2>2, <3>1, <3>2
  <2>3. CASE ~(c > 5) /\ ~(c < -3)
    BY <2>3
  <2>. QED  BY <2>1, <2>2, <2>3
<1>. HIDE DEF bar, tab, P
<1>9. \A y \in {12, 9, 6, 3, 1, 17, 20, 23} : <<-2, y>> \in P <=>
        IF c = 0 THEN y = 14 ELSE IF c > 0 THEN y >= 15 - h /\ y < 15 ELSE y >= 15 /\ y < 15 + h
  <2>. SUFFICES ASSUME NEW y \in {12, 9, 6, 3, 1, 17, 20, 23}
                PROVE  <<-2, y>> \in P <=>
                         IF c = 0 THEN y = 14 ELSE IF c > 0 THEN y >= 15 - h /\ y < 15 ELSE y >= 15 /\ y < 15 + h
    OBVIOUS
  <2>1. y \in Int \ {0, 15} /\ y \notin {-2, -1, 24, 25}
    OBVIOUS
  <2>2. <<-2, y>> \in P <=> Covers(bar, -2, y) \/ \E b \in tab : Covers(b, -2, y)
    BY <1>6, <2>1
  <2>3. ~(\E b \in tab : Covers(b, -2, y))
    BY <1>8, <2>1
  <2>. QED  BY <1>7, <2>1, <2>2, <2>3
<1>10. \A y \in {-2, 24, 13} : <<-3, y>> \in P <=> (c > 5 /\ y \in {-2, -1}) \/ (c < -3 /\ y \in {24, 25})
  <2>. SUFFICES ASSUME NEW y \in {-2, 24, 13}
                PROVE  <<-3, y>> \in P <=> (c > 5 /\ y \in {-2, -1}) \/ (c < -3 /\ y \in {24, 25})
    OBVIOUS
  <2>1. y \in Int \ {0, 15}
    OBVIOUS
  <2>2. <<-3, y>> \in P <=> Covers(bar, -3, y) \/ \E b \in tab : Covers(b, -3, y)
    BY <1>6, <2>1
  <2>. QED  BY <1>7, <1>8, <2>1, <2>2
<1>11. /\ (<<-3, -2>> \in P <=> c >= 6) /\ (<<-3, 24>> \in P <=> c <= -4) /\ <<-3, 13>> \notin P
  BY <1>10
<1>12. /\ (<<-2, 12>> \in P <=> c >= 1) /\ (<<-2, 9>> \in P <=> c >= 2) /\ (<<-2, 6>> \in P <=> c >= 3)
       /\ (<<-2, 3>> \in P <=> c >= 4) /\ (<<-2, 1>> \in P <=> c >= 5)
  BY <1>9
<1>13. /\ (<<-2, 17>> \in P <=> c <= -1) /\ (<<-2, 20>> \in P <=> c <= -2) /\ (<<-2, 23>> \in P <=> c <= -3)
  BY <1>9
<1>. QED  BY <1>11, <1>12, <1>13 DEF P

\* The hollow square, which compares nothing.
LEMMA SquareProbe ==
  ASSUME NEW dev
  PROVE  <<-3, 13>> \in Pixels(Gauge(FALSE, dev)) /\ Gauge(FALSE, dev) = Ticks \cup Square
<1>1. Gauge(FALSE, dev) = Ticks \cup Square
  BY DEF Gauge
<1>2. Sized(Square) /\ Box("gauge", -3, 12, 1, 6) \in Square
  BY DEF Square, Box, Sized, ZeroDy
<1>3. Covers(Box("gauge", -3, 12, 1, 6), -3, 13)
  BY DEF Covers, Box
<1>. HIDE DEF Square
<1>4. Sized(Ticks \cup Square)
  BY <1>2, TicksDrawn DEF Sized
<1>. DEFINE G == Ticks \cup Square
<1>5. \E b \in G : Covers(b, -3, 13)
  BY <1>2, <1>3
<1>6. <<-3, 13>> \in Pixels(G)
  <2>1. -3 \in Int /\ 13 \in Int
    OBVIOUS
  <2>. HIDE DEF G
  <2>. QED  BY <1>4, <1>5, <2>1, InPixels DEF G
<1>. QED  BY <1>1, <1>6

LEMMA PlacesLookDifferent ==
  ASSUME NEW a \in Int, NEW b \in Int, Pixels(Gauge(TRUE, a)) = Pixels(Gauge(TRUE, b))
  PROVE  Scaled(a) = Scaled(b)
<1>. DEFINE c == Scaled(a)
            e == Scaled(b)
<1>1. c \in -4..6 /\ e \in -4..6 /\ Pixels(Gauge(TRUE, c)) = Pixels(Gauge(TRUE, e))
  BY GaugeByPlace
<1>. HIDE DEF c, e
<1>2. /\ \A k \in 1..6 : c >= k <=> e >= k
      /\ \A k \in -4..-1 : c <= k <=> e <= k
  <2>1. /\ (c >= 1 <=> e >= 1) /\ (c >= 2 <=> e >= 2) /\ (c >= 3 <=> e >= 3) /\ (c >= 4 <=> e >= 4)
        /\ (c >= 5 <=> e >= 5) /\ (c >= 6 <=> e >= 6)
        /\ (c <= -1 <=> e <= -1) /\ (c <= -2 <=> e <= -2) /\ (c <= -3 <=> e <= -3) /\ (c <= -4 <=> e <= -4)
    BY <1>1, Probes
  <2>. QED  BY <2>1
<1>3. c = e
  BY <1>1, <1>2
<1>. QED  BY <1>3 DEF c, e

LEMMA RowsParsed ==
  ASSUME BoardInv, view.screen = "Board", NEW s \in DOMAIN Fetched
  PROVE  view.rows[s] \in Seq(Parsed)
<1>1. Listing /\ view.at \in Int /\ world.start \in Int /\ view.rows[s] = MergeSlots(Fetched[s], <<>>, view.at)
  BY BoardShown
<1>2. Fetched[s] \in Seq(Parsed) /\ Len(Fetched[s]) <= MaxSlots
  <2>1. CASE s = SBahn
    <3>1. HafasBody \in Seq(Journeys)
      BY <1>1, HafasTyped
    <3>2. LET all == ParseOebbStationBoard(HafasBody, world.start)
          IN  all \in Seq(Parsed) /\ Collected(all, HafasBody, world.start, Len(HafasBody))
      BY <1>1, <3>1, BoardCollected
    <3>. QED  BY <2>1, <3>2, FetchedStreams DEF Collected
  <2>2. CASE s \in Asked
    <3>1. Owned(ParseMonitorResponse(OgdBody, Asked)[s], OgdBody, s, Len(OgdBody))
      BY <1>1, <2>2, OgdRead, FetchedStreams, StreamCollected
    <3>. QED  BY <2>2, <3>1, FetchedStreams DEF Owned
  <2>3. CASE s \notin Asked /\ s # SBahn
    <3>1. Fetched[s] = <<>>
      BY <2>3, FetchedStreams
    <3>2. <<>> \in Seq(Parsed) /\ Len(<<>>) = 0
      OBVIOUS
    <3>. QED  BY <3>1, <3>2, MergerAssumption
  <2>. QED  BY <2>1, <2>2, <2>3
<1>. QED  BY <1>1, <1>2, FewAreShown

LEMMA GaugesDiffer == BoardInv => GaugesTellApart
<1>. DEFINE look(d) == Pixels(Gauge(HasDeviation(d), DeviationMinutes(d, Minute)))
<1>1. ASSUME NEW d \in Parsed
      PROVE  /\ HasDeviation(d) \in BOOLEAN /\ DeviationMinutes(d, Minute) \in Int
             /\ IF HasDeviation(d) THEN Says(d) = <<Scaled(DeviationMinutes(d, Minute))>> ELSE Says(d) = <<>>
  <2>1. DeviationMinutes(d, Minute) \in Int
    BY DeviationBounds
  <2>2. HasDeviation(d) <=> d.source = "Realtime" /\ d.planned # 0
    BY DEF HasDeviation
  <2>3. d.source = "Realtime" \/ d.source = "Plan"
    BY DEF Parsed
  <2>4. ~HasDeviation(d) => Says(d) = <<>>
    BY <2>2, <2>3 DEF Says
  <2>5. HasDeviation(d) => Says(d) = <<Scaled(DeviationMinutes(d, Minute))>>
    BY <2>2, NearestMark
  <2>6. HasDeviation(d) \in BOOLEAN
    BY DEF HasDeviation
  <2>. QED  BY <2>1, <2>4, <2>5, <2>6
<1>2. ASSUME NEW d \in Parsed, NEW e \in Parsed PROVE look(d) = look(e) <=> Says(d) = Says(e)
  <2>. DEFINE a == DeviationMinutes(d, Minute)
              b == DeviationMinutes(e, Minute)
  <2>1. a \in Int /\ b \in Int
    BY <1>1
  <2>2. /\ HasDeviation(d) \in BOOLEAN /\ HasDeviation(e) \in BOOLEAN
        /\ HasDeviation(d) => Says(d) = <<Scaled(a)>>
        /\ ~HasDeviation(d) => Says(d) = <<>>
        /\ HasDeviation(e) => Says(e) = <<Scaled(b)>>
        /\ ~HasDeviation(e) => Says(e) = <<>>
    BY <1>1
  <2>. HIDE DEF a, b
  <2>3. <<-3, 13>> \in Pixels(Gauge(FALSE, a)) /\ Gauge(FALSE, a) = Gauge(FALSE, b)
        /\ <<-3, 13>> \in Pixels(Gauge(FALSE, b))
    BY SquareProbe
  <2>4. /\ <<-3, 13>> \notin Pixels(Gauge(TRUE, a)) /\ <<-3, 13>> \notin Pixels(Gauge(TRUE, b))
        /\ Gauge(TRUE, a) = Gauge(TRUE, Scaled(a)) /\ Gauge(TRUE, b) = Gauge(TRUE, Scaled(b))
    BY <2>1, GaugeByPlace, Probes
  <2>5. Pixels(Gauge(TRUE, a)) = Pixels(Gauge(TRUE, b)) <=> Scaled(a) = Scaled(b)
    BY <2>1, <2>4, PlacesLookDifferent
  <2>6. look(d) = Pixels(Gauge(HasDeviation(d), a)) /\ look(e) = Pixels(Gauge(HasDeviation(e), b))
    BY DEF a, b
  <2>. HIDE DEF look
  <2>7. CASE HasDeviation(d) /\ HasDeviation(e)
    <3>1. look(d) = Pixels(Gauge(TRUE, a)) /\ look(e) = Pixels(Gauge(TRUE, b))
      BY <2>2, <2>6, <2>7
    <3>2. <<Scaled(a)>> = <<Scaled(b)>> <=> Scaled(a) = Scaled(b)
      OBVIOUS
    <3>. QED  BY <2>2, <2>5, <2>7, <3>1, <3>2
  <2>8. CASE HasDeviation(d) /\ ~HasDeviation(e)
    <3>1. look(d) = Pixels(Gauge(TRUE, a)) /\ look(e) = Pixels(Gauge(FALSE, b))
      BY <2>2, <2>6, <2>8
    <3>2. <<Scaled(a)>> # <<>>
      OBVIOUS
    <3>. QED  BY <2>2, <2>3, <2>4, <2>8, <3>1, <3>2
  <2>9. CASE ~HasDeviation(d) /\ HasDeviation(e)
    <3>1. look(d) = Pixels(Gauge(FALSE, a)) /\ look(e) = Pixels(Gauge(TRUE, b))
      BY <2>2, <2>6, <2>9
    <3>2. <<Scaled(b)>> # <<>>
      OBVIOUS
    <3>. QED  BY <2>2, <2>3, <2>4, <2>9, <3>1, <3>2
  <2>10. CASE ~HasDeviation(d) /\ ~HasDeviation(e)
    <3>1. look(d) = Pixels(Gauge(FALSE, a)) /\ look(e) = Pixels(Gauge(FALSE, b))
      BY <2>2, <2>6, <2>10
    <3>. QED  BY <2>2, <2>3, <2>10, <3>1
  <2>. QED  BY <2>7, <2>8, <2>9, <2>10
<1>3. ASSUME BoardInv, view.screen = "Board",
             NEW d \in UNION {ToSet(view.rows[s]) : s \in {"58A_ATZ", "58A_HIETZING"}}
      PROVE  d \in Parsed
  <2>1. PICK s \in {"58A_ATZ", "58A_HIETZING"} : d \in ToSet(view.rows[s])
    OBVIOUS
  <2>2. view.rows[s] \in Seq(Parsed)
    BY <1>3, FetchedStreams, RowsParsed
  <2>. QED  BY <2>1, <2>2 DEF ToSet
<1>. HIDE DEF look
<1>. QED  BY <1>2, <1>3 DEF GaugesTellApart, look

(***************************************************************************)
(* The layout: drawings that keep to their own columns and bands.          *)
(***************************************************************************)
Inside(b, x0, x1, y0, y1) ==
  /\ b.x \in Int /\ b.y \in Int /\ b.w \in Int /\ b.h \in Int
  /\ b.x >= x0 /\ b.x + b.w <= x1 /\ b.y >= y0 /\ b.y + b.h <= y1

Apiece(P) == \A a, b \in P : a.part # b.part => Disjoint(a, b)
Neat(P, x0, x1, y0, y1) == (\A b \in P : Inside(b, x0, x1, y0, y1)) /\ Apiece(P)

LEMMA OneBoxNeat ==
  ASSUME NEW b, NEW x0 \in Int, NEW x1 \in Int, NEW y0 \in Int, NEW y1 \in Int, Inside(b, x0, x1, y0, y1)
  PROVE  Neat({b}, x0, x1, y0, y1)
BY DEF Neat, Apiece

LEMMA OnePartNeat ==
  ASSUME NEW P, NEW part, \A b \in P : b.part = part,
         NEW x0 \in Int, NEW x1 \in Int, NEW y0 \in Int, NEW y1 \in Int, \A b \in P : Inside(b, x0, x1, y0, y1)
  PROVE  Neat(P, x0, x1, y0, y1)
BY DEF Neat, Apiece

LEMMA Within ==
  ASSUME NEW P, NEW x0 \in Int, NEW x1 \in Int, NEW y0 \in Int, NEW y1 \in Int, Neat(P, x0, x1, y0, y1),
         NEW Q \in SUBSET P,
         NEW u0 \in Int, NEW u1 \in Int, NEW v0 \in Int, NEW v1 \in Int, u0 <= x0, x1 <= u1, v0 <= y0, y1 <= v1
  PROVE  Neat(Q, u0, u1, v0, v1)
<1>1. \A b \in Q : Inside(b, x0, x1, y0, y1)
  BY DEF Neat
<1>2. \A b \in Q : Inside(b, u0, u1, v0, v1)
  BY <1>1 DEF Inside
<1>. QED  BY <1>2 DEF Neat, Apiece

\* Neighbours make a neat drawing together: one beside the other ...
LEMMA Beside ==
  ASSUME NEW P, NEW Q, NEW x0 \in Int, NEW x1 \in Int, NEW x2 \in Int, NEW y0 \in Int, NEW y1 \in Int,
         x0 <= x1, x1 <= x2, Neat(P, x0, x1, y0, y1), Neat(Q, x1, x2, y0, y1)
  PROVE  Neat(P \cup Q, x0, x2, y0, y1)
<1>1. ASSUME NEW a \in P, NEW b \in Q PROVE Disjoint(a, b) /\ Disjoint(b, a)
  <2>1. Inside(a, x0, x1, y0, y1) /\ Inside(b, x1, x2, y0, y1)
    BY DEF Neat
  <2>. QED  BY <2>1 DEF Inside, Disjoint
<1>2. \A b \in P \cup Q : Inside(b, x0, x2, y0, y1)
  <2>1. \A b \in P : Inside(b, x0, x1, y0, y1)
    BY DEF Neat
  <2>2. \A b \in Q : Inside(b, x1, x2, y0, y1)
    BY DEF Neat
  <2>. QED  BY <2>1, <2>2 DEF Inside
<1>. QED  BY <1>1, <1>2 DEF Neat, Apiece

\* ... or one below the other.
LEMMA Below ==
  ASSUME NEW P, NEW Q, NEW x0 \in Int, NEW x1 \in Int, NEW y0 \in Int, NEW y1 \in Int, NEW z \in Int, NEW y2 \in Int,
         y0 <= y1, y1 <= z, z <= y2, Neat(P, x0, x1, y0, y1), Neat(Q, x0, x1, z, y2)
  PROVE  Neat(P \cup Q, x0, x1, y0, y2)
<1>1. ASSUME NEW a \in P, NEW b \in Q PROVE Disjoint(a, b) /\ Disjoint(b, a)
  <2>1. Inside(a, x0, x1, y0, y1) /\ Inside(b, x0, x1, z, y2)
    BY DEF Neat
  <2>. QED  BY <2>1 DEF Inside, Disjoint
<1>2. \A b \in P \cup Q : Inside(b, x0, x1, y0, y2)
  <2>1. \A b \in P : Inside(b, x0, x1, y0, y1)
    BY DEF Neat
  <2>2. \A b \in Q : Inside(b, x0, x1, z, y2)
    BY DEF Neat
  <2>. QED  BY <2>1, <2>2 DEF Inside
<1>. QED  BY <1>1, <1>2 DEF Neat, Apiece

LEMMA NeatIsLegible ==
  ASSUME NEW P, Neat(P, 0, FbW, 0, FbH)
  PROVE  Legible(P)
<1>1. \A b \in P : OnPanel(b)
  BY DEF Neat, Inside, OnPanel
<1>. QED  BY <1>1 DEF Neat, Apiece, Legible

-----------------------------------------------------------------------------
\* The boxes of a gauge, whatever it says.
LEMMA GaugeBoxes ==
  ASSUME NEW hasDev \in BOOLEAN, NEW dev \in Int, NEW b \in Gauge(hasDev, dev)
  PROVE  Inside(b, -3, 5, -2, 26)
<1>1. \A t \in Ticks : Inside(t, -3, 5, -2, 26)
  <2>. DEFINE mark(m) == HTick(ZeroDy - m * Scale, IF m % 5 = 0 THEN 5 ELSE 3, m \in {UpMin, -DownMin})
  <2>1. Inside(Box("gauge", 0, 0, 1, GaugeH), -3, 5, -2, 26)
    BY DEF Inside, Box, GaugeH
  <2>2. Inside(HTick(ZeroDy, 7, TRUE), -3, 5, -2, 26)
    BY DEF Inside, Box, HTick, ZeroDy
  <2>3. \A m \in (-DownMin..UpMin) \ {0} : Inside(mark(m), -3, 5, -2, 26)
    BY DEF Inside, Box, HTick, ZeroDy, Scale, DownMin, UpMin
  <2>. QED  BY <2>1, <2>2, <2>3 DEF Ticks
<1>2. \A t \in Square : Inside(t, -3, 5, -2, 26)
  BY DEF Inside, Box, Square, ZeroDy
<1>3. Inside(Bar(dev), -3, 5, -2, 26)
  <2>. DEFINE h == Scale * (IF dev < 0 THEN -Clamp(dev) ELSE Clamp(dev))
  <2>1. h \in Int /\ h >= 0 /\ h <= 15 /\ (dev <= 0 => h <= 9)
    BY DEF Scale, Clamp, UpMin, DownMin
  <2>2. Bar(dev) = IF h < 2 THEN Box("gauge", -2, ZeroDy - 1, 5, 2)
                   ELSE Box("gauge", -2, IF dev > 0 THEN ZeroDy - h ELSE ZeroDy, 5, h)
    BY DEF Bar
  <2>. HIDE DEF h
  <2>. QED  BY <2>1, <2>2 DEF Inside, Box, ZeroDy
<1>4. \A t \in Tab(dev) : Inside(t, -3, 5, -2, 26)
  BY DEF Inside, Box, Tab, GaugeH
<1>5. b \in Ticks \/ b \in Square \/ b = Bar(dev) \/ b \in Tab(dev)
  BY DEF Gauge
<1>. QED  BY <1>1, <1>2, <1>3, <1>4, <1>5

\* A marker keeps to the eleven columns beside its time, and to its row.
LEMMA MarkerNeat ==
  ASSUME NEW s \in {"58A_ATZ", "58A_HIETZING", "58B_ATZ"}, NEW d \in Parsed,
         NEW n, NEW cx \in {Gauge1Cx, Gauge2Cx},
         NEW right \in Int, right = IF cx = Gauge1Cx THEN ColTime1Right ELSE ColTime2Right
  PROVE  LET row == BusRows[s]
         IN  Neat(TimeMarker(<<row.name, "mark", n>>, row, d, Minute, cx, right),
                  right, right + 11, row.y, row.y + 28)
<1>. DEFINE row == BusRows[s]
            part == <<row.name, "mark", n>>
            marker == TimeMarker(part, row, d, Minute, cx, right)
            g == Gauge(HasDeviation(d), DeviationMinutes(d, Minute))
            dy == row.y + (RowHeight[row.font] - GaugeH) \div 2
<1>1. /\ row.y \in Int /\ row.showDev \in BOOLEAN
      /\ row.showDev => dy = row.y + 2
  <2>1. (28 - 24) \div 2 = 2
    OBVIOUS
  <2>2. \/ s = "58A_ATZ" /\ row.y = 22 /\ row.font = "TG" /\ row.showDev = TRUE
        \/ s = "58A_HIETZING" /\ row.y = 54 /\ row.font = "TG" /\ row.showDev = TRUE
        \/ s = "58B_ATZ" /\ row.y = 112 /\ row.font = "EG" /\ row.showDev = FALSE
    BY DEF BusRows
  <2>3. RowHeight["TG"] = 28
    BY DEF RowHeight
  <2>. HIDE DEF row
  <2>4. row.y \in Int
    BY <2>2
  <2>5. row.showDev \in BOOLEAN
    BY <2>2
  <2>6. ASSUME row.showDev PROVE dy = row.y + 2
    <3>1. RowHeight[row.font] = 28
      BY <2>2, <2>3, <2>6
    <3>. QED  BY <2>1, <3>1 DEF GaugeH
  <2>. QED  BY <2>4, <2>5, <2>6
<1>2. \/ cx = 290 /\ right = 284
      \/ cx = 388 /\ right = 384
  BY DEF Gauge1Cx, Gauge2Cx, ColTime1Right, ColTime2Right
<1>3. marker = IF row.showDev THEN Moved(g, part, cx, dy)
               ELSE IF d.source # "Realtime" THEN PlanMark(part, right + 3, row.y) ELSE {}
  BY DEF TimeMarker
<1>4. \A b \in g : Inside(b, -3, 5, -2, 26)
  <2>1. DeviationMinutes(d, Minute) \in Int /\ HasDeviation(d) \in BOOLEAN
    BY DeviationBounds DEF HasDeviation
  <2>. QED  BY <2>1, GaugeBoxes
<1>. HIDE DEF row, g, dy, part, marker
<1>5. ASSUME NEW b \in marker
      PROVE  b.part = part /\ Inside(b, right, right + 11, row.y, row.y + 28)
  <2>1. CASE row.showDev
    <3>1. PICK m \in g : b = Box(part, m.x + cx, m.y + dy, m.w, m.h)
      BY <1>3, <1>5, <2>1 DEF Moved
    <3>2. Inside(m, -3, 5, -2, 26) /\ dy = row.y + 2
      BY <1>1, <1>4, <2>1
    <3>. QED  BY <1>1, <1>2, <3>1, <3>2 DEF Box, Inside
  <2>2. CASE ~row.showDev
    <3>1. b = Box(part, right + 3, row.y, 5, 5)
      BY <1>3, <1>5, <2>2 DEF PlanMark
    <3>. QED  BY <1>1, <1>2, <3>1 DEF Box, Inside
  <2>. QED  BY <1>1, <2>1, <2>2
<1>6. right + 11 \in Int /\ row.y + 28 \in Int /\ right \in Int
  BY <1>1
<1>. QED  BY <1>1, <1>5, <1>6, OnePartNeat DEF marker, row, part

\* Badge, direction, time, marker, time, marker: each in its column.
RowBottom(s) == CASE s = "58A_ATZ" -> 54 [] s = "58A_HIETZING" -> 86 [] s = "58B_ATZ" -> 140

\* The heights and widths in a row of a font that has so much room.
FontRoom(font, room) ==
  LET badge == BadgeBounds[font]
      rowH  == RowHeight[font]
  IN  /\ room >= 28
      /\ badge.w \in Int /\ badge.h \in Int /\ badge.w >= 0 /\ badge.w <= 42
      /\ (rowH - badge.h) \div 2 \in Int /\ (rowH - badge.h) \div 2 >= 0
      /\ (rowH - badge.h) \div 2 + badge.h <= room
      /\ (rowH - 10) \div 2 \in Int /\ (rowH - 10) \div 2 >= 0
      /\ (rowH - 10) \div 2 + 22 <= room
      /\ TextWidth[font]["88:88"] \in Int
      /\ TextWidth[font]["88:88"] <= 89 /\ TextWidth[font]["88:88"] >= 1
      /\ TextHeight[font] \in Int /\ TextHeight[font] <= room

LEMMA Fonts == FontRoom("TG", 32) /\ FontRoom("EG", 28)
<1>1. /\ TextWidth["TG"]["88:88"] \in 1..89 /\ TextHeight["TG"] \in 1..32
      /\ TextWidth["EG"]["88:88"] \in 1..89 /\ TextHeight["EG"] \in 1..28
  BY TextAssumption
<1>2. /\ BadgeBounds["TG"].w = 42 /\ BadgeBounds["TG"].h = 22 /\ RowHeight["TG"] = 28
      /\ BadgeBounds["EG"].w = 34 /\ BadgeBounds["EG"].h = 18 /\ RowHeight["EG"] = 22
  BY DEF BadgeBounds, RowHeight
<1>3. /\ (28 - 22) \div 2 = 3 /\ (28 - 10) \div 2 = 9
      /\ (22 - 18) \div 2 = 2 /\ (22 - 10) \div 2 = 6
  OBVIOUS
<1>4. FontRoom("TG", 32)
  BY <1>1, <1>2, <1>3 DEF FontRoom
<1>5. FontRoom("EG", 28)
  BY <1>1, <1>2, <1>3 DEF FontRoom
<1>. QED  BY <1>4, <1>5

\* The columns of such a row, one beside the other.
LEMMA RowColumns ==
  ASSUME NEW B, NEW D, NEW T1, NEW T2, NEW M1, NEW M2, NEW x \in Int, 0 <= x, x <= 56, NEW y \in Int, NEW y1 \in Int,
         Inside(B, 0, x, y, y1), Inside(D, x, 195, y, y1), Inside(T1, 195, 284, y, y1), Inside(T2, 295, 384, y, y1),
         Neat(M1, 284, 295, y, y1), Neat(M2, 384, 400, y, y1)
  PROVE  Neat({B, D, T1, T2} \cup M1 \cup M2, 0, 400, y, y1)
<1>1. Neat({B}, 0, x, y, y1) /\ Neat({D}, x, 195, y, y1)
  BY OneBoxNeat
<1>2. Neat({T1}, 195, 284, y, y1) /\ Neat({T2}, 295, 384, y, y1)
  BY OneBoxNeat
<1>. DEFINE P1 == {B} \cup {D}
            P2 == P1 \cup {T1}
            P3 == P2 \cup M1
            P4 == P3 \cup {T2}
            P5 == P4 \cup M2
<1>3. P5 = {B, D, T1, T2} \cup M1 \cup M2
  OBVIOUS
<1>4. Neat(P1, 0, 195, y, y1)
  BY <1>1, Beside
<1>. HIDE DEF P1
<1>5. Neat(P2, 0, 284, y, y1)
  BY <1>2, <1>4, Beside
<1>. HIDE DEF P2
<1>6. Neat(P3, 0, 295, y, y1)
  BY <1>5, Beside
<1>. HIDE DEF P3
<1>7. Neat(P4, 0, 384, y, y1)
  BY <1>2, <1>6, Beside
<1>. HIDE DEF P4
<1>8. Neat(P5, 0, 400, y, y1)
  BY <1>7, Beside
<1>. HIDE DEF P5
<1>. QED  BY <1>3, <1>8

\* The boxes in them.
RowFits(font, y, y1, name, dir) ==
  LET badge  == BadgeBounds[font]
      rowH   == RowHeight[font]
      fieldW == TextWidth[font]["88:88"]
      x      == PadX + badge.w + 6
  IN  /\ x \in Int /\ 0 <= x /\ x <= 56
      /\ Inside(Box(<<name, "badge">>, PadX, y + (rowH - badge.h) \div 2, badge.w, badge.h), 0, x, y, y1)
      /\ Inside(Text(<<name, "dir">>, x, y + (rowH - 10) \div 2, "Dir", dir), x, 195, y, y1)
      /\ Inside(Box(<<name, "time", 1>>, ColTime1Right - fieldW, y, fieldW, TextHeight[font]), 195, 284, y, y1)
      /\ Inside(Box(<<name, "time", 2>>, ColTime2Right - fieldW, y, fieldW, TextHeight[font]), 295, 384, y, y1)

LEMMA RowBoxes ==
  ASSUME NEW font, NEW y \in Int, NEW y1 \in Int, FontRoom(font, y1 - y), NEW name, NEW dir,
         TextWidth["Dir"][dir] \in 1..139, TextHeight["Dir"] \in 1..22
  PROVE  RowFits(font, y, y1, name, dir)
<1>. DEFINE badge == BadgeBounds[font]
            rowH == RowHeight[font]
            fieldW == TextWidth[font]["88:88"]
            h == TextHeight[font]
            bw == badge.w
            bh == badge.h
            x == PadX + bw + 6
            b == (rowH - bh) \div 2
            t == (rowH - 10) \div 2
<1>1. /\ y1 - y >= 28
      /\ bw \in Int /\ bh \in Int /\ bw >= 0 /\ bw <= 42
      /\ b \in Int /\ b >= 0 /\ b + bh <= y1 - y
      /\ t \in Int /\ t >= 0 /\ t + 22 <= y1 - y
      /\ fieldW \in Int /\ fieldW <= 89 /\ fieldW >= 1
      /\ h \in Int /\ h <= y1 - y
  BY DEF FontRoom
<1>. HIDE DEF fieldW, h, b, t, bw, bh
<1>2. x \in Int /\ 0 <= x /\ x <= 56 /\ PadX + bw <= x /\ PadX = 8
  BY <1>1 DEF PadX
<1>3. Inside(Box(<<name, "badge">>, PadX, y + b, bw, bh), 0, x, y, y1)
  BY <1>1, <1>2 DEF Inside, Box
<1>4. Inside(Text(<<name, "dir">>, x, y + t, "Dir", dir), x, 195, y, y1)
  <2>1. Text(<<name, "dir">>, x, y + t, "Dir", dir) = Box(<<name, "dir">>, x, y + t, TextWidth["Dir"][dir], TextHeight["Dir"])
    BY DEF Text
  <2>. DEFINE w == TextWidth["Dir"][dir]
              dh == TextHeight["Dir"]
  <2>2. w \in Int /\ w <= 139 /\ dh \in Int /\ dh <= 22
    OBVIOUS
  <2>. HIDE DEF w, dh, x
  <2>3. Inside(Box(<<name, "dir">>, x, y + t, w, dh), x, 195, y, y1)
    BY <1>1, <1>2, <2>2 DEF Inside, Box
  <2>. QED  BY <2>1, <2>3 DEF w, dh
<1>5. Inside(Box(<<name, "time", 1>>, ColTime1Right - fieldW, y, fieldW, h), 195, 284, y, y1)
  BY <1>1 DEF Inside, Box, ColTime1Right
<1>6. Inside(Box(<<name, "time", 2>>, ColTime2Right - fieldW, y, fieldW, h), 295, 384, y, y1)
  BY <1>1 DEF Inside, Box, ColTime2Right
<1>. QED  BY <1>2, <1>3, <1>4, <1>5, <1>6 DEF RowFits, fieldW, h, b, t, bw, bh

LEMMA MarkersNeat ==
  ASSUME NEW s \in {"58A_ATZ", "58A_HIETZING", "58B_ATZ"}, NEW list \in Seq(Parsed), NEW n,
         NEW y1 \in Int, BusRows[s].y \in Int, BusRows[s].y + 28 <= y1
  PROVE  LET row == BusRows[s]
             marker(cx, right) ==
               IF n \in DOMAIN list
               THEN TimeMarker(<<row.name, "mark", n>>, row, list[n], Minute, cx, right) ELSE {}
         IN  /\ Neat(marker(Gauge1Cx, ColTime1Right), 284, 295, row.y, y1)
             /\ Neat(marker(Gauge2Cx, ColTime2Right), 384, 400, row.y, y1)
<1>. DEFINE row == BusRows[s]
            y == row.y
            part == <<row.name, "mark", n>>
            m1 == TimeMarker(part, row, list[n], Minute, Gauge1Cx, ColTime1Right)
            m2 == TimeMarker(part, row, list[n], Minute, Gauge2Cx, ColTime2Right)
<1>1. Gauge1Cx = 290 /\ Gauge2Cx = 388 /\ ColTime1Right = 284 /\ ColTime2Right = 384
  BY DEF Gauge1Cx, Gauge2Cx, ColTime1Right, ColTime2Right
<1>2. CASE n \in DOMAIN list
  <2>1. list[n] \in Parsed
    BY <1>2
  <2>2. Neat(m1, ColTime1Right, ColTime1Right + 11, y, y + 28)
    <3>1. ColTime1Right \in Int /\ Gauge1Cx \in {Gauge1Cx, Gauge2Cx}
      BY <1>1
    <3>2. ColTime1Right = IF Gauge1Cx = Gauge1Cx THEN ColTime1Right ELSE ColTime2Right
      OBVIOUS
    <3>. QED  BY <2>1, <3>1, <3>2, MarkerNeat
  <2>3. Neat(m2, ColTime2Right, ColTime2Right + 11, y, y + 28)
    <3>1. ColTime2Right \in Int /\ Gauge2Cx \in {Gauge1Cx, Gauge2Cx}
      BY <1>1
    <3>2. ColTime2Right = IF Gauge2Cx = Gauge1Cx THEN ColTime1Right ELSE ColTime2Right
      BY <1>1
    <3>. QED  BY <2>1, <3>1, <3>2, MarkerNeat
  <2>. HIDE DEF m1, m2, y
  <2>4. y \in Int /\ y + 28 \in Int /\ y + 28 <= y1
    BY DEF y
  <2>5. 284 + 11 = 295 /\ 384 + 11 = 395
    OBVIOUS
  <2>6. Neat(m1, 284, 295, y, y + 28)
    BY <1>1, <2>2, <2>5
  <2>7. Neat(m2, 384, 395, y, y + 28)
    BY <1>1, <2>3, <2>5
  <2>8. Neat(m1, 284, 295, y, y1)
    BY <2>4, <2>6, Within
  <2>9. Neat(m2, 384, 400, y, y1)
    BY <2>4, <2>7, Within
  <2>. QED  BY <1>2, <2>8, <2>9 DEF m1, m2, y
<1>3. CASE n \notin DOMAIN list
  <2>1. \A x0, x1, y0, v : Neat({}, x0, x1, y0, v)
    BY DEF Neat, Apiece
  <2>. QED  BY <1>3, <2>1
<1>. QED  BY <1>2, <1>3

LEMMA BusRowNeat ==
  ASSUME NEW s \in {"58A_ATZ", "58A_HIETZING", "58B_ATZ"}, NEW list \in Seq(Parsed)
  PROVE  Neat(BusRow(BusRows[s], list, Minute), 0, 400, BusRows[s].y, RowBottom(s))
<1>. DEFINE row == BusRows[s]
            y == row.y
            y1 == RowBottom(s)
            font == row.font
            badge == BadgeBounds[font]
            rowH == RowHeight[font]
            fieldW == TextWidth[font]["88:88"]
            x == PadX + badge.w + 6
            marker(n, cx, right) ==
              IF n \in DOMAIN list
              THEN TimeMarker(<<row.name, "mark", n>>, row, list[n], Minute, cx, right) ELSE {}
            B == Box(<<row.name, "badge">>, PadX, y + (rowH - badge.h) \div 2, badge.w, badge.h)
            D == Text(<<row.name, "dir">>, x, y + (rowH - 10) \div 2, "Dir", row.dir)
            T1 == Box(<<row.name, "time", 1>>, ColTime1Right - fieldW, y, fieldW, TextHeight[font])
            T2 == Box(<<row.name, "time", 2>>, ColTime2Right - fieldW, y, fieldW, TextHeight[font])
            M1 == marker(1, Gauge1Cx, ColTime1Right)
            M2 == marker(2, Gauge2Cx, ColTime2Right)
<1>1. BusRow(row, list, Minute) = {B, D, T1, T2} \cup M1 \cup M2
  BY DEF BusRow
<1>2. \/ y = 22 /\ y1 = 54 /\ font = "TG" /\ row.dir = "Atzgersdorf"
      \/ y = 54 /\ y1 = 86 /\ font = "TG" /\ row.dir = "Hietzing"
      \/ y = 112 /\ y1 = 140 /\ font = "EG" /\ row.dir = "Atzgersdorf"
  BY DEF BusRows, RowBottom
<1>3. /\ y \in Int /\ y1 \in Int /\ y + 28 <= y1 /\ FontRoom(font, y1 - y)
  <2>. HIDE DEF y, y1, font
  <2>1. y \in Int /\ y1 \in Int /\ y + 28 <= y1
    BY <1>2
  <2>2. FontRoom(font, y1 - y)
    BY <1>2, Fonts
  <2>. QED  BY <2>1, <2>2
<1>4. TextWidth["Dir"][row.dir] \in 1..139 /\ TextHeight["Dir"] \in 1..22
  <2>1. row.dir \in {"Atzgersdorf", "Hietzing"}
    BY <1>2
  <2>. HIDE DEF row
  <2>. QED  BY <2>1, TextAssumption
<1>5. Neat(M1, 284, 295, y, y1) /\ Neat(M2, 384, 400, y, y1)
  <2>. HIDE DEF y1
  <2>. QED  BY <1>3, MarkersNeat
<1>6. /\ x \in Int /\ 0 <= x /\ x <= 56
      /\ Inside(B, 0, x, y, y1) /\ Inside(D, x, 195, y, y1)
      /\ Inside(T1, 195, 284, y, y1) /\ Inside(T2, 295, 384, y, y1)
  <2>1. RowFits(font, y, y1, row.name, row.dir)
    <3>. HIDE DEF row, font, y, y1
    <3>. QED  BY <1>3, <1>4, RowBoxes
  <2>. QED  BY <2>1 DEF RowFits
<1>. HIDE DEF row, y, y1, x, B, D, T1, T2, M1, M2
<1>7. Neat({B, D, T1, T2} \cup M1 \cup M2, 0, 400, y, y1)
  BY <1>3, <1>5, <1>6, RowColumns
<1>. QED  BY <1>1, <1>7 DEF row, y, y1

\* A slot of the S-Bahn row keeps to its third of the panel.
LEMMA SbahnSlotNeat ==
  ASSUME NEW n \in 1..3, NEW list, NEW x \in Int, x = 8 + 128 * (n - 1)
  PROVE  Neat(SbahnSlot(n, list), x, x + 128, 162, 196)
<1>. DEFINE w == TextWidth["SB"]["88:88"]
            h == TextHeight["SB"]
            dashW == TextWidth["SB"]["--:--"]
            dashes == Text(<<"SB", "time", n>>, x, 162, "SB", "--:--")
            B == Box(<<"SB", "badge", n>>, x, 164, 22, 14)
            T == Text(<<"SB", "time", n>>, x + 28, 162, "SB", "88:88")
            M == IF list[n].source = "Realtime" THEN {} ELSE PlanMark(<<"SB", "mark", n>>, x + 28 + w + 3, 162)
<1>1. w \in 1..92 /\ h \in 1..34 /\ dashW \in 1..128
  BY TextAssumption
<1>2. SbahnSlot(n, list) = IF n \notin DOMAIN list THEN {dashes} ELSE {B, T} \cup M
  <2>1. PadX + (n - 1) * SbSlotWidth = x
    <3>1. (400 - 2 * 8) \div 3 = 128
      OBVIOUS
    <3>2. SbSlotWidth = 128 /\ PadX = 8
      BY <3>1 DEF SbSlotWidth, FbW, PadX
    <3>. QED  BY <3>2
  <2>2. BadgeBounds["SB"].w = 22 /\ BadgeBounds["SB"].h = 14 /\ RowHeight["SB"] = 18
    BY DEF BadgeBounds, RowHeight
  <2>3. (18 - 14) \div 2 = 2 /\ 162 + 2 = 164 /\ x + 22 + 6 = x + 28
    OBVIOUS
  <2>. DEFINE X == PadX + (n - 1) * SbSlotWidth
              badge == BadgeBounds["SB"]
              bw == badge.w
              bh == badge.h
              rowH == RowHeight["SB"]
              bx == X + bw + 6
              by == 162 + (rowH - bh) \div 2
  <2>4. SbahnSlot(n, list) =
          IF n \notin DOMAIN list THEN {Text(<<"SB", "time", n>>, X, 162, "SB", "--:--")}
          ELSE {Box(<<"SB", "badge", n>>, X, by, bw, bh), Text(<<"SB", "time", n>>, bx, 162, "SB", "88:88")}
               \cup IF list[n].source = "Realtime" THEN {} ELSE PlanMark(<<"SB", "mark", n>>, bx + w + 3, 162)
    BY DEF SbahnSlot
  <2>5. X = x /\ bw = 22 /\ bh = 14 /\ rowH = 18
    BY <2>1, <2>2
  <2>. HIDE DEF w, X, bw, bh, rowH
  <2>6. bx = x + 28 /\ by = 164
    BY <2>3, <2>5
  <2>. HIDE DEF bx, by
  <2>. QED  BY <2>4, <2>5, <2>6
<1>. HIDE DEF w, h, dashW
<1>3. Neat({dashes}, x, x + 128, 162, 196)
  <2>1. dashes = Box(<<"SB", "time", n>>, x, 162, dashW, h)
    BY DEF Text, dashW, h
  <2>2. Inside(dashes, x, x + 128, 162, 196)
    BY <1>1, <2>1 DEF Inside, Box
  <2>. HIDE DEF dashes
  <2>. QED  BY <2>2, OneBoxNeat
<1>4. Neat({B, T} \cup M, x, x + 128, 162, 196)
  <2>. DEFINE t == x + 28
              m == x + 28 + w
  <2>1. T = Box(<<"SB", "time", n>>, t, 162, w, h)
    BY DEF Text, w, h
  <2>2. t \in Int /\ m \in Int /\ x <= t /\ t <= m /\ m + 8 <= x + 128 /\ x + 128 \in Int /\ t = x + 28 /\ m = t + w
    BY <1>1
  <2>. HIDE DEF t, m
  <2>3. Inside(B, x, t, 162, 196)
    BY <2>2 DEF Inside, Box
  <2>4. Inside(T, t, m, 162, 196)
    BY <1>1, <2>1, <2>2 DEF Inside, Box
  <2>5. Neat(M, m, x + 128, 162, 196)
    <3>. DEFINE part == <<"SB", "mark", n>>
    <3>1. \A b \in M : b.part = part
      BY DEF PlanMark, Box
    <3>2. \A b \in M : b = Box(part, m + 3, 162, 5, 5)
      BY <2>2 DEF PlanMark, m, t
    <3>. HIDE DEF M, part
    <3>3. \A b \in M : Inside(b, m, x + 128, 162, 196)
      BY <2>2, <3>2 DEF Inside, Box
    <3>. QED  BY <3>1, <3>3 DEF Neat, Apiece
  <2>. HIDE DEF B, T, M
  <2>6. Neat({B}, x, t, 162, 196) /\ Neat({T}, t, m, 162, 196)
    BY <2>2, <2>3, <2>4, OneBoxNeat
  <2>7. Neat({B} \cup {T}, x, m, 162, 196)
    BY <2>2, <2>6, Beside
  <2>8. Neat(({B} \cup {T}) \cup M, x, x + 128, 162, 196)
    <3>. DEFINE P == {B} \cup {T}
    <3>. HIDE DEF P
    <3>1. m <= x + 128
      BY <2>2
    <3>. QED  BY <2>2, <2>5, <2>7, <3>1, Beside DEF P
  <2>9. ({B} \cup {T}) \cup M = {B, T} \cup M
    OBVIOUS
  <2>. QED  BY <2>8, <2>9
<1>. QED  BY <1>2, <1>3, <1>4

LEMMA SbahnRowNeat ==
  ASSUME NEW list
  PROVE  Neat(UNION {SbahnSlot(n, list) : n \in 1..3}, 0, 400, 162, 196)
<1>. DEFINE P(n) == SbahnSlot(n, list)
<1>1. Neat(P(1), 8, 136, 162, 196) /\ Neat(P(2), 136, 264, 162, 196) /\ Neat(P(3), 264, 392, 162, 196)
  <2>1. 8 = 8 + 128 * (1 - 1) /\ 136 = 8 + 128 * (2 - 1) /\ 264 = 8 + 128 * (3 - 1)
    OBVIOUS
  <2>2. 8 + 128 = 136 /\ 136 + 128 = 264 /\ 264 + 128 = 392
    OBVIOUS
  <2>3. Neat(P(1), 8, 8 + 128, 162, 196)
    BY <2>1, SbahnSlotNeat
  <2>4. Neat(P(2), 136, 136 + 128, 162, 196)
    BY <2>1, SbahnSlotNeat
  <2>5. Neat(P(3), 264, 264 + 128, 162, 196)
    BY <2>1, SbahnSlotNeat
  <2>. HIDE DEF P
  <2>. QED  BY <2>2, <2>3, <2>4, <2>5
<1>2. UNION {P(n) : n \in 1..3} = (P(1) \cup P(2)) \cup P(3)
  <2>1. 1..3 = {1, 2, 3}
    OBVIOUS
  <2>. HIDE DEF P
  <2>. QED  BY <2>1
<1>. HIDE DEF P
<1>3. Neat(P(1) \cup P(2), 8, 264, 162, 196)
  BY <1>1, Beside
<1>. DEFINE Q == P(1) \cup P(2)
<1>4. Neat(Q \cup P(3), 8, 392, 162, 196)
  <2>1. Neat(Q, 8, 264, 162, 196)
    BY <1>3
  <2>. HIDE DEF Q
  <2>. QED  BY <1>1, <2>1, Beside
<1>. DEFINE R == Q \cup P(3)
<1>5. Neat(R, 0, 400, 162, 196)
  <2>1. Neat(R, 8, 392, 162, 196)
    BY <1>4
  <2>. HIDE DEF R
  <2>. QED  BY <2>1, Within
<1>. QED  BY <1>2, <1>5 DEF P

\* A box is neat within any bounds around it.
LEMMA BoxNeat ==
  ASSUME NEW part, NEW x \in Int, NEW y \in Int, NEW w \in Int, NEW h \in Int,
         NEW x0 \in Int, NEW x1 \in Int, NEW y0 \in Int, NEW y1 \in Int,
         x0 <= x, x + w <= x1, y0 <= y, y + h <= y1
  PROVE  Neat({Box(part, x, y, w, h)}, x0, x1, y0, y1)
<1>1. Inside(Box(part, x, y, w, h), x0, x1, y0, y1)
  BY DEF Inside, Box
<1>. QED  BY <1>1, OneBoxNeat

-----------------------------------------------------------------------------
\* The network plan, its boxes in pixels.
LEMMA PlanPlaces ==
  /\ Centre[1] = 46 /\ Centre[2] = 123 /\ Centre[3] = 200 /\ Centre[4] = 276 /\ Centre[5] = 353
  /\ PlanTop = 201 /\ PlanBottom = 243 /\ PlanY = 196 /\ PlanH = 52
<1>1. /\ (384 * 1) \div 10 = 38 /\ (384 * 3) \div 10 = 115 /\ (384 * 5) \div 10 = 192
      /\ (384 * 7) \div 10 = 268 /\ (384 * 9) \div 10 = 345
  OBVIOUS
<1>2. FbW - 2 * PadX = 384 /\ PadX = 8
  BY DEF FbW, PadX
<1>3. \A i \in 1..5 : Centre[i] = PadX + ((FbW - 2 * PadX) * (2 * i - 1)) \div 10
  BY DEF Centre
<1>4. \A i \in 1..5 : Centre[i] = 8 + (384 * (2 * i - 1)) \div 10
  BY <1>2, <1>3
<1>5. 2 * 1 - 1 = 1 /\ 2 * 2 - 1 = 3 /\ 2 * 3 - 1 = 5 /\ 2 * 4 - 1 = 7 /\ 2 * 5 - 1 = 9
  OBVIOUS
<1>6. /\ Centre[1] = 8 + (384 * 1) \div 10 /\ Centre[2] = 8 + (384 * 3) \div 10
      /\ Centre[3] = 8 + (384 * 5) \div 10
  BY <1>4, <1>5
<1>7. Centre[4] = 8 + (384 * 7) \div 10 /\ Centre[5] = 8 + (384 * 9) \div 10
  BY <1>4, <1>5
<1>8. PlanTop = 201 /\ PlanBottom = 243 /\ PlanY = 196 /\ PlanH = 52
  BY DEF PlanTop, PlanBottom, PlanY, PlanH
<1>. QED  BY <1>1, <1>6, <1>7, <1>8

StopBox(i, y) == <<"plan", "stop", i, y>>
LinkBox(i, y) == <<"plan", "link", i, y>>
UpperPlan ==
  ((({Box(StopBox(1, 201), 44, 199, 5, 5)} \cup {Box(LinkBox(1, 201), 49, 201, 70, 1)})
      \cup {Box(StopBox(2, 201), 119, 197, 9, 9), Box(StopBox(2, 201), 123, 205, 1, 34)}))
      \cup {Box(<<"plan", "triangle">>, 274, 234, 5, 5)}
LeftPlan ==
  ({Box(StopBox(2, 243), 119, 239, 9, 9)} \cup {Box(LinkBox(2, 243), 128, 243, 69, 1)})
    \cup {Box(StopBox(3, 243), 198, 241, 5, 5)}
RightPlan ==
  (({Box(LinkBox(3, 243), 203, 243, 68, 1)} \cup {Box(StopBox(4, 243), 272, 239, 8, 8)})
    \cup {Box(LinkBox(4, 243), 281, 243, 69, 1)}) \cup {Box(StopBox(5, 243), 351, 241, 5, 5)}
Label(i) ==
  Text(<<"plan", "label", i>>, <<42, 117, 194, 270, 346>>[i], 256,
       "Label", <<"Hbf", "Atzg", "Ende", "Tull", "Hietz">>[i])

LEMMA PlanDrawn == NetworkPlan = (UpperPlan \cup (LeftPlan \cup RightPlan)) \cup {Label(i) : i \in 1..5}
<1>. DEFINE labelled(i) ==
              Text(<<"plan", "label", i>>, Centre[i] - (3 * <<3, 4, 4, 4, 5>>[i]) \div 2, PlanY + PlanH + 8,
                   "Label", <<"Hbf", "Atzg", "Ende", "Tull", "Hietz">>[i])
<1>1. 5 \div 2 = 2 /\ 9 \div 2 = 4 /\ 8 \div 2 = 4
  OBVIOUS
<1>2. /\ Stop(1, PlanTop, 5) = Box(StopBox(1, 201), 44, 199, 5, 5)
      /\ Stop(2, PlanTop, 9) = Box(StopBox(2, 201), 119, 197, 9, 9)
      /\ Stop(2, PlanBottom, 9) = Box(StopBox(2, 243), 119, 239, 9, 9)
  BY <1>1, PlanPlaces DEF Stop, StopBox
<1>3. /\ Stop(3, PlanBottom, 5) = Box(StopBox(3, 243), 198, 241, 5, 5)
      /\ Stop(4, PlanBottom, 8) = Box(StopBox(4, 243), 272, 239, 8, 8)
      /\ Stop(5, PlanBottom, 5) = Box(StopBox(5, 243), 351, 241, 5, 5)
  BY <1>1, PlanPlaces DEF Stop, StopBox
<1>4. /\ HLink(1, PlanTop, Centre[1] + 3, Centre[2] - 5) = Box(LinkBox(1, 201), 49, 201, 70, 1)
      /\ HLink(2, PlanBottom, Centre[2] + 5, Centre[3] - 4) = Box(LinkBox(2, 243), 128, 243, 69, 1)
      /\ HLink(3, PlanBottom, Centre[3] + 3, Centre[4] - 6) = Box(LinkBox(3, 243), 203, 243, 68, 1)
      /\ HLink(4, PlanBottom, Centre[4] + 5, Centre[5] - 4) = Box(LinkBox(4, 243), 281, 243, 69, 1)
  BY PlanPlaces DEF HLink, LinkBox
<1>5. /\ Box(<<"plan", "stop", 2, PlanTop>>, Centre[2], PlanTop + 4, 1, PlanBottom - PlanTop - 8)
           = Box(StopBox(2, 201), 123, 205, 1, 34)
      /\ Box(<<"plan", "triangle">>, Centre[4] - 2, PlanBottom - 9, 5, 5)
           = Box(<<"plan", "triangle">>, 274, 234, 5, 5)
  BY PlanPlaces DEF StopBox
<1>6. \A i \in 1..5 : labelled(i) = Label(i)
  <2>1. 9 \div 2 = 4 /\ 12 \div 2 = 6 /\ 15 \div 2 = 7
    OBVIOUS
  <2>2. PlanY + PlanH + 8 = 256
    BY PlanPlaces
  <2>3. \A i \in 1..5 : Centre[i] - (3 * <<3, 4, 4, 4, 5>>[i]) \div 2 = <<42, 117, 194, 270, 346>>[i]
    <3>1. \A i \in 1..5 : i = 1 \/ i = 2 \/ i = 3 \/ i = 4 \/ i = 5
      OBVIOUS
    <3>2. 3 * <<3, 4, 4, 4, 5>>[1] = 9 /\ 3 * <<3, 4, 4, 4, 5>>[2] = 12 /\ 3 * <<3, 4, 4, 4, 5>>[3] = 12
          /\ 3 * <<3, 4, 4, 4, 5>>[4] = 12 /\ 3 * <<3, 4, 4, 4, 5>>[5] = 15
      OBVIOUS
    <3>. QED  BY <2>1, <3>1, <3>2, PlanPlaces
  <2>. QED  BY <2>2, <2>3 DEF Label
<1>7. {labelled(i) : i \in 1..5} = {Label(i) : i \in 1..5}
  BY <1>6
<1>8. NetworkPlan =
        {Stop(1, PlanTop, 5), Stop(2, PlanTop, 9),
         HLink(1, PlanTop, Centre[1] + 3, Centre[2] - 5),
         Box(<<"plan", "stop", 2, PlanTop>>, Centre[2], PlanTop + 4, 1, PlanBottom - PlanTop - 8),
         Box(<<"plan", "triangle">>, Centre[4] - 2, PlanBottom - 9, 5, 5),
         Stop(2, PlanBottom, 9), Stop(3, PlanBottom, 5), Stop(4, PlanBottom, 8), Stop(5, PlanBottom, 5),
         HLink(2, PlanBottom, Centre[2] + 5, Centre[3] - 4),
         HLink(3, PlanBottom, Centre[3] + 3, Centre[4] - 6),
         HLink(4, PlanBottom, Centre[4] + 5, Centre[5] - 4)}
        \cup {labelled(i) : i \in 1..5}
  BY DEF NetworkPlan
<1>. DEFINE labels == {labelled(i) : i \in 1..5}
<1>. HIDE DEF labelled
<1>9. NetworkPlan =
        {Box(StopBox(1, 201), 44, 199, 5, 5), Box(StopBox(2, 201), 119, 197, 9, 9),
         Box(LinkBox(1, 201), 49, 201, 70, 1), Box(StopBox(2, 201), 123, 205, 1, 34),
         Box(<<"plan", "triangle">>, 274, 234, 5, 5),
         Box(StopBox(2, 243), 119, 239, 9, 9), Box(StopBox(3, 243), 198, 241, 5, 5),
         Box(StopBox(4, 243), 272, 239, 8, 8), Box(StopBox(5, 243), 351, 241, 5, 5),
         Box(LinkBox(2, 243), 128, 243, 69, 1), Box(LinkBox(3, 243), 203, 243, 68, 1),
         Box(LinkBox(4, 243), 281, 243, 69, 1)}
        \cup {Label(i) : i \in 1..5}
  BY <1>2, <1>3, <1>4, <1>5, <1>7, <1>8
<1>. QED  BY <1>9 DEF UpperPlan, LeftPlan, RightPlan

LEMMA UpperPlanNeat == Neat(UpperPlan, 0, 400, 197, 239)
<1>. DEFINE A == {Box(StopBox(1, 201), 44, 199, 5, 5)}
            B == {Box(LinkBox(1, 201), 49, 201, 70, 1)}
            C == {Box(StopBox(2, 201), 119, 197, 9, 9), Box(StopBox(2, 201), 123, 205, 1, 34)}
            D == {Box(<<"plan", "triangle">>, 274, 234, 5, 5)}
            AB == A \cup B
            ABC == AB \cup C
            ABCD == ABC \cup D
<1>1. Neat(A, 0, 49, 197, 239) /\ Neat(B, 49, 119, 197, 239) /\ Neat(D, 128, 400, 197, 239)
  BY BoxNeat
<1>2. Neat(C, 119, 128, 197, 239)
  BY DEF Neat, Apiece, Inside, Box
<1>3. UpperPlan = ABCD
  BY DEF UpperPlan
<1>. HIDE DEF A, B, C, D
<1>4. Neat(AB, 0, 119, 197, 239)
  BY <1>1, Beside
<1>. HIDE DEF AB
<1>5. Neat(ABC, 0, 128, 197, 239)
  BY <1>2, <1>4, Beside
<1>. HIDE DEF ABC
<1>6. Neat(ABCD, 0, 400, 197, 239)
  BY <1>1, <1>5, Beside
<1>. HIDE DEF ABCD
<1>. QED  BY <1>3, <1>6

LEMMA LeftPlanNeat == Neat(LeftPlan, 0, 203, 239, 248)
<1>. DEFINE A == {Box(StopBox(2, 243), 119, 239, 9, 9)}
            B == {Box(LinkBox(2, 243), 128, 243, 69, 1)}
            C == {Box(StopBox(3, 243), 198, 241, 5, 5)}
            AB == A \cup B
            ABC == AB \cup C
<1>1. Neat(A, 0, 128, 239, 248) /\ Neat(B, 128, 197, 239, 248) /\ Neat(C, 197, 203, 239, 248)
  BY BoxNeat
<1>2. LeftPlan = ABC
  BY DEF LeftPlan
<1>. HIDE DEF A, B, C
<1>3. Neat(AB, 0, 197, 239, 248)
  BY <1>1, Beside
<1>. HIDE DEF AB
<1>4. Neat(ABC, 0, 203, 239, 248)
  BY <1>1, <1>3, Beside
<1>. HIDE DEF ABC
<1>. QED  BY <1>2, <1>4

LEMMA RightPlanNeat == Neat(RightPlan, 203, 400, 239, 248)
<1>. DEFINE A == {Box(LinkBox(3, 243), 203, 243, 68, 1)}
            B == {Box(StopBox(4, 243), 272, 239, 8, 8)}
            C == {Box(LinkBox(4, 243), 281, 243, 69, 1)}
            D == {Box(StopBox(5, 243), 351, 241, 5, 5)}
            AB == A \cup B
            ABC == AB \cup C
            ABCD == ABC \cup D
<1>1. Neat(A, 203, 271, 239, 248) /\ Neat(B, 271, 281, 239, 248) /\ Neat(C, 281, 350, 239, 248)
      /\ Neat(D, 350, 400, 239, 248)
  BY BoxNeat
<1>2. RightPlan = ABCD
  BY DEF RightPlan
<1>. HIDE DEF A, B, C, D
<1>3. Neat(AB, 203, 281, 239, 248)
  BY <1>1, Beside
<1>. HIDE DEF AB
<1>4. Neat(ABC, 203, 350, 239, 248)
  BY <1>1, <1>3, Beside
<1>. HIDE DEF ABC
<1>5. Neat(ABCD, 203, 400, 239, 248)
  BY <1>1, <1>4, Beside
<1>. HIDE DEF ABCD
<1>. QED  BY <1>2, <1>5

LEMMA LabelsNeat == Neat({Label(i) : i \in 1..5}, 0, 400, 256, 291)
<1>. DEFINE h == TextHeight["Label"]
            w(i) == TextWidth["Label"][<<"Hbf", "Atzg", "Ende", "Tull", "Hietz">>[i]]
            x(i) == <<42, 117, 194, 270, 346>>[i]
<1>1. ASSUME NEW i \in 1..5 PROVE w(i) \in 1..54 /\ x(i) \in Int /\ x(i) <= 346
  <2>. DEFINE says == <<"Hbf", "Atzg", "Ende", "Tull", "Hietz">>[i]
  <2>1. says \in {"Hbf", "Atzg", "Ende", "Tull", "Hietz"}
    OBVIOUS
  <2>2. x(i) \in Int /\ x(i) <= 346
    OBVIOUS
  <2>3. TextWidth["Label"][says] \in 1..54
    <3>1. \A l \in {"Hbf", "Atzg", "Ende", "Tull", "Hietz"} : TextWidth["Label"][l] \in 1..54
      BY TextAssumption
    <3>. HIDE DEF says
    <3>. QED  BY <2>1, <3>1
  <2>. QED  BY <2>2, <2>3
<1>2. h \in 1..35
  BY TextAssumption
<1>3. \A i : Label(i) = Box(<<"plan", "label", i>>, x(i), 256, w(i), h)
  BY DEF Label, Text
<1>. HIDE DEF w, h
<1>4. ASSUME NEW i \in 1..5 PROVE Neat({Label(i)}, x(i), x(i) + 54, 256, 291)
  <2>. DEFINE v == x(i)
              u == w(i)
  <2>1. v \in Int /\ u \in Int /\ u <= 54 /\ h \in Int /\ h <= 35
    BY <1>1, <1>2
  <2>2. Label(i) = Box(<<"plan", "label", i>>, v, 256, u, h)
    BY <1>3
  <2>. HIDE DEF v, u, x
  <2>3. Neat({Box(<<"plan", "label", i>>, v, 256, u, h)}, v, v + 54, 256, 291)
    <3>1. v + u <= v + 54 /\ v + 54 \in Int /\ 256 + h <= 291 /\ v <= v
      BY <2>1
    <3>. QED  BY <2>1, <3>1, BoxNeat
  <2>. QED  BY <2>2, <2>3 DEF v
<1>5. x(1) = 42 /\ x(2) = 117 /\ x(3) = 194 /\ x(4) = 270 /\ x(5) = 346
  OBVIOUS
<1>6. /\ Neat({Label(1)}, 42, 96, 256, 291) /\ Neat({Label(2)}, 117, 171, 256, 291)
      /\ Neat({Label(3)}, 194, 248, 256, 291)
      /\ Neat({Label(4)}, 270, 324, 256, 291) /\ Neat({Label(5)}, 346, 400, 256, 291)
  <2>1. \A i \in 1..5 : Neat({Label(i)}, x(i), x(i) + 54, 256, 291)
    BY <1>4
  <2>. HIDE DEF x
  <2>2. 42 + 54 = 96 /\ 117 + 54 = 171 /\ 194 + 54 = 248 /\ 270 + 54 = 324 /\ 346 + 54 = 400
    OBVIOUS
  <2>. QED  BY <1>5, <2>1, <2>2
<1>. DEFINE A == {Label(1)}
            B == {Label(2)}
            C == {Label(3)}
            D == {Label(4)}
            E == {Label(5)}
            AB == A \cup B
            ABC == AB \cup C
            ABCD == ABC \cup D
            ABCDE == ABCD \cup E
<1>7. {Label(i) : i \in 1..5} = ABCDE
  <2>1. 1..5 = {1, 2, 3, 4, 5}
    OBVIOUS
  <2>. QED  BY <2>1
<1>8. Neat(A, 0, 117, 256, 291) /\ Neat(B, 117, 194, 256, 291) /\ Neat(C, 194, 270, 256, 291)
      /\ Neat(D, 270, 346, 256, 291) /\ Neat(E, 346, 400, 256, 291)
  <2>1. A \in SUBSET A /\ B \in SUBSET B /\ C \in SUBSET C /\ D \in SUBSET D
    OBVIOUS
  <2>. HIDE DEF A, B, C, D, E
  <2>. QED  BY <1>6, <2>1, Within DEF A, B, C, D, E
<1>. HIDE DEF A, B, C, D, E
<1>9. Neat(AB, 0, 194, 256, 291)
  BY <1>8, Beside
<1>. HIDE DEF AB
<1>10. Neat(ABC, 0, 270, 256, 291)
  BY <1>8, <1>9, Beside
<1>. HIDE DEF ABC
<1>11. Neat(ABCD, 0, 346, 256, 291)
  BY <1>8, <1>10, Beside
<1>. HIDE DEF ABCD
<1>12. Neat(ABCDE, 0, 400, 256, 291)
  BY <1>8, <1>11, Beside
<1>. HIDE DEF ABCDE
<1>. QED  BY <1>7, <1>12

LEMMA NetworkPlanNeat == Neat(NetworkPlan, 0, 400, 197, 291)
<1>. DEFINE lower == LeftPlan \cup RightPlan
            plan == UpperPlan \cup lower
            labels == {Label(i) : i \in 1..5}
<1>1. Neat(lower, 0, 400, 239, 248)
  BY LeftPlanNeat, RightPlanNeat, Beside
<1>. HIDE DEF lower
<1>2. Neat(plan, 0, 400, 197, 248)
  BY <1>1, UpperPlanNeat, Below
<1>. HIDE DEF plan
<1>3. Neat(labels, 0, 400, 256, 291)
  BY LabelsNeat
<1>. HIDE DEF labels
<1>4. Neat(plan \cup labels, 0, 400, 197, 291)
  BY <1>2, <1>3, Below
<1>. QED  BY <1>4, PlanDrawn DEF plan, lower, labels

\* The update stamp keeps to the right corner.
LEMMA StampNeat == Neat(UpdateStamp, 340, 400, 291, 300)
<1>. DEFINE w == TextWidth["Label"]["upd 88:88"]
<1>1. w \in 1..56
  BY TextAssumption
<1>2. UpdateStamp = {Box(<<"stamp">>, 400 - w - 4, 291, w + 4, 9)}
  BY DEF UpdateStamp, FbW, FbH
<1>. HIDE DEF w
<1>. DEFINE x == 400 - w - 4
            v == w + 4
<1>3. x \in Int /\ v \in Int /\ 340 <= x /\ x + v <= 400
  BY <1>1
<1>. HIDE DEF x, v
<1>4. Neat({Box(<<"stamp">>, x, 291, v, 9)}, 340, 400, 291, 300)
  BY <1>3, BoxNeat
<1>. QED  BY <1>2, <1>4 DEF x, v

(***************************************************************************)
(* Whole pictures.                                                         *)
(***************************************************************************)
LEMMA StampBelow ==
  ASSUME NEW P, NEW y0 \in Int, NEW y1 \in Int, 0 <= y0, y0 <= y1, y1 <= 291, Neat(P, 0, 400, y0, y1)
  PROVE  Legible(UpdateStamp \cup P)
<1>1. Neat(UpdateStamp, 0, 400, 291, 300)
  <2>1. UpdateStamp \in SUBSET UpdateStamp
    OBVIOUS
  <2>. QED  BY <2>1, StampNeat, Within
<1>2. Neat(P \cup UpdateStamp, 0, 400, y0, 300)
  BY <1>1, Below
<1>3. Neat(UpdateStamp \cup P, 0, 400, 0, 300)
  <2>1. UpdateStamp \cup P \in SUBSET (P \cup UpdateStamp)
    OBVIOUS
  <2>. QED  BY <1>2, <2>1, Within
<1>4. FbW = 400 /\ FbH = 300
  BY DEF FbW, FbH
<1>. QED  BY <1>3, <1>4, NeatIsLegible

LEMMA BoardNeat ==
  ASSUME NEW rows, \A s \in {"58A_ATZ", "58A_HIETZING", "58B_ATZ"} : rows[s] \in Seq(Parsed)
  PROVE  Neat(DrawBoard(rows, Minute), 0, 400, 0, 291)
<1>. DEFINE TG  == HeaderBar(<<"TG bar">>, 0)
            EG  == HeaderBar(<<"EG bar">>, 90)
            SB  == HeaderBar(<<"SB bar">>, 140)
            row(s) == BusRow(BusRows[s], rows[s], Minute)
            R1  == row("58A_ATZ")
            R2  == row("58A_HIETZING")
            R3  == row("58B_ATZ")
            S   == UNION {SbahnSlot(n, rows["SBAHN_HBF"]) : n \in 1..3}
            P1  == TG \cup R1
            P2  == P1 \cup R2
            P3  == P2 \cup EG
            P4  == P3 \cup R3
            P5  == P4 \cup SB
            P6  == P5 \cup S
            P7  == P6 \cup NetworkPlan
<1>1. Neat(TG, 0, 400, 0, 16) /\ Neat(EG, 0, 400, 90, 106) /\ Neat(SB, 0, 400, 140, 156)
  <2>1. /\ TG = {Box(<<"TG bar">>, 0, 0, 400, 16)} /\ EG = {Box(<<"EG bar">>, 0, 90, 400, 16)}
        /\ SB = {Box(<<"SB bar">>, 0, 140, 400, 16)}
    BY DEF HeaderBar, FbW, HeaderBarH
  <2>2. /\ Neat({Box(<<"TG bar">>, 0, 0, 400, 16)}, 0, 400, 0, 16)
        /\ Neat({Box(<<"EG bar">>, 0, 90, 400, 16)}, 0, 400, 90, 106)
        /\ Neat({Box(<<"SB bar">>, 0, 140, 400, 16)}, 0, 400, 140, 156)
    BY DEF Neat, Apiece, Inside, Box
  <2>. HIDE DEF TG, EG, SB
  <2>. QED  BY <2>1, <2>2
<1>2. Neat(R1, 0, 400, 22, 54) /\ Neat(R2, 0, 400, 54, 86) /\ Neat(R3, 0, 400, 112, 140)
  <2>1. \A s \in {"58A_ATZ", "58A_HIETZING", "58B_ATZ"} : Neat(row(s), 0, 400, BusRows[s].y, RowBottom(s))
    BY BusRowNeat
  <2>2. BusRows["58A_ATZ"].y = 22 /\ BusRows["58A_HIETZING"].y = 54 /\ BusRows["58B_ATZ"].y = 112
    BY DEF BusRows
  <2>3. RowBottom("58A_ATZ") = 54 /\ RowBottom("58A_HIETZING") = 86 /\ RowBottom("58B_ATZ") = 140
    BY DEF RowBottom
  <2>. HIDE DEF row
  <2>. QED  BY <2>1, <2>2, <2>3
<1>3. Neat(S, 0, 400, 162, 196)
  BY SbahnRowNeat
<1>4. DrawBoard(rows, Minute) = P7
  <2>1. DOMAIN BusRows = {"58A_ATZ", "58A_HIETZING", "58B_ATZ"}
    BY DEF BusRows
  <2>2. UNION {row(s) : s \in DOMAIN BusRows} = (R1 \cup R2) \cup R3
    <3>. HIDE DEF row
    <3>. QED  BY <2>1
  <2>3. DrawBoard(rows, Minute) = ((TG \cup EG) \cup SB) \cup (UNION {row(s) : s \in DOMAIN BusRows}) \cup S \cup NetworkPlan
    BY DEF DrawBoard
  <2>. HIDE DEF TG, EG, SB, row, S
  <2>. QED  BY <2>2, <2>3
<1>. HIDE DEF TG, EG, SB, R1, R2, R3, S
<1>5. Neat(P1, 0, 400, 0, 54)
  BY <1>1, <1>2, Below
<1>. HIDE DEF P1
<1>6. Neat(P2, 0, 400, 0, 86)
  BY <1>2, <1>5, Below
<1>. HIDE DEF P2
<1>7. Neat(P3, 0, 400, 0, 106)
  BY <1>1, <1>6, Below
<1>. HIDE DEF P3
<1>8. Neat(P4, 0, 400, 0, 140)
  BY <1>2, <1>7, Below
<1>. HIDE DEF P4
<1>9. Neat(P5, 0, 400, 0, 156)
  BY <1>1, <1>8, Below
<1>. HIDE DEF P5
<1>10. Neat(P6, 0, 400, 0, 196)
  BY <1>3, <1>9, Below
<1>. HIDE DEF P6
<1>11. Neat(P7, 0, 400, 0, 291)
  BY <1>10, NetworkPlanNeat, Below
<1>. HIDE DEF P7
<1>. QED  BY <1>4, <1>11

\* A sheet: boxes in a band of rows, each on the panel or a line of names that is
\* too wide for it, and different parts apart.
OnSheet(b, y0, y1) ==
  /\ b.x \in Int /\ b.y \in Int /\ b.w \in Int /\ b.h \in Int
  /\ b.y >= y0 /\ b.y + b.h <= y1
  /\ OnPanel(b) \/ Overlong(b)

Sheet(P, y0, y1) == (\A b \in P : OnSheet(b, y0, y1)) /\ Apiece(P)

LEMMA SheetIsLegible ==
  ASSUME NEW P, NEW y0, NEW y1, Sheet(P, y0, y1)
  PROVE  Legible(P)
<1>1. \A b \in P : OnPanel(b) \/ Overlong(b)
  BY DEF Sheet, OnSheet
<1>. QED  BY <1>1 DEF Sheet, Apiece, Legible

LEMMA PartOfSheet ==
  ASSUME NEW P, NEW y0, NEW y1, Sheet(P, y0, y1), NEW Q \in SUBSET P
  PROVE  Sheet(Q, y0, y1)
BY DEF Sheet, Apiece

LEMMA NeatSheet ==
  ASSUME NEW P, NEW y0 \in Int, NEW y1 \in Int, 0 <= y0, y1 <= 300, Neat(P, 0, 400, y0, y1)
  PROVE  Sheet(P, y0, y1)
<1>1. ASSUME NEW b \in P PROVE OnSheet(b, y0, y1)
  <2>1. Inside(b, 0, 400, y0, y1)
    BY DEF Neat
  <2>2. FbW = 400 /\ FbH = 300
    BY DEF FbW, FbH
  <2>3. OnPanel(b)
    BY <2>1, <2>2 DEF Inside, OnPanel
  <2>. QED  BY <2>1, <2>3 DEF Inside, OnSheet
<1>2. Apiece(P)
  BY DEF Neat
<1>. QED  BY <1>1, <1>2 DEF Sheet

LEMMA SheetBelow ==
  ASSUME NEW P, NEW Q, NEW y0 \in Int, NEW y1 \in Int, NEW z \in Int, NEW y2 \in Int,
         y0 <= y1, y1 <= z, z <= y2, Sheet(P, y0, y1), Sheet(Q, z, y2)
  PROVE  Sheet(P \cup Q, y0, y2)
<1>1. ASSUME NEW a \in P, NEW b \in Q PROVE Disjoint(a, b) /\ Disjoint(b, a)
  <2>1. OnSheet(a, y0, y1) /\ OnSheet(b, z, y2)
    BY DEF Sheet
  <2>. QED  BY <2>1 DEF OnSheet, Disjoint
<1>2. \A b \in P \cup Q : OnSheet(b, y0, y2)
  <2>1. \A b \in P : OnSheet(b, y0, y1)
    BY DEF Sheet
  <2>2. \A b \in Q : OnSheet(b, z, y2)
    BY DEF Sheet
  <2>3. ASSUME NEW b, OnSheet(b, y0, y1) \/ OnSheet(b, z, y2) PROVE OnSheet(b, y0, y2)
    <3>. HIDE DEF OnPanel, Overlong
    <3>. QED  BY <2>3 DEF OnSheet
  <2>. QED  BY <2>1, <2>2, <2>3
<1>. QED  BY <1>1, <1>2 DEF Sheet, Apiece

\* A centred text, in columns that are wide enough about the middle.
CentredRoom(role, w, x0, x1, y, y1) ==
  /\ x0 \in Int /\ x1 \in Int /\ y \in Int /\ y1 \in Int
  /\ w \in Int /\ 1 <= w /\ w <= 400 /\ w <= 400 - 2 * x0 /\ w <= 2 * x1 - 400
  /\ TextHeight[role] \in Int /\ y + TextHeight[role] <= y1

LEMMA CentredNeat ==
  ASSUME NEW part, NEW role, NEW w, NEW x0, NEW x1, NEW y, NEW y1, CentredRoom(role, w, x0, x1, y, y1)
  PROVE  Neat({Centred(part, y, role, w)}, x0, x1, y, y1)
<1>. DEFINE h == TextHeight[role]
            x == Half(400 - w)
<1>1. /\ x0 \in Int /\ x1 \in Int /\ y \in Int /\ y1 \in Int
      /\ w \in Int /\ w >= 1 /\ w <= 400 /\ h \in Int /\ y + h <= y1 /\ w <= 400 - 2 * x0 /\ w <= 2 * x1 - 400
  BY DEF CentredRoom
<1>2. Centred(part, y, role, w) = Box(part, x, y, w, h)
  BY DEF Centred, FbW
<1>. HIDE DEF h
<1>3. x \in Int /\ 2 * x <= 400 - w /\ 400 - w <= 2 * x + 1
  BY <1>1 DEF Half
<1>. HIDE DEF x
<1>4. x0 <= x /\ x + w <= x1
  BY <1>1, <1>3
<1>5. Neat({Box(part, x, y, w, h)}, x0, x1, y, y1)
  BY <1>1, <1>3, <1>4, BoxNeat
<1>. QED  BY <1>2, <1>5

\* A line with names of any width: on the panel, or wider than it.
LEMMA CentredSheet ==
  ASSUME NEW part, part[1] \in {"sub", "hint", "wanted", "net"}, NEW role, NEW w \in Nat \ {0},
         NEW y \in Nat, NEW y1 \in Int, y1 <= 300, TextHeight[role] \in Nat, y + TextHeight[role] <= y1
  PROVE  Sheet({Centred(part, y, role, w)}, y, y1)
<1>. DEFINE h == TextHeight[role]
            x == Half(400 - w)
            b == Box(part, x, y, w, h)
<1>1. Centred(part, y, role, w) = b
  BY DEF Centred, FbW
<1>2. h \in Nat /\ y + h <= y1
  OBVIOUS
<1>. HIDE DEF h
<1>3. x \in Int /\ (w <= 400 => x >= 0 /\ x + w <= 400)
  BY DEF Half
<1>. HIDE DEF x
<1>4. b.part = part /\ b.x = x /\ b.y = y /\ b.w = w /\ b.h = h
  BY DEF Box
<1>. HIDE DEF b
<1>5. OnPanel(b) \/ Overlong(b)
  <2>1. FbW = 400 /\ FbH = 300
    BY DEF FbW, FbH
  <2>2. CASE w <= 400
    <3>1. OnPanel(b)
      BY <1>2, <1>3, <1>4, <2>1, <2>2 DEF OnPanel
    <3>. QED  BY <3>1
  <2>3. CASE ~(w <= 400)
    <3>1. w > 400 /\ y >= 0 /\ y + h <= 300
      BY <1>2, <2>3
    <3>2. Overlong(b)
      BY <1>4, <2>1, <3>1 DEF Overlong
    <3>. QED  BY <3>2
  <2>. QED  BY <2>2, <2>3
<1>6. OnSheet(b, y, y1)
  <2>. HIDE DEF OnPanel, Overlong
  <2>. QED  BY <1>2, <1>3, <1>4, <1>5 DEF OnSheet
<1>7. Sheet({b}, y, y1)
  BY <1>6 DEF Sheet, Apiece
<1>. QED  BY <1>1, <1>7

\* The lines whose text the build fixes.
LEMMA FixedNeat ==
  ASSUME NEW part, NEW role, NEW x0, NEW x1, NEW y, NEW y1,
         CentredRoom(role, TextWidth[role]["fixed"], x0, x1, y, y1)
  PROVE  Neat({Fixed(part, y, role)}, x0, x1, y, y1)
<1>. DEFINE w == TextWidth[role]["fixed"]
<1>1. Fixed(part, y, role) = Centred(part, y, role, w)
  BY DEF Fixed
<1>2. CentredRoom(role, w, x0, x1, y, y1)
  OBVIOUS
<1>. HIDE DEF w
<1>. QED  BY <1>1, <1>2, CentredNeat

\* There is room for them where they stand.
LEMMA FixedRoom ==
  /\ CentredRoom("Title", TextWidth["Title"]["fixed"], 0, 400, 178, 206)
  /\ CentredRoom("Sub", TextWidth["Sub"]["fixed"], 0, 400, 206, 226)
  /\ CentredRoom("Foot", TextWidth["Foot"]["fixed"], 0, 400, 242, 252)
  /\ CentredRoom("Foot", TextWidth["Foot"]["fixed"], 0, 340, 288, 300)
<1>1. /\ TextWidth["Title"]["fixed"] \in 1..400 /\ TextHeight["Title"] \in 1..28
      /\ TextWidth["Sub"]["fixed"] \in 1..400 /\ TextHeight["Sub"] \in 1..20
      /\ TextWidth["Foot"]["fixed"] \in 1..280 /\ TextHeight["Foot"] \in 1..10
  BY TextAssumption
<1>2. ASSUME NEW role, NEW w, NEW h, w \in 1..400, h \in 1..28, TextHeight[role] = h
      PROVE  CentredRoom(role, w, 0, 400, 178, 206)
  BY <1>2 DEF CentredRoom
<1>3. ASSUME NEW role, NEW w, NEW h, w \in 1..400, h \in 1..20, TextHeight[role] = h
      PROVE  CentredRoom(role, w, 0, 400, 206, 226)
  BY <1>3 DEF CentredRoom
<1>4. ASSUME NEW role, NEW w, NEW h, w \in 1..280, h \in 1..10, TextHeight[role] = h
      PROVE  CentredRoom(role, w, 0, 400, 242, 252) /\ CentredRoom(role, w, 0, 340, 288, 300)
  BY <1>4 DEF CentredRoom
<1>5. CentredRoom("Title", TextWidth["Title"]["fixed"], 0, 400, 178, 206)
  BY <1>1, <1>2
<1>6. CentredRoom("Sub", TextWidth["Sub"]["fixed"], 0, 400, 206, 226)
  BY <1>1, <1>3
<1>7. /\ CentredRoom("Foot", TextWidth["Foot"]["fixed"], 0, 400, 242, 252)
      /\ CentredRoom("Foot", TextWidth["Foot"]["fixed"], 0, 340, 288, 300)
  BY <1>1, <1>4
<1>. QED  BY <1>5, <1>6, <1>7

\* The lines that name networks, where there is room for one line of text.
NamingRoom(part, y, y1, role, says) ==
  /\ part[1] \in {"sub", "hint", "wanted", "net"} /\ y \in Nat /\ y1 \in Int /\ y1 <= 300
  /\ TextHeight[role] \in Nat /\ y + TextHeight[role] <= y1
  /\ TextWidth[role][says] \in Nat \ {0}
  /\ \A ssid \in Ssids : TextWidth[role][ssid] \in Nat \ {0}

LEMMA NamingSheet ==
  ASSUME NEW part, NEW y, NEW y1, NEW role, NEW says, NEW names \in Named,
         NamingRoom(part, y, y1, role, says)
  PROVE  Sheet({Naming(part, y, role, says, names)}, y, y1)
<1>. DEFINE name(i) == IF i \in DOMAIN names THEN TextWidth[role][names[i]] ELSE 0
            w == TextWidth[role][says] + name(1) + name(2)
<1>1. \A i \in DOMAIN names : names[i] \in Ssids
  BY DEF Named
<1>2. name(1) \in Nat /\ name(2) \in Nat
  BY <1>1 DEF NamingRoom
<1>3. Naming(part, y, role, says, names) = Centred(part, y, role, w)
  BY DEF Naming
<1>4. w \in Nat \ {0}
  <2>. HIDE DEF name
  <2>. QED  BY <1>2 DEF NamingRoom
<1>. HIDE DEF w
<1>5. /\ part[1] \in {"sub", "hint", "wanted", "net"} /\ y \in Nat /\ y1 \in Int /\ y1 <= 300
      /\ TextHeight[role] \in Nat /\ y + TextHeight[role] <= y1
  BY DEF NamingRoom
<1>6. Sheet({Centred(part, y, role, w)}, y, y1)
  BY <1>4, <1>5, CentredSheet
<1>. QED  BY <1>3, <1>6

\* There is room for them where they stand.
LEMMA NamingRooms ==
  /\ NamingRoom(<<"sub">>, 206, 226, "Sub", "Falsches Passwort")
  /\ NamingRoom(<<"hint">>, 226, 236, "Foot", "Schreibweise?")
  /\ NamingRoom(<<"wanted">>, 226, 236, "Foot", "gesucht:")
  /\ NamingRoom(<<"wanted">>, 226, 236, "Foot", "gesucht: ,")
  /\ NamingRoom(<<"net", 1>>, 254, 264, "Foot", "dBm")
  /\ NamingRoom(<<"net", 2>>, 266, 276, "Foot", "dBm")
  /\ NamingRoom(<<"net", 3>>, 278, 288, "Foot", "dBm")
<1>1. /\ TextHeight["Sub"] \in 1..20 /\ TextHeight["Foot"] \in 1..10
      /\ TextWidth["Sub"]["Falsches Passwort"] \in Nat \ {0}
      /\ \A ssid \in Ssids : TextWidth["Sub"][ssid] \in Nat \ {0} /\ TextWidth["Foot"][ssid] \in Nat \ {0}
      /\ \A says \in {"Schreibweise?", "gesucht:", "gesucht: ,", "dBm"} : TextWidth["Foot"][says] \in Nat \ {0}
  BY TextAssumption
<1>2. ASSUME NEW part, NEW y, NEW y1, NEW role, NEW says,
             part[1] \in {"sub", "hint", "wanted", "net"} /\ y \in Nat /\ y1 \in Int /\ y1 <= 300,
             TextHeight[role] \in Nat /\ y + TextHeight[role] <= y1,
             TextWidth[role][says] \in Nat \ {0}, \A ssid \in Ssids : TextWidth[role][ssid] \in Nat \ {0}
      PROVE  NamingRoom(part, y, y1, role, says)
  BY <1>2, Zenon DEF NamingRoom
<1>3. /\ TextWidth["Foot"]["Schreibweise?"] \in Nat \ {0} /\ TextWidth["Foot"]["gesucht:"] \in Nat \ {0}
      /\ TextWidth["Foot"]["gesucht: ,"] \in Nat \ {0} /\ TextWidth["Foot"]["dBm"] \in Nat \ {0}
  BY <1>1
<1>4. /\ TextHeight["Sub"] \in Nat /\ 206 + TextHeight["Sub"] <= 226
      /\ TextHeight["Foot"] \in Nat /\ 226 + TextHeight["Foot"] <= 236
      /\ 254 + TextHeight["Foot"] <= 264 /\ 266 + TextHeight["Foot"] <= 276 /\ 278 + TextHeight["Foot"] <= 288
  <2>1. PICK h \in 1..20 : TextHeight["Sub"] = h
    BY <1>1
  <2>2. PICK k \in 1..10 : TextHeight["Foot"] = k
    BY <1>1
  <2>3. /\ h \in Nat /\ 206 + h <= 226 /\ k \in Nat
        /\ 226 + k <= 236 /\ 254 + k <= 264 /\ 266 + k <= 276 /\ 278 + k <= 288
    OBVIOUS
  <2>. QED  BY <2>1, <2>2, <2>3
<1>5. ASSUME NEW part, NEW y, NEW y1, NEW says,
             part[1] \in {"sub", "hint", "wanted", "net"} /\ y \in Nat /\ y1 \in Int /\ y1 <= 300,
             y + TextHeight["Foot"] <= y1, TextWidth["Foot"][says] \in Nat \ {0}
      PROVE  NamingRoom(part, y, y1, "Foot", says)
  <2>1. TextHeight["Foot"] \in Nat
    BY <1>4
  <2>2. \A ssid \in Ssids : TextWidth["Foot"][ssid] \in Nat \ {0}
    BY <1>1
  <2>. QED  BY <1>2, <1>5, <2>1, <2>2, Zenon
<1>6. NamingRoom(<<"sub">>, 206, 226, "Sub", "Falsches Passwort")
  <2>1. <<"sub">>[1] \in {"sub", "hint", "wanted", "net"} /\ 206 \in Nat /\ 226 \in Int /\ 226 <= 300
    OBVIOUS
  <2>2. TextHeight["Sub"] \in Nat /\ 206 + TextHeight["Sub"] <= 226
    BY <1>4
  <2>3. TextWidth["Sub"]["Falsches Passwort"] \in Nat \ {0}
    BY <1>1
  <2>4. \A ssid \in Ssids : TextWidth["Sub"][ssid] \in Nat \ {0}
    BY <1>1
  <2>. QED  BY <1>2, <2>1, <2>2, <2>3, <2>4, Zenon
<1>7. NamingRoom(<<"hint">>, 226, 236, "Foot", "Schreibweise?")
  <2>1. <<"hint">>[1] \in {"sub", "hint", "wanted", "net"} /\ 226 \in Nat /\ 236 \in Int /\ 236 <= 300
    OBVIOUS
  <2>2. 226 + TextHeight["Foot"] <= 236
    BY <1>4
  <2>3. TextWidth["Foot"]["Schreibweise?"] \in Nat \ {0}
    BY <1>3
  <2>. QED  BY <1>5, <2>1, <2>2, <2>3, Zenon
<1>8. NamingRoom(<<"wanted">>, 226, 236, "Foot", "gesucht:")
  <2>1. <<"wanted">>[1] \in {"sub", "hint", "wanted", "net"} /\ 226 \in Nat /\ 236 \in Int /\ 236 <= 300
    OBVIOUS
  <2>2. 226 + TextHeight["Foot"] <= 236
    BY <1>4
  <2>3. TextWidth["Foot"]["gesucht:"] \in Nat \ {0}
    BY <1>3
  <2>. QED  BY <1>5, <2>1, <2>2, <2>3, Zenon
<1>9. NamingRoom(<<"wanted">>, 226, 236, "Foot", "gesucht: ,")
  <2>1. <<"wanted">>[1] \in {"sub", "hint", "wanted", "net"} /\ 226 \in Nat /\ 236 \in Int /\ 236 <= 300
    OBVIOUS
  <2>2. 226 + TextHeight["Foot"] <= 236
    BY <1>4
  <2>3. TextWidth["Foot"]["gesucht: ,"] \in Nat \ {0}
    BY <1>3
  <2>. QED  BY <1>5, <2>1, <2>2, <2>3, Zenon
<1>10. NamingRoom(<<"net", 1>>, 254, 264, "Foot", "dBm")
  <2>1. <<"net", 1>>[1] \in {"sub", "hint", "wanted", "net"} /\ 254 \in Nat /\ 264 \in Int /\ 264 <= 300
    OBVIOUS
  <2>2. 254 + TextHeight["Foot"] <= 264
    BY <1>4
  <2>3. TextWidth["Foot"]["dBm"] \in Nat \ {0}
    BY <1>3
  <2>. QED  BY <1>5, <2>1, <2>2, <2>3, Zenon
<1>11. NamingRoom(<<"net", 2>>, 266, 276, "Foot", "dBm")
  <2>1. <<"net", 2>>[1] \in {"sub", "hint", "wanted", "net"} /\ 266 \in Nat /\ 276 \in Int /\ 276 <= 300
    OBVIOUS
  <2>2. 266 + TextHeight["Foot"] <= 276
    BY <1>4
  <2>3. TextWidth["Foot"]["dBm"] \in Nat \ {0}
    BY <1>3
  <2>. QED  BY <1>5, <2>1, <2>2, <2>3, Zenon
<1>12. NamingRoom(<<"net", 3>>, 278, 288, "Foot", "dBm")
  <2>1. <<"net", 3>>[1] \in {"sub", "hint", "wanted", "net"} /\ 278 \in Nat /\ 288 \in Int /\ 288 <= 300
    OBVIOUS
  <2>2. 278 + TextHeight["Foot"] <= 288
    BY <1>4
  <2>3. TextWidth["Foot"]["dBm"] \in Nat \ {0}
    BY <1>3
  <2>. QED  BY <1>5, <2>1, <2>2, <2>3, Zenon
<1>. QED  BY <1>6, <1>7, <1>8, <1>9, <1>10, <1>11, <1>12

\* The screens that stand alone: everything any of them may hold, the lines with
\* names left open.
Glyph == {Box(<<"glyph">>, 155, 64, 90, 90)}
Title == {Fixed(<<"title">>, 178, "Title")}
Found == {Fixed(<<"found">>, 242, "Foot")}
Foot == {Fixed(<<"foot">>, 288, "Foot")} \cup UpdateStamp
Upper(S, W) == (((Glyph \cup Title) \cup S) \cup W) \cup Found
Crowded(S, W, N1, N2, N3) == (((Upper(S, W) \cup N1) \cup N2) \cup N3) \cup Foot

OpenLines(S, W, N1, N2, N3) ==
  /\ Sheet(S, 206, 226) /\ Sheet(W, 226, 236)
  /\ Sheet(N1, 254, 264) /\ Sheet(N2, 266, 276) /\ Sheet(N3, 278, 288)

LEMMA FootSheet == Sheet(Foot, 288, 300)
<1>. DEFINE F == {Fixed(<<"foot">>, 288, "Foot")}
<1>2. Neat(F, 0, 340, 288, 300)
  BY FixedNeat, FixedRoom
<1>. HIDE DEF F
<1>3. Neat(UpdateStamp, 340, 400, 288, 300)
  <2>1. UpdateStamp \in SUBSET UpdateStamp
    OBVIOUS
  <2>. QED  BY <2>1, StampNeat, Within
<1>4. Neat(Foot, 0, 400, 288, 300)
  BY <1>2, <1>3, Beside DEF Foot, F
<1>. QED  BY <1>4, NeatSheet

LEMMA LinesSheet ==
  ASSUME NEW S, NEW W, Sheet(S, 206, 226), Sheet(W, 226, 236)
  PROVE  Sheet(Upper(S, W), 64, 252)
<1>. DEFINE GA == Glyph \cup Title
            GAB == GA \cup S
            GABC == GAB \cup W
            GABCD == GABC \cup Found
<1>1. Neat(Title, 0, 400, 178, 206) /\ Neat(Found, 0, 400, 242, 252)
  BY FixedNeat, FixedRoom DEF Title, Found
<1>2. Neat(Glyph, 0, 400, 64, 154)
  BY DEF Glyph, Neat, Apiece, Inside, Box
<1>3. Upper(S, W) = GABCD
  BY DEF Upper
<1>4. Sheet(Glyph, 64, 154) /\ Sheet(Title, 178, 206) /\ Sheet(Found, 242, 252)
  BY <1>1, <1>2, NeatSheet
<1>5. Sheet(GA, 64, 206)
  BY <1>4, SheetBelow
<1>. HIDE DEF GA
<1>6. Sheet(GAB, 64, 226)
  BY <1>5, SheetBelow
<1>. HIDE DEF GAB
<1>7. Sheet(GABC, 64, 236)
  BY <1>6, SheetBelow
<1>. HIDE DEF GABC
<1>8. Sheet(GABCD, 64, 252)
  BY <1>4, <1>7, SheetBelow
<1>. HIDE DEF GABCD
<1>. QED  BY <1>3, <1>8

LEMMA AloneLegible ==
  ASSUME NEW S, NEW W, NEW N1, NEW N2, NEW N3, OpenLines(S, W, N1, N2, N3),
         NEW P, P \subseteq Crowded(S, W, N1, N2, N3)
  PROVE  Legible(UpdateStamp \cup P)
<1>. DEFINE S1 == Upper(S, W) \cup N1
            S2 == S1 \cup N2
            S3 == S2 \cup N3
            S4 == S3 \cup Foot
<1>1. /\ Sheet(S, 206, 226) /\ Sheet(W, 226, 236)
      /\ Sheet(N1, 254, 264) /\ Sheet(N2, 266, 276) /\ Sheet(N3, 278, 288)
  BY DEF OpenLines
<1>2. Sheet(S1, 64, 264)
  BY <1>1, LinesSheet, SheetBelow
<1>3. Crowded(S, W, N1, N2, N3) = S4
  BY DEF Crowded
<1>. HIDE DEF S1
<1>4. Sheet(S2, 64, 276)
  BY <1>1, <1>2, SheetBelow
<1>. HIDE DEF S2
<1>5. Sheet(S3, 64, 288)
  BY <1>1, <1>4, SheetBelow
<1>. HIDE DEF S3
<1>6. Sheet(S4, 64, 300)
  BY <1>5, FootSheet, SheetBelow
<1>7. UpdateStamp \cup P \in SUBSET S4
  BY <1>3 DEF Foot
<1>. HIDE DEF S4
<1>8. Sheet(UpdateStamp \cup P, 64, 300)
  BY <1>6, <1>7, PartOfSheet
<1>. QED  BY <1>8, SheetIsLegible

LEMMA EmptySheet == \A y0, y1 : Sheet({}, y0, y1)
BY DEF Sheet, Apiece

LEMMA FixedSub == Sheet({Fixed(<<"sub">>, 206, "Sub")}, 206, 226)
<1>1. Neat({Fixed(<<"sub">>, 206, "Sub")}, 0, 400, 206, 226)
  BY FixedNeat, FixedRoom
<1>. QED  BY <1>1, NeatSheet

LEMMA NoticeHolds ==
  ASSUME NEW sub, NEW foot \in BOOLEAN, NEW W, NEW N1, NEW N2, NEW N3
  PROVE  Notice(sub, foot) \subseteq Crowded({sub}, W, N1, N2, N3)
<1>1. (400 - 90) \div 2 = 155 /\ 300 - 12 = 288
  OBVIOUS
<1>2. (FbW - 90) \div 2 = 155 /\ FbH - 12 = 288
  BY <1>1 DEF FbW, FbH
<1>. DEFINE gx == (FbW - 90) \div 2
            fy == FbH - 12
            g(x) == Box(<<"glyph">>, x, 64, 90, 90)
            t == Fixed(<<"title">>, 178, "Title")
            f(y) == Fixed(<<"foot">>, y, "Foot")
<1>3. Notice(sub, foot) = {g(gx), t, sub} \cup IF foot THEN {f(fy)} ELSE {}
  BY DEF Notice
<1>4. g(155) \in Crowded({sub}, W, N1, N2, N3) /\ t \in Crowded({sub}, W, N1, N2, N3)
      /\ sub \in Crowded({sub}, W, N1, N2, N3) /\ f(288) \in Crowded({sub}, W, N1, N2, N3)
  BY DEF Crowded, Upper, Glyph, Title, Foot
<1>5. gx = 155 /\ fy = 288
  BY <1>2
<1>. HIDE DEF g, t, f, gx, fy
<1>. QED  BY <1>3, <1>4, <1>5

LEMMA SearchSheet ==
  ASSUME NEW wanted \in Named, NEW mismatch \in Named
  PROVE  Sheet(SearchLine(wanted, mismatch), 226, 236)
<1>1. Sheet({Naming(<<"hint">>, 226, "Foot", "Schreibweise?", mismatch)}, 226, 236)
  BY NamingSheet, NamingRooms
<1>2. Sheet({Naming(<<"wanted">>, 226, "Foot", "gesucht:", wanted)}, 226, 236)
  BY NamingSheet, NamingRooms, Zenon
<1>3. Sheet({Naming(<<"wanted">>, 226, "Foot", "gesucht: ,", wanted)}, 226, 236)
  BY NamingSheet, NamingRooms, Zenon
<1>. QED  BY <1>1, <1>2, <1>3, EmptySheet DEF SearchLine

LEMMA OfflineLegible ==
  ASSUME NEW aps \in Named, NEW wanted \in Named, NEW mismatch \in Named
  PROVE  Legible(UpdateStamp \cup DrawOffline(aps, wanted, mismatch))
<1>. DEFINE rows == IF Len(aps) < SsidRows THEN Len(aps) ELSE SsidRows
            net(i) == Naming(<<"net", i>>, 242 + 12 * i, "Foot", "dBm", <<aps[i]>>)
            N(i) == IF i \in 1..rows THEN {net(i)} ELSE {}
            S == {Fixed(<<"sub">>, 206, "Sub")}
            W == SearchLine(wanted, mismatch)
            C == Crowded(S, W, N(1), N(2), N(3))
<1>1. Len(aps) \in Nat /\ \A i \in 1..Len(aps) : aps[i] \in Ssids
  BY DEF Named
<1>2. rows \in 0..3 /\ rows <= Len(aps)
  <2>. DEFINE n == Len(aps)
  <2>1. n \in Nat /\ rows = IF n < 3 THEN n ELSE 3
    BY <1>1 DEF SsidRows
  <2>. HIDE DEF n, rows
  <2>2. rows \in 0..3 /\ rows <= n
    BY <2>1
  <2>. QED  BY <2>2 DEF n
<1>3. \A i \in 1..rows : i \in 1..3 /\ <<aps[i]>> \in Named
  <2>1. ASSUME NEW i \in 1..rows PROVE i \in 1..3 /\ <<aps[i]>> \in [1..1 -> Ssids]
    BY <1>1, <1>2
  <2>. QED  BY <2>1 DEF Named
<1>. HIDE DEF rows
<1>4. Sheet(N(1), 254, 264) /\ Sheet(N(2), 266, 276) /\ Sheet(N(3), 278, 288)
  <2>1. 242 + 12 * 1 = 254 /\ 242 + 12 * 2 = 266 /\ 242 + 12 * 3 = 278
    OBVIOUS
  <2>2. N(1) = {} \/ (1 \in 1..rows /\ N(1) = {Naming(<<"net", 1>>, 254, "Foot", "dBm", <<aps[1]>>)})
    BY <2>1
  <2>3. N(2) = {} \/ (2 \in 1..rows /\ N(2) = {Naming(<<"net", 2>>, 266, "Foot", "dBm", <<aps[2]>>)})
    BY <2>1
  <2>4. N(3) = {} \/ (3 \in 1..rows /\ N(3) = {Naming(<<"net", 3>>, 278, "Foot", "dBm", <<aps[3]>>)})
    BY <2>1
  <2>. HIDE DEF N
  <2>5. Sheet(N(1), 254, 264)
    <3>1. ASSUME 1 \in 1..rows PROVE Sheet({Naming(<<"net", 1>>, 254, "Foot", "dBm", <<aps[1]>>)}, 254, 264)
      <4>1. <<aps[1]>> \in Named
        BY <1>3, <3>1
      <4>. QED  BY <4>1, NamingSheet, NamingRooms, Zenon
    <3>. QED  BY <2>2, <3>1, EmptySheet, Zenon
  <2>6. Sheet(N(2), 266, 276)
    <3>1. ASSUME 2 \in 1..rows PROVE Sheet({Naming(<<"net", 2>>, 266, "Foot", "dBm", <<aps[2]>>)}, 266, 276)
      <4>1. <<aps[2]>> \in Named
        BY <1>3, <3>1
      <4>. QED  BY <4>1, NamingSheet, NamingRooms, Zenon
    <3>. QED  BY <2>3, <3>1, EmptySheet, Zenon
  <2>7. Sheet(N(3), 278, 288)
    <3>1. ASSUME 3 \in 1..rows PROVE Sheet({Naming(<<"net", 3>>, 278, "Foot", "dBm", <<aps[3]>>)}, 278, 288)
      <4>1. <<aps[3]>> \in Named
        BY <1>3, <3>1
      <4>. QED  BY <4>1, NamingSheet, NamingRooms, Zenon
    <3>. QED  BY <2>4, <3>1, EmptySheet, Zenon
  <2>. QED  BY <2>5, <2>6, <2>7
<1>5. OpenLines(S, W, N(1), N(2), N(3))
  <2>. HIDE DEF N
  <2>. QED  BY <1>4, FixedSub, SearchSheet DEF OpenLines
<1>6. DrawNotice(TRUE) \subseteq C
  <2>. HIDE DEF N, W
  <2>. QED  BY NoticeHolds DEF DrawNotice
<1>7. W \subseteq C /\ Found \subseteq C /\ N(1) \subseteq C /\ N(2) \subseteq C /\ N(3) \subseteq C
  <2>. HIDE DEF N, W, S
  <2>. QED  BY DEF Crowded, Upper
<1>8. {net(i) : i \in 1..rows} \subseteq C
  <2>. HIDE DEF C, net
  <2>1. ASSUME NEW i \in 1..rows PROVE net(i) \in C
    <3>0. i \in 1..3
      BY <1>3
    <3>1. i \in {1, 2, 3}
      BY <3>0
    <3>2. net(i) \in N(i)
      OBVIOUS
    <3>. HIDE DEF N
    <3>3. \A k \in {1, 2, 3} : N(k) \subseteq C
      BY <1>7
    <3>. QED  BY <3>1, <3>2, <3>3
  <2>. QED  BY <2>1
<1>9. DrawOffline(aps, wanted, mismatch) = ((DrawNotice(TRUE) \cup W) \cup Found) \cup {net(i) : i \in 1..rows}
  BY DEF DrawOffline, Found, rows
<1>10. DrawOffline(aps, wanted, mismatch) \subseteq C
  <2>. DEFINE nets == {net(i) : i \in 1..rows}
  <2>1. nets \subseteq C /\ DrawOffline(aps, wanted, mismatch) = ((DrawNotice(TRUE) \cup W) \cup Found) \cup nets
    BY <1>8, <1>9
  <2>. HIDE DEF nets, C, W
  <2>. QED  BY <1>6, <1>7, <2>1
<1>. HIDE DEF N, S, W
<1>. QED  BY <1>5, <1>10, AloneLegible

LEMMA NoticeLegible ==
  ASSUME NEW sub, Sheet({sub}, 206, 226), NEW foot \in BOOLEAN
  PROVE  Legible(UpdateStamp \cup Notice(sub, foot))
<1>1. OpenLines({sub}, {}, {}, {}, {})
  BY EmptySheet DEF OpenLines
<1>2. Notice(sub, foot) \subseteq Crowded({sub}, {}, {}, {}, {})
  BY NoticeHolds
<1>. QED  BY <1>1, <1>2, AloneLegible

LEMMA WifiAuthLegible ==
  ASSUME NEW wanted \in Named
  PROVE  Legible(UpdateStamp \cup DrawWifiAuth(wanted))
<1>. DEFINE line == Naming(<<"sub">>, 206, "Sub", "Falsches Passwort", <<wanted[1]>>)
            fixed == Fixed(<<"sub">>, 206, "Sub")
            sub == IF wanted = <<>> THEN fixed ELSE line
<1>1. Sheet({fixed}, 206, 226)
  BY FixedSub
<1>2. ASSUME wanted # <<>> PROVE Sheet({line}, 206, 226)
  <2>1. PICK n \in Nat : wanted \in [1..n -> Ssids]
    BY DEF Named
  <2>2. n # 0
    BY <1>2, <2>1
  <2>3. <<wanted[1]>> \in [1..1 -> Ssids]
    BY <2>1, <2>2
  <2>4. <<wanted[1]>> \in Named
    BY <2>3 DEF Named
  <2>. QED  BY <2>4, NamingSheet, NamingRooms
<1>3. DrawWifiAuth(wanted) = Notice(sub, TRUE)
  BY DEF DrawWifiAuth
<1>. HIDE DEF line, fixed
<1>4. Sheet({sub}, 206, 226)
  BY <1>1, <1>2
<1>. HIDE DEF sub
<1>. QED  BY <1>3, <1>4, NoticeLegible

LEMMA LayoutNeat == BoardInv => NothingOverlaps
<1>. SUFFICES ASSUME BoardInv, view.screen # "none" PROVE Legible(Picture)
  BY DEF NothingOverlaps
<1>1. CASE view.screen = "Board"
  <2>1. Picture = UpdateStamp \cup DrawBoard(view.rows, Minute)
    BY <1>1 DEF Picture
  <2>2. \A s \in {"58A_ATZ", "58A_HIETZING", "58B_ATZ"} : view.rows[s] \in Seq(Parsed)
    BY <1>1, FetchedStreams, RowsParsed
  <2>3. Neat(DrawBoard(view.rows, Minute), 0, 400, 0, 291)
    BY <2>2, BoardNeat
  <2>. QED  BY <2>1, <2>3, StampBelow
<1>2. CASE view \in [screen : {"Offline"}, aps : Named, wanted : Named, mismatch : Named]
  <2>1. Picture = UpdateStamp \cup DrawOffline(view.aps, view.wanted, view.mismatch)
    BY <1>2 DEF Picture
  <2>2. view.aps \in Named /\ view.wanted \in Named /\ view.mismatch \in Named
    BY <1>2
  <2>. QED  BY <2>1, <2>2, OfflineLegible
<1>3. CASE view \in [screen : {"Notice"}, foot : BOOLEAN]
  <2>1. Picture = UpdateStamp \cup DrawNotice(view.foot) /\ view.foot \in BOOLEAN
    BY <1>3 DEF Picture
  <2>. QED  BY <2>1, FixedSub, NoticeLegible DEF DrawNotice
<1>4. CASE view \in [screen : {"WifiAuth"}, wanted : Named]
  <2>1. Picture = UpdateStamp \cup DrawWifiAuth(view.wanted) /\ view.wanted \in Named
    BY <1>4 DEF Picture
  <2>. QED  BY <2>1, WifiAuthLegible
<1>5. \/ view = [screen |-> "none"]
      \/ \E lag \in Lags : view = ShownBoard(lag)
      \/ view \in Alone
  BY DEF BoardInv
<1>6. view # [screen |-> "none"] /\ \A lag \in Lags : view = ShownBoard(lag) => view.screen = "Board"
  BY DEF ShownBoard
<1>. QED  BY <1>1, <1>2, <1>3, <1>4, <1>5, <1>6 DEF Alone

-----------------------------------------------------------------------------
(***************************************************************************)
(* The theorems.                                                           *)
(***************************************************************************)
\* The S-Bahn row shows the next trains, one a minute, as many as there is
\* room for, whatever else the reply lists and in whatever order
\* (ParseOebbStationBoard, mergeSlots).
THEOREM SBahnRowHolds == Spec => []SBahnRowIsNextTrains
BY BoardHolds, RowIsNextTrains, PTL

\* A bus row shows its own line's departures at the instants the server meant,
\* and all of the first that are ahead (parseIso8601, parseMonitorResponse,
\* the copy of runOgdBatchLoop).
THEOREM BusRowHolds == Spec => []BusRowIsOfItsLine
BY BoardHolds, RowIsOfItsLine, PTL

\* Two gauges of the board look alike exactly when they say the same
\* (deviationMinutes, drawDeviationGauge).
THEOREM GaugesHold == Spec => []GaugesTellApart
BY BoardHolds, GaugesDiffer, PTL

\* Whatever the slots hold, however many networks are found and however wide their
\* names are, nothing drawn lies on anything else, and nothing but a line of names
\* wider than the panel lies beyond it (layout.cpp, network_plan.cpp,
\* display_state.cpp), where the texts the build fixes have the room TextAssumption
\* names.
THEOREM NothingOverlapsHolds == Spec => []NothingOverlaps
BY BoardHolds, LayoutNeat, PTL
=============================================================================
