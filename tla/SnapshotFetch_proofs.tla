------------------------ MODULE SnapshotFetch_proofs ------------------------
(***************************************************************************)
(* Proofs about SnapshotFetch, for every number of attempts, every         *)
(* tripwire and any number of fetches: a wrong password is only reported   *)
(* when it was refused, a fetch is one step of FetchPromise, and the auth  *)
(* flag says what the servers said.                                        *)
(***************************************************************************)
EXTENDS SnapshotFetch, FiniteSetTheorems, TLAPS

(***************************************************************************)
(* The latch and the events on their way to it belong to the attempt in    *)
(* progress, because connect() starts with both of them empty.             *)
(***************************************************************************)
WifiInv ==
  /\ latch => refused
  /\ posted \cap Refusals # {} => refused
  /\ WrongPasswordProven

\* Every step keeps what the latch says true of the attempt it is judged in.
LEMMA WifiInduction == WifiInv /\ [Next]_vars => WifiInv'
<1> SUFFICES ASSUME WifiInv, [Next]_vars PROVE WifiInv'
  OBVIOUS
<1> USE DEF WifiInv, WrongPasswordProven
<1>1. CASE UNCHANGED wifiVars
  BY <1>1 DEF wifiVars
<1>2. CASE Connect
  BY <1>2 DEF Connect, EventsDrained
<1>3. CASE Disconnected
  BY <1>3 DEF Disconnected
<1>4. CASE OnWifiEvent
  <2>1. PICK r \in posted : /\ posted' = posted \ {r}
                            /\ latch' = (latch \/ r \in Refusals)
                            /\ UNCHANGED <<link, failure, refused>>
    BY <1>4 DEF OnWifiEvent
  <2>2. r \in Refusals => refused
    OBVIOUS
  <2>3. latch' => refused'
    BY <2>1, <2>2
  <2>4. posted' \cap Refusals # {} => refused'
    <3>1. posted' \cap Refusals \subseteq posted \cap Refusals
      BY <2>1 DEF Refusals
    <3> QED
      BY <2>1, <3>1
  <2> QED
    BY <2>1, <2>3, <2>4
<1>5. CASE Joined
  BY <1>5 DEF Joined
<1>6. CASE GaveUp
  BY <1>6 DEF GaveUp
<1> QED
  BY <1>1, <1>2, <1>3, <1>4, <1>5, <1>6 DEF Next, WifiStep, vars

\* The terminal password screen needs a refusal in the attempt it is about
\* (Esp32Network.cpp, connect and onWifiEvent).
THEOREM WrongPasswordIsProven == Spec => []WrongPasswordProven
<1>1. Init => WifiInv
  BY DEF Init, WifiInit, WifiInv, WrongPasswordProven
<1>2. WifiInv => WrongPasswordProven
  BY DEF WifiInv
<1> QED
  BY <1>1, <1>2, WifiInduction, PTL DEF Spec

-----------------------------------------------------------------------------
(***************************************************************************)
(* What holds of a fetch in progress: the batches behind it are counted,   *)
(* as long as none failed all of their streams are fresh, as long as all   *)
(* failed none is, and the flag can only have been raised.                 *)
(***************************************************************************)
Done == IF pc = "Ogd" THEN batch - 1 ELSE IF pc = "Oebb" THEN 2 ELSE total
Fresh == {s \in Buses : out[s] = fetches}

FetchTypes ==
  /\ pc \in {"Idle", "Ogd", "Oebb"} /\ batch \in {1, 2}
  /\ auth \in BOOLEAN /\ before \in BOOLEAN
  /\ failed \in Nat /\ total \in Nat /\ fetches \in Nat
  /\ out \in [Streams -> Nat]

FetchCounts ==
  /\ total = Done /\ failed <= total
  /\ pc = "Idle" => total \in {0, 3}
  /\ fetches = 0 => pc = "Idle" /\ total = 0
  /\ total = 0 /\ pc = "Idle" => fetches = 0 /\ ~auth

FetchFresh ==
  /\ total > 0 /\ failed = 0 => \A b \in {1, 2} : b <= total => Batches[b] \subseteq Fresh
  /\ fetches > 0 /\ failed = total => Fresh = {}
  /\ pc # "Idle" => auth \in {before, TRUE}

FetchInv == FetchTypes /\ FetchCounts /\ FetchFresh

\* The two batches and the streams they bring.
LEMMA BatchFacts ==
  /\ Len(Batches) = 2
  /\ Batches[1] = {"58B_ATZ", "58A_HIETZING"} /\ Batches[2] = {"58A_ATZ"}
  /\ Buses = {"58B_ATZ", "58A_HIETZING", "58A_ATZ"}
  /\ Streams = Buses \cup {SBahn} /\ SBahn \notin Buses
<1>1. Len(Batches) = 2 /\ DOMAIN Batches = {1, 2}
  BY DEF Batches
<1>2. Batches[1] = {"58B_ATZ", "58A_HIETZING"} /\ Batches[2] = {"58A_ATZ"}
  BY DEF Batches
<1>3. Buses = Batches[1] \cup Batches[2]
  BY <1>1 DEF Buses
<1> QED
  BY <1>1, <1>2, <1>3 DEF Streams, SBahn

LEMMA FetchInit == Init => FetchInv
<1> SUFFICES ASSUME Init PROVE FetchInv
  OBVIOUS
<1>1. /\ pc = "Idle" /\ batch = 1 /\ auth = FALSE /\ failed = 0 /\ total = 0
      /\ out = [s \in Streams |-> 0] /\ fetches = 0 /\ before = FALSE
  BY DEF Init
<1>2. FetchTypes
  BY <1>1 DEF FetchTypes
<1>3. FetchCounts
  BY <1>1 DEF FetchCounts, Done
<1>4. FetchFresh
  BY <1>1 DEF FetchFresh
<1> QED
  BY <1>2, <1>3, <1>4 DEF FetchInv

(***************************************************************************)
(* The end of a call, by its three outcomes.  G stands for the streams     *)
(* whose data a parsable answer replaces.                                  *)
(***************************************************************************)
LEMMA OgdStep ==
  ASSUME FetchInv, Ogd
  PROVE  FetchInv'
<1> USE BatchFacts DEF FetchInv, FetchTypes, FetchCounts
<1>1. PICK a \in Answers(Ogd2xx) :
        \/ Again(GetOk(a), a) /\ AskAgain(a)
        \/ /\ ~Again(GetOk(a), a)
           /\ total' = total + 1
           /\ IF a \in Ogd2xx THEN OgdAnswers(a) ELSE OgdFails(a)
           /\ NextCall
           /\ UNCHANGED <<fetches, before>>
  BY DEF Ogd
<1>2. pc = "Ogd" /\ total = batch - 1 /\ fetches # 0
  BY DEF Ogd, Done
<1>3. CASE AskAgain(a)
  <2>1. UNCHANGED <<pc, batch, auth, failed, total, out, fetches, before>>
    BY <1>3 DEF AskAgain, meta, sumVars
  <2> QED
    BY <2>1 DEF FetchFresh, Fresh, Done
<1>4. CASE /\ total' = total + 1
           /\ IF a \in Ogd2xx THEN OgdAnswers(a) ELSE OgdFails(a)
           /\ NextCall
           /\ UNCHANGED <<fetches, before>>
  <2>1. /\ pc' = (IF batch = 1 THEN "Ogd" ELSE "Oebb") /\ batch' = 2
        /\ total' = batch /\ UNCHANGED <<fetches, before>>
    BY <1>2, <1>4 DEF NextCall
  <2>2. \/ failed' = failed /\ a = "Data"
        \/ failed' = failed + 1 /\ out' = out
    BY <1>4 DEF OgdAnswers, OgdFails, Ogd2xx
  <2>3. auth' \in {auth, TRUE}
    BY <1>4 DEF OgdAnswers, OgdFails, meta
  <2>4. a = "Data" => out' = [s \in Streams |-> IF s \in Batches[batch] THEN fetches ELSE out[s]]
    BY <1>4 DEF OgdAnswers, Ogd2xx
  <2>5. out' \in [Streams -> Nat]
    BY <2>2, <2>4
  <2>6. FetchTypes'
    <3>1. pc' \in {"Ogd", "Oebb"} /\ batch' = 2 /\ total' \in Nat
      BY <2>1
    <3>2. failed' \in Nat
      BY <2>2
    <3>3. auth' \in BOOLEAN /\ before' \in BOOLEAN /\ fetches' \in Nat
      BY <2>1, <2>3
    <3> QED
      BY <2>5, <3>1, <3>2, <3>3
  <2>7. FetchCounts'
    BY <1>2, <2>1, <2>2 DEF Done
  <2>8. FetchFresh'
    <3>1. CASE failed' = failed + 1 /\ out' = out
      <4>1. failed' # 0 /\ Fresh' = Fresh
        BY <2>1, <3>1 DEF Fresh
      <4>2. failed' = total' => Fresh' = {}
        BY <1>2, <2>1, <3>1, <4>1 DEF FetchFresh
      <4> QED
        BY <1>2, <2>1, <2>3, <4>1, <4>2 DEF FetchFresh
    <3>2. CASE failed' = failed /\ a = "Data"
      <4>1. failed' # total'
        BY <1>2, <2>1, <3>2
      <4>2. Batches[batch] \subseteq Fresh' /\ Fresh \subseteq Fresh'
        <5>1. ASSUME NEW s \in Buses PROVE s \in Batches[batch] \/ out[s] = fetches => out'[s] = fetches'
          BY <2>1, <2>4, <3>2
        <5>2. Batches[batch] \subseteq Buses
          OBVIOUS
        <5> QED
          BY <5>1, <5>2 DEF Fresh
      <4>3. failed' = 0 => \A b \in {1, 2} : b <= total' => Batches[b] \subseteq Fresh'
        BY <1>2, <2>1, <3>2, <4>2 DEF FetchFresh
      <4> QED
        BY <1>2, <2>1, <2>3, <4>1, <4>3 DEF FetchFresh
    <3> QED
      BY <2>2, <3>1, <3>2
  <2> QED
    BY <2>6, <2>7, <2>8
<1> QED
  BY <1>1, <1>3, <1>4

LEMMA OebbStep ==
  ASSUME FetchInv, Oebb
  PROVE  /\ FetchInv'
         /\ pc' = "Idle" => /\ failed' = total' => auth' \in {before, TRUE}
                            /\ UNCHANGED <<fetches, before>>
<1> USE BatchFacts DEF FetchInv, FetchTypes, FetchCounts
<1>1. PICK a \in Answers(Hafas2xx) :
        \/ Again(PostOk(a), a) /\ AskAgain(a)
        \/ /\ ~Again(PostOk(a), a)
           /\ total' = total + 1
           /\ IF PostOk(a) THEN OebbAnswers(a) ELSE OebbFails
           /\ pc' = "Idle" /\ attempt' = 1 /\ status' = a
           /\ UNCHANGED <<batch, fetches, before>>
  BY DEF Oebb
<1>2. pc = "Oebb" /\ total = 2 /\ fetches # 0
  BY DEF Oebb, Done
<1>3. CASE AskAgain(a)
  <2>1. UNCHANGED <<pc, batch, auth, failed, total, out, fetches, before>>
    BY <1>3 DEF AskAgain, meta, sumVars
  <2> QED
    BY <1>2, <2>1 DEF FetchFresh, Fresh, Done
<1>4. CASE /\ total' = total + 1
           /\ IF PostOk(a) THEN OebbAnswers(a) ELSE OebbFails
           /\ pc' = "Idle"
           /\ UNCHANGED <<batch, fetches, before>>
  <2>1. CASE OebbFails
    <3>1. failed' = failed + 1 /\ UNCHANGED <<auth, out>>
      BY <2>1 DEF OebbFails, meta
    <3>2. Fresh' = Fresh
      BY <1>4, <3>1 DEF Fresh
    <3>3. FetchTypes' /\ FetchCounts'
      BY <1>2, <1>4, <3>1 DEF Done
    <3>4. FetchFresh'
      <4>1. failed' # 0 /\ pc' = "Idle"
        BY <1>4, <3>1
      <4>2. failed' = total' => Fresh' = {}
        BY <1>2, <1>4, <3>1, <3>2 DEF FetchFresh
      <4> QED
        BY <4>1, <4>2 DEF FetchFresh
    <3> QED
      BY <1>2, <1>4, <3>1, <3>3, <3>4 DEF FetchFresh
  <2>2. CASE OebbAnswers(a) /\ PostOk(a)
    <3>1. failed' = failed /\ auth' \in BOOLEAN
      BY <2>2 DEF OebbAnswers
    <3>2. out' \in [Streams -> Nat] /\ \A s \in Buses : out'[s] = out[s]
      BY <2>2 DEF OebbAnswers
    <3>3. Fresh' = Fresh
      BY <1>4, <3>2 DEF Fresh
    <3>4. failed' # total'
      BY <1>2, <1>4, <3>1
    <3>5. FetchTypes' /\ FetchCounts'
      BY <1>2, <1>4, <3>1, <3>2 DEF Done
    <3>6. FetchFresh'
      <4>1. failed' = 0 => \A b \in {1, 2} : Batches[b] \subseteq Fresh'
        BY <1>2, <3>1, <3>3 DEF FetchFresh
      <4> QED
        BY <1>4, <3>4, <4>1 DEF FetchFresh
    <3> QED
      BY <1>4, <3>4, <3>5, <3>6
  <2> QED
    BY <1>4, <2>1, <2>2
<1> QED
  BY <1>1, <1>3, <1>4

LEMMA BeginStep ==
  ASSUME FetchInv, Begin
  PROVE  FetchInv' /\ before' = auth /\ pc' = "Ogd" /\ pc = "Idle"
<1> USE BatchFacts DEF FetchInv, FetchTypes, FetchCounts
<1>1. /\ pc = "Idle" /\ pc' = "Ogd" /\ batch' = 1 /\ failed' = 0 /\ total' = 0
      /\ out' = [s \in Streams |-> 0] /\ fetches' = fetches + 1 /\ before' = auth
      /\ auth' = auth
  BY DEF Begin, meta
<1>2. Fresh' = {}
  BY <1>1 DEF Fresh
<1> QED
  BY <1>1, <1>2 DEF FetchFresh, Done

\* The counters, the streams and the flag of a fetch belong together.
LEMMA FetchInduction == FetchInv /\ [Next]_vars => FetchInv'
<1> SUFFICES ASSUME FetchInv, [Next]_vars PROVE FetchInv'
  OBVIOUS
<1>1. CASE UNCHANGED fetchVars
  BY <1>1 DEF fetchVars, callVars, meta, sumVars, FetchInv, FetchTypes, FetchCounts, FetchFresh, Done, Fresh
<1>2. CASE FetchNext
  BY <1>2, BeginStep, OgdStep, OebbStep DEF FetchNext
<1> QED
  BY <1>1, <1>2 DEF Next, vars

-----------------------------------------------------------------------------
\* What the abstract fetch sees.
FreshSeen == IF pc = "Idle" THEN {s \in Buses : fetches > 0 /\ out[s] = fetches} ELSE {}
FlagSeen == IF pc = "Idle" THEN auth ELSE before

(***************************************************************************)
(* Every fetch, however its requests fare, is one step of the promise the  *)
(* cycle is built on (snapshot_fetcher.cpp, fetchSnapshot).                *)
(***************************************************************************)
THEOREM FetchKeepsPromise == Spec => KeepsPromise
<1>1. Init => Promise!Init
  <2> SUFFICES ASSUME Init PROVE Promise!Init
    OBVIOUS
  <2>1. pc = "Idle" /\ failed = total /\ fetches = 0 /\ ~auth
    BY DEF Init
  <2>2. Outcome = "Failed"
    BY <2>1 DEF Outcome
  <2>3. FreshSeen = {}
    BY <2>1 DEF FreshSeen
  <2>4. FlagSeen = FALSE
    BY <2>1 DEF FlagSeen, Init
  <2> QED
    BY <2>2, <2>3, <2>4 DEF Promise!Init, FreshSeen, FlagSeen
<1>2. FetchInv /\ FetchInv' /\ [Next]_vars => [Promise!Next]_<<Outcome, FreshSeen, FlagSeen>>
  <2> SUFFICES ASSUME FetchInv, FetchInv', [Next]_vars,
                      ~ UNCHANGED <<Outcome, FreshSeen, FlagSeen>>
               PROVE  Promise!Next
    OBVIOUS
  <2>1. CASE UNCHANGED fetchVars
    BY <2>1 DEF fetchVars, callVars, meta, sumVars, Outcome, FreshSeen, FlagSeen
  <2>2. CASE Begin
    <3>1. pc = "Idle" /\ pc' = "Ogd" /\ before' = auth
      BY <2>2, BeginStep
    <3>2. Outcome # "None" /\ Outcome' = "None"
      BY <3>1 DEF Outcome
    <3>3. FreshSeen' = {} /\ FlagSeen' = FlagSeen
      BY <3>1 DEF FreshSeen, FlagSeen
    <3> QED
      BY <3>2, <3>3 DEF Promise!Next, Promise!Begin, FreshSeen, FlagSeen
  <2>3. CASE Ogd
    <3>1. pc # "Idle" /\ pc' # "Idle" /\ before' = before
      BY <2>3 DEF Ogd, AskAgain, NextCall
    <3> QED
      BY <3>1 DEF Outcome, FreshSeen, FlagSeen
  <2>4. CASE Oebb
    <3>1. CASE pc' # "Idle"
      <4>1. pc # "Idle" /\ before' = before
        BY <2>4, <3>1 DEF Oebb, AskAgain
      <4> QED
        BY <3>1, <4>1 DEF Outcome, FreshSeen, FlagSeen
    <3>2. CASE pc' = "Idle"
      <4> USE BatchFacts DEF FetchInv, FetchTypes, FetchCounts
      <4>1. pc = "Oebb" /\ Outcome = "None" /\ FlagSeen = before
        BY <2>4 DEF Oebb, Outcome, FlagSeen
      <4>2. /\ failed' = total' => auth' \in {before, TRUE}
            /\ UNCHANGED <<fetches, before>> /\ fetches # 0
        BY <2>4, <3>2, <4>1, OebbStep
      <4>3. FreshSeen' = Fresh' /\ FlagSeen' = auth' /\ auth' \in BOOLEAN
        BY <3>2, <4>2 DEF FreshSeen, FlagSeen, Fresh
      <4>4. CASE failed' = total'
        <5>1. Outcome' = "Failed" /\ Fresh' = {}
          BY <3>2, <4>2, <4>4 DEF Outcome, FetchFresh
        <5> QED
          BY <4>1, <4>2, <4>3, <4>4, <5>1 DEF Promise!Next, Promise!Finish, FreshSeen, FlagSeen
      <4>5. CASE failed' = 0 /\ failed' # total'
        <5>1. Outcome' = "Complete" /\ total' = 3
          BY <3>2, <4>5 DEF Outcome
        <5>2. Fresh' = Buses
          <6>1. \A b \in {1, 2} : Batches[b] \subseteq Fresh'
            BY <4>5, <5>1 DEF FetchFresh
          <6>2. Buses \subseteq Fresh'
            BY <6>1
          <6> QED
            BY <6>2 DEF Fresh
        <5> QED
          BY <4>1, <4>2, <4>3, <5>1, <5>2 DEF Promise!Next, Promise!Finish, FreshSeen, FlagSeen
      <4>6. CASE failed' # 0 /\ failed' # total'
        <5>1. Outcome' = "Partial" /\ Fresh' \in SUBSET Buses
          BY <3>2, <4>6 DEF Outcome, Fresh
        <5> QED
          BY <4>1, <4>2, <4>3, <5>1 DEF Promise!Next, Promise!Finish, FreshSeen, FlagSeen
      <4> QED
        BY <4>4, <4>5, <4>6
    <3> QED
      BY <3>1, <3>2
  <2> QED
    BY <2>1, <2>2, <2>3, <2>4 DEF Next, FetchNext, vars
<1> QED
  BY <1>1, <1>2, FetchInit, FetchInduction, PTL
  DEF Spec, KeepsPromise, Promise!Spec, FreshSeen, FlagSeen
-----------------------------------------------------------------------------
(***************************************************************************)
(* The auth flag and the answers of the servers.  The streak saturates at  *)
(* the tripwire, the history does not: up to the tripwire it is the number *)
(* of OGD denials since the last good answer.                              *)
(***************************************************************************)
Entries == {"OgdDenied", "OgdOk", "HafasAuth", "HafasOk"}

\* The denials up to entry n of l with no good OGD answer after them.
Denials(l, n) == {j \in 1..n : l[j] = "OgdDenied" /\ \A k \in j..n : l[k] # "OgdOk"}

\* What Tripped and the flag say of a history.
TrippedIn(l, i) == l[i] = "OgdDenied" /\ Cardinality(Denials(l, i)) >= Tripwire
Raises(l, i) == l[i] = "HafasAuth" \/ TrippedIn(l, i)
Raising(l) == \E i \in DOMAIN l : Raises(l, i) /\ \A k \in i..Len(l) : l[k] # "HafasOk"

StreakCounts(l, s) ==
  s = IF Cardinality(Denials(l, Len(l))) < Tripwire THEN Cardinality(Denials(l, Len(l)))
                                                     ELSE Tripwire

FlagInv == log \in Seq(Entries) /\ StreakCounts(log, streak) /\ (auth <=> Raising(log))

LEMMA DenialsFinite ==
  ASSUME NEW l, NEW n \in Nat
  PROVE  IsFiniteSet(Denials(l, n)) /\ Cardinality(Denials(l, n)) \in Nat
<1>1. IsFiniteSet(1..n)
  BY FS_Interval
<1>. QED  BY <1>1, FS_Subset, FS_CardinalityType DEF Denials

\* A further entry leaves what was said of the earlier ones.
LEMMA EarlierEntries ==
  ASSUME NEW l \in Seq(Entries), NEW e \in Entries
  PROVE  /\ Append(l, e) \in Seq(Entries) /\ Len(Append(l, e)) = Len(l) + 1
         /\ DOMAIN l = 1..Len(l) /\ DOMAIN Append(l, e) = 1..(Len(l) + 1)
         /\ Append(l, e)[Len(l) + 1] = e
         /\ \A i \in 1..Len(l) : Append(l, e)[i] = l[i]
         /\ \A i \in 1..Len(l) : Raises(Append(l, e), i) <=> Raises(l, i)
<1>1. /\ Append(l, e) \in Seq(Entries) /\ Len(Append(l, e)) = Len(l) + 1
      /\ DOMAIN l = 1..Len(l) /\ DOMAIN Append(l, e) = 1..(Len(l) + 1)
      /\ Append(l, e)[Len(l) + 1] = e
      /\ \A i \in 1..Len(l) : Append(l, e)[i] = l[i]
  OBVIOUS
<1>2. ASSUME NEW i \in 1..Len(l)
      PROVE  Raises(Append(l, e), i) <=> Raises(l, i)
  <2>1. Denials(Append(l, e), i) = Denials(l, i)
    BY <1>1 DEF Denials
  <2>. QED  BY <1>1, <2>1 DEF Raises, TrippedIn
<1>. QED  BY <1>1, <1>2

\* What a further entry does to the denials that count.
LEMMA NextDenials ==
  ASSUME NEW l \in Seq(Entries), NEW e \in Entries
  PROVE  Denials(Append(l, e), Len(l) + 1) =
           CASE e = "OgdDenied" -> Denials(l, Len(l)) \cup {Len(l) + 1}
             [] e = "OgdOk"     -> {}
             [] OTHER           -> Denials(l, Len(l))
<1>. DEFINE n == Len(l)
            ll == Append(l, e)
<1>1. n \in Nat /\ ll[n + 1] = e /\ \A i \in 1..n : ll[i] = l[i]
  BY EarlierEntries
<1>. HIDE DEF n, ll
<1>2. CASE e = "OgdOk"
  BY <1>1, <1>2 DEF Denials, n, ll
<1>3. CASE e # "OgdOk"
  <2>1. ASSUME NEW j \in 1..n
        PROVE  (\A k \in j..(n + 1) : ll[k] # "OgdOk") <=> (\A k \in j..n : l[k] # "OgdOk")
    BY <1>1, <1>3
  <2>2. \A j \in 1..n : j \in Denials(ll, n + 1) <=> j \in Denials(l, n)
    BY <1>1, <2>1 DEF Denials
  <2>3. n + 1 \in Denials(ll, n + 1) <=> e = "OgdDenied"
    BY <1>1, <1>3 DEF Denials
  <2>4. Denials(ll, n + 1) \subseteq 1..(n + 1) /\ Denials(l, n) \subseteq 1..n
    BY DEF Denials
  <2>5. CASE e = "OgdDenied"
    BY <1>1, <2>2, <2>3, <2>4, <2>5 DEF n, ll
  <2>6. CASE e # "OgdDenied"
    <3>1. \A j : j \in Denials(ll, n + 1) => j \in Denials(l, n)
      BY <1>1, <2>2, <2>3, <2>4, <2>6
    <3>2. \A j : j \in Denials(l, n) => j \in Denials(ll, n + 1)
      BY <1>1, <2>2, <2>4
    <3>3. Denials(ll, n + 1) = Denials(l, n)
      BY <3>1, <3>2
    <3>. QED  BY <1>3, <2>6, <3>3 DEF n, ll
  <2>. QED  BY <2>5, <2>6
<1>. QED  BY <1>2, <1>3

\* A further entry raises the flag, clears it or leaves it.
LEMMA NextRaising ==
  ASSUME NEW l \in Seq(Entries), NEW e \in Entries
  PROVE  Raising(Append(l, e)) <=>
           e # "HafasOk" /\ (Raising(l) \/ Raises(Append(l, e), Len(l) + 1))
<1>. DEFINE n == Len(l)
            ll == Append(l, e)
<1>1. /\ n \in Nat /\ ll[n + 1] = e /\ Len(ll) = n + 1
      /\ \A i \in 1..n : ll[i] = l[i] /\ (Raises(ll, i) <=> Raises(l, i))
      /\ DOMAIN l = 1..n /\ DOMAIN ll = 1..(n + 1)
  BY EarlierEntries
<1>2. Raising(l) <=> \E i \in 1..n : Raises(l, i) /\ \A k \in i..n : l[k] # "HafasOk"
  BY <1>1 DEF Raising
<1>3. Raising(ll) <=> \E i \in 1..(n + 1) : Raises(ll, i) /\ \A k \in i..(n + 1) : ll[k] # "HafasOk"
  BY <1>1 DEF Raising
<1>. HIDE DEF n, ll
<1>4. CASE e = "HafasOk"
  <2>1. \A i \in 1..(n + 1) : n + 1 \in i..(n + 1)
    BY <1>1
  <2>. QED  BY <1>1, <1>3, <1>4, <2>1 DEF n, ll
<1>5. CASE e # "HafasOk"
  <2>1. ASSUME NEW i \in 1..n
        PROVE  (\A k \in i..(n + 1) : ll[k] # "HafasOk") <=> (\A k \in i..n : l[k] # "HafasOk")
    BY <1>1, <1>5
  <2>2. \A k \in (n + 1)..(n + 1) : ll[k] # "HafasOk"
    BY <1>1, <1>5
  <2>3. 1..(n + 1) = 1..n \cup {n + 1}
    BY <1>1
  <2>4. Raising(ll) <=> Raising(l) \/ Raises(ll, n + 1)
    BY <1>1, <1>2, <1>3, <2>1, <2>2, <2>3
  <2>. QED  BY <1>5, <2>4 DEF n, ll
<1>. QED  BY <1>4, <1>5

\* An entry and what becomes of streak and flag with it.
LEMMA EntryKeepsFlag ==
  ASSUME FlagInv, auth \in BOOLEAN, auth' \in BOOLEAN,
         \/ log' = Append(log, "OgdDenied") /\ streak' = Raised /\ auth' = (auth \/ Raised >= Tripwire)
         \/ log' = Append(log, "OgdOk") /\ streak' = 0 /\ auth' = auth
         \/ log' = Append(log, "HafasAuth") /\ streak' = streak /\ auth' = TRUE
         \/ log' = Append(log, "HafasOk") /\ streak' = streak /\ auth' = FALSE
  PROVE  FlagInv'
<1>. DEFINE n == Len(log)
            c == Cardinality(Denials(log, n))
<1>1. PICK e \in Entries : log' = Append(log, e)
  BY DEF Entries
<1>2. /\ log \in Seq(Entries) /\ log' \in Seq(Entries) /\ n \in Nat /\ Len(log') = n + 1
      /\ log'[n + 1] = e
  BY <1>1, EarlierEntries DEF FlagInv
<1>3. IsFiniteSet(Denials(log, n)) /\ c \in Nat /\ n + 1 \notin Denials(log, n)
  <2>1. IsFiniteSet(Denials(log, n)) /\ c \in Nat
    BY <1>2, DenialsFinite
  <2>2. n + 1 \notin Denials(log, n)
    BY <1>2 DEF Denials
  <2>. QED  BY <2>1, <2>2
<1>4. Tripwire \in Nat \ {0} /\ streak = (IF c < Tripwire THEN c ELSE Tripwire)
  BY FetchAssumption DEF FlagInv, StreakCounts
<1>5. Raising(log') <=> e # "HafasOk" /\ (auth \/ Raises(log', n + 1))
  BY <1>1, <1>2, NextRaising DEF FlagInv
<1>6. Raises(log', n + 1) <=>
        e = "HafasAuth" \/ (e = "OgdDenied" /\ Cardinality(Denials(log', n + 1)) >= Tripwire)
  BY <1>2 DEF Raises, TrippedIn
<1>7. CASE e = "OgdDenied"
  <2>1. Denials(log', n + 1) = Denials(log, n) \cup {n + 1}
    BY <1>1, <1>2, <1>7, NextDenials
  <2>2. Cardinality(Denials(log', n + 1)) = c + 1
    BY <1>3, <2>1, FS_AddElement
  <2>3. streak' = Raised /\ auth' = (auth \/ Raised >= Tripwire)
    BY <1>1, <1>2, <1>7, EarlierEntries
  <2>4. Raised = IF c + 1 < Tripwire THEN c + 1 ELSE Tripwire
    BY <1>3, <1>4 DEF Raised
  <2>5. StreakCounts(log', streak')
    BY <1>2, <2>2, <2>3, <2>4 DEF StreakCounts
  <2>6. auth' <=> Raising(log')
    <3>1. Raised >= Tripwire <=> c + 1 >= Tripwire
      BY <1>3, <1>4, <2>4
    <3>2. Raises(log', n + 1) <=> c + 1 >= Tripwire
      BY <1>6, <1>7, <2>2
    <3>3. Raising(log') <=> auth \/ Raises(log', n + 1)
      BY <1>5, <1>7
    <3>. QED  BY <2>3, <3>1, <3>2, <3>3
  <2>. QED  BY <1>2, <2>5, <2>6 DEF FlagInv
<1>8. CASE e = "OgdOk"
  <2>1. Denials(log', n + 1) = {}
    BY <1>1, <1>2, <1>8, NextDenials
  <2>2. streak' = 0 /\ auth' = auth
    BY <1>1, <1>2, <1>8, EarlierEntries
  <2>3. StreakCounts(log', streak')
    <3>1. Cardinality(Denials(log', Len(log'))) = 0
      BY <1>2, <2>1, FS_EmptySet
    <3>. QED  BY <1>4, <2>2, <3>1 DEF StreakCounts
  <2>. QED  BY <1>2, <1>5, <1>6, <1>8, <2>2, <2>3 DEF FlagInv
<1>9. CASE e \in {"HafasAuth", "HafasOk"}
  <2>1. Denials(log', n + 1) = Denials(log, n)
    BY <1>1, <1>2, <1>9, NextDenials
  <2>2. streak' = streak /\ auth' = (e = "HafasAuth")
    BY <1>1, <1>2, <1>9, EarlierEntries
  <2>3. StreakCounts(log', streak')
    BY <1>2, <1>4, <2>1, <2>2 DEF StreakCounts
  <2>. QED  BY <1>2, <1>5, <1>6, <1>9, <2>2, <2>3 DEF FlagInv
<1>. QED  BY <1>7, <1>8, <1>9 DEF Entries

\* A step that enters nothing touches neither streak nor flag.
LEMMA FlagInduction == FetchInv /\ FetchInv' /\ FlagInv /\ [Next]_vars => FlagInv'
<1>. SUFFICES ASSUME FetchInv, FetchInv', FlagInv, [Next]_vars PROVE FlagInv'
  OBVIOUS
<1>1. auth \in BOOLEAN /\ auth' \in BOOLEAN
  BY DEF FetchInv, FetchTypes
<1>2. CASE UNCHANGED <<meta, log>>
  BY <1>2 DEF meta, FlagInv
<1>3. CASE Ogd
  <2>1. PICK a \in Answers(Ogd2xx) : AskAgain(a) \/ IF a \in Ogd2xx THEN OgdAnswers(a) ELSE OgdFails(a)
    BY <1>3 DEF Ogd
  <2>. QED  BY <1>1, <1>2, <2>1, EntryKeepsFlag DEF AskAgain, OgdAnswers, OgdFails, meta
<1>4. CASE Oebb
  <2>1. PICK a \in Answers(Hafas2xx) : AskAgain(a) \/ OebbAnswers(a) \/ OebbFails
    BY <1>4 DEF Oebb
  <2>. QED  BY <1>1, <1>2, <2>1, EntryKeepsFlag DEF AskAgain, OebbAnswers, OebbFails, meta
<1>5. CASE Begin
  BY <1>2, <1>5 DEF Begin
<1>. QED  BY <1>2, <1>3, <1>4, <1>5 DEF Next, FetchNext, vars, fetchVars

(***************************************************************************)
(* For every tripwire and every number of attempts and fetches the flag    *)
(* says what the servers said (snapshot_fetcher.cpp, runOgdBatchLoop and   *)
(* fetchOebbStream).                                                       *)
(***************************************************************************)
THEOREM FlagIsEarned == Spec => []FlagSaysWhatServersSaid
<1>1. Init => FlagInv
  <2>. SUFFICES ASSUME Init PROVE FlagInv
    OBVIOUS
  <2>2. log = <<>> /\ streak = 0 /\ auth = FALSE
    BY DEF Init
  <2>3. log \in Seq(Entries) /\ Len(log) = 0 /\ DOMAIN log = {}
    BY <2>2
  <2>4. Cardinality(Denials(log, Len(log))) = 0
    <3>1. Denials(log, 0) = {}
      BY DEF Denials
    <3>. QED  BY <2>3, <3>1, FS_EmptySet
  <2>5. StreakCounts(log, streak)
    BY <2>2, <2>4, FetchAssumption DEF StreakCounts
  <2>6. ~Raising(log)
    BY <2>3 DEF Raising
  <2>. QED  BY <2>2, <2>3, <2>5, <2>6 DEF FlagInv
<1>2. FlagInv => FlagSaysWhatServersSaid
  <2>. SUFFICES ASSUME FlagInv PROVE FlagSaysWhatServersSaid
    OBVIOUS
  <2>2. \A i \in DOMAIN log : Tripped(i) <=> TrippedIn(log, i)
    BY DEF Tripped, TrippedIn, Denials
  <2>. QED  BY <2>2 DEF FlagInv, Raising, Raises, FlagSaysWhatServersSaid
<1>. QED  BY <1>1, <1>2, FetchInit, FetchInduction, FlagInduction, PTL DEF Spec
=============================================================================
