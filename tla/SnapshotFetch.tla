--------------------------- MODULE SnapshotFetch ----------------------------
(***************************************************************************)
(* One realtime fetch after another over a network that loses, refuses and *)
(* garbles answers: the two OGD batches and the HAFAS call of              *)
(* fetchSnapshot (src/src/logic/snapshot_fetcher.cpp), the retry loop      *)
(* under each of them (src/src/logic/api_fetcher.cpp) and the transport    *)
(* that turns an answer into an HttpResult (Esp32Network.cpp), beside the  *)
(* connection they run on.                                                 *)
(***************************************************************************)
EXTENDS WifiConnect, Naturals, Sequences, FiniteSets

CONSTANTS
  MaxAttempts,   \* FetchConfig::max_attempts
  Tripwire,      \* OGD_AUTH_STREAK_TRIPWIRE
  MaxFetches     \* bound: fetches of a behaviour

ASSUME FetchAssumption ==
  MaxAttempts \in Nat \ {0} /\ Tripwire \in Nat \ {0} /\ MaxFetches \in Nat

\* FETCH_ORDER cut into STOPIDS_PER_QUERY
Batches == <<{"58B_ATZ", "58A_HIETZING"}, {"58A_ATZ"}>>
Buses == UNION {Batches[b] : b \in DOMAIN Batches}
SBahn == "SBAHN_HBF"
Streams == Buses \cup {SBahn}

VARIABLES
  pc,        \* "Idle", "Ogd" or "Oebb"
  batch,     \* OGD batch in progress
  attempt,   \* runRetryLoop's attempt
  status,    \* FetchOutcome::http_status: the last answer, "None" before it
  auth,      \* meta.auth_error_seen
  streak,    \* meta.ogd_auth_streak
  failed,    \* summary.failed_batches
  total,     \* summary.total_batches
  out,       \* for each stream the fetch its data is of, 0 for none
  fetches,   \* fetches so far
  before,    \* history: the flag when the fetch began
  log        \* history: the final answers that bear on the flag

meta == <<auth, streak>>
callVars == <<batch, attempt, status>>
sumVars == <<failed, total, out>>
fetchVars == <<pc, callVars, meta, sumVars, fetches, before, log>>
vars == <<wifiVars, fetchVars>>

Init ==
  /\ WifiInit
  /\ pc = "Idle" /\ batch = 1 /\ attempt = 1 /\ status = "None"
  /\ auth = FALSE /\ streak = 0 /\ failed = 0 /\ total = 0
  /\ out = [s \in Streams |-> 0] /\ fetches = 0 /\ before = FALSE /\ log = <<>>

(***************************************************************************)
(* The answer to one request.  "Lost" is any transport failure, a cut body *)
(* included; "Busy" is 408, 429 or 5xx, "Denied" 401 or 403, "Refused" any *)
(* other status; the rest are 2xx.  A HAFAS body carries its own verdict:  *)
(* "AuthErr" is err AID or AUTH, "Fail" any other err or an empty result.  *)
(***************************************************************************)
NotOk == {"Busy", "Denied", "Refused"}
Ogd2xx == {"Data", "Garbled"}
Hafas2xx == {"Data", "Garbled", "AuthErr", "Fail"}
Answers(good) == IF link = "Up" THEN {"Lost"} \cup NotOk \cup good ELSE {"Lost"}

\* httpGet reports every status as ok; httpPostStream only a 2xx whose body
\* the consumer took
GetOk(a) == a # "Lost"
PostOk(a) == a \in Hafas2xx \ {"Garbled"}

\* classify: a result that is not ok, or a busy server, is asked again
Retry(ok, a) == ~ok \/ a = "Busy"
Again(ok, a) == Retry(ok, a) /\ attempt < MaxAttempts

AskAgain(a) ==
  /\ attempt' = attempt + 1 /\ status' = a
  /\ UNCHANGED <<pc, batch, meta, sumVars, fetches, before, log>>

\* the result object and the summary of the caller are reset on entry
Begin ==
  /\ pc = "Idle" /\ link = "Up" /\ fetches < MaxFetches
  /\ pc' = "Ogd" /\ batch' = 1 /\ attempt' = 1 /\ status' = "None"
  /\ failed' = 0 /\ total' = 0 /\ out' = [s \in Streams |-> 0]
  /\ fetches' = fetches + 1 /\ before' = auth
  /\ UNCHANGED <<meta, log>>

NextCall ==
  /\ attempt' = 1 /\ status' = "None"
  /\ IF batch < Len(Batches) THEN batch' = batch + 1 /\ pc' = "Ogd"
                             ELSE pc' = "Oebb" /\ UNCHANGED batch

Raised == IF streak < Tripwire THEN streak + 1 ELSE streak

\* Mutant: a transport failure counts towards the tripwire like a 401
MutOgdFails(a) ==
  /\ streak' = Raised /\ auth' = (auth \/ Raised >= Tripwire)
  /\ failed' = failed + 1 /\ UNCHANGED out
  /\ log' = IF a = "Denied" THEN Append(log, "OgdDenied") ELSE log

OgdFails(a) ==
  /\ IF a = "Denied"
       THEN streak' = Raised /\ auth' = (auth \/ Raised >= Tripwire)
       ELSE UNCHANGED meta
  /\ failed' = failed + 1 /\ UNCHANGED out
  /\ log' = IF a = "Denied" THEN Append(log, "OgdDenied") ELSE log

\* Mutant: an unparsable batch is not counted as failed
MutOgdAnswers(a) ==
  /\ streak' = 0 /\ UNCHANGED <<auth, failed>>
  /\ log' = Append(log, "OgdOk")
  /\ out' = IF a = "Data"
              THEN [s \in Streams |-> IF s \in Batches[batch] THEN fetches ELSE out[s]]
              ELSE out

\* any 2xx ends the streak, only a parsable one brings the batch's streams
OgdAnswers(a) ==
  /\ streak' = 0 /\ UNCHANGED auth
  /\ log' = Append(log, "OgdOk")
  /\ IF a = "Data"
       THEN /\ out' = [s \in Streams |-> IF s \in Batches[batch] THEN fetches ELSE out[s]]
            /\ UNCHANGED failed
       ELSE failed' = failed + 1 /\ UNCHANGED out

Ogd ==
  /\ pc = "Ogd"
  /\ \E a \in Answers(Ogd2xx) :
       \/ Again(GetOk(a), a) /\ AskAgain(a)
       \/ /\ ~Again(GetOk(a), a)
          /\ total' = total + 1
          /\ IF a \in Ogd2xx THEN OgdAnswers(a) ELSE OgdFails(a)
          /\ NextCall
          /\ UNCHANGED <<fetches, before>>

OebbFails ==
  /\ failed' = failed + 1 /\ UNCHANGED <<meta, out, log>>

\* err AID or AUTH raises the flag, err OK clears it, any other err keeps it;
\* all three count as an answered batch
OebbAnswers(a) ==
  /\ UNCHANGED <<streak, failed>>
  /\ out' = [out EXCEPT ![SBahn] = IF a = "Data" THEN fetches ELSE 0]
  /\ CASE a = "AuthErr" -> auth' = TRUE  /\ log' = Append(log, "HafasAuth")
       [] a = "Data"    -> auth' = FALSE /\ log' = Append(log, "HafasOk")
       [] OTHER         -> UNCHANGED <<auth, log>>

Oebb ==
  /\ pc = "Oebb"
  /\ \E a \in Answers(Hafas2xx) :
       \/ Again(PostOk(a), a) /\ AskAgain(a)
       \/ /\ ~Again(PostOk(a), a)
          /\ total' = total + 1
          /\ IF PostOk(a) THEN OebbAnswers(a) ELSE OebbFails
          /\ pc' = "Idle" /\ attempt' = 1 /\ status' = a
          /\ UNCHANGED <<batch, fetches, before>>

\* fetchSnapshot and the fetch's share of doFetchCycle
FetchNext == Begin \/ Ogd \/ Oebb

\* connect() is only called where no fetch runs
Next ==
  \/ FetchNext /\ UNCHANGED wifiVars
  \/ pc = "Idle" /\ Connect /\ UNCHANGED fetchVars
  \/ WifiStep /\ UNCHANGED fetchVars

Spec == Init /\ [][Next]_vars

(***************************************************************************)
(* The auth screen replaces the board, so the flag must say what the       *)
(* servers said and nothing else: it is up exactly if, since HAFAS last    *)
(* answered normally, HAFAS rejected the client id or an OGD 401/403 was   *)
(* the third (or later) with no good OGD answer among them.  Transport     *)
(* failures, retries and batches that cannot be parsed do not blur it      *)
(* (snapshot_fetcher.h:73-80).                                             *)
(***************************************************************************)
Tripped(i) ==
  /\ log[i] = "OgdDenied"
  /\ Cardinality({j \in 1..i : /\ log[j] = "OgdDenied"
                               /\ \A k \in j..i : log[k] # "OgdOk"}) >= Tripwire

FlagSaysWhatServersSaid ==
  auth <=> \E i \in DOMAIN log :
             /\ log[i] = "HafasAuth" \/ Tripped(i)
             /\ \A k \in i..Len(log) : log[k] # "HafasOk"

(***************************************************************************)
(* The fetch as the cycle sees it: whatever is lost, retried or garbled in *)
(* between, it ends as one step of FetchPromise.  Complete means that all  *)
(* three bus streams hold data of this very fetch, Failed that none does   *)
(* and that the flag was not cleared (snapshot_fetcher.cpp:220-253).       *)
(***************************************************************************)
Outcome ==
  IF pc # "Idle" THEN "None"
  ELSE IF failed = total THEN "Failed"
  ELSE IF failed = 0 THEN "Complete" ELSE "Partial"

Promise == INSTANCE FetchPromise WITH
  outcome <- Outcome,
  fresh   <- IF pc = "Idle" THEN {s \in Buses : fetches > 0 /\ out[s] = fetches} ELSE {},
  flag    <- IF pc = "Idle" THEN auth ELSE before

KeepsPromise == Promise!Spec
=============================================================================
