---------------------------- MODULE WifiConnect -----------------------------
(***************************************************************************)
(* Joining the network (Esp32Network::connect and onWifiEvent in           *)
(* src/src/hal/Esp32Network.cpp).  The driver posts disconnect events that *)
(* the event task hands to onWifiEvent at some later moment; connect()     *)
(* clears the latch, lets WiFiMulti try the access points and judges a     *)
(* failure by the latch.  EventsDrained is what the code relies on: the    *)
(* event task has handled what an earlier attempt posted.                  *)
(***************************************************************************)
VARIABLES
  link,      \* "Down", "Trying" inside connect(), "Up"
  latch,     \* g_wifi_auth_failed
  failure,   \* last_failure_
  posted,    \* reasons posted to the event task and not yet handled
  refused    \* history: an access point refused the key since connect()

wifiVars == <<link, latch, failure, posted, refused>>

\* MIC_FAILURE and AUTH_FAIL; a lost handshake or an expired authentication
Refusals == {"MicFailure", "AuthFail"}
Reasons == Refusals \cup {"HandshakeTimeout"}

WifiInit ==
  /\ link = "Down" /\ latch = FALSE /\ failure = "None"
  /\ posted = {} /\ refused = FALSE

EventsDrained == posted = {}

\* Mutant: the latch of an earlier attempt is not cleared
MutConnect ==
  /\ link = "Down" /\ EventsDrained
  /\ link' = "Trying" /\ failure' = "None" /\ refused' = FALSE
  /\ UNCHANGED <<latch, posted>>

Connect ==
  /\ link = "Down" /\ EventsDrained
  /\ link' = "Trying" /\ latch' = FALSE /\ failure' = "None" /\ refused' = FALSE
  /\ UNCHANGED posted

\* An access point drops the association or the handshake, WiFiMulti goes on
Disconnected ==
  /\ link # "Down"
  /\ \E r \in Reasons :
       /\ posted' = posted \cup {r}
       /\ refused' = (refused \/ r \in Refusals)
  /\ link' \in (IF link = "Up" THEN {"Down"} ELSE {"Trying"})
  /\ UNCHANGED <<latch, failure>>

OnWifiEvent ==
  \E r \in posted :
    /\ posted' = posted \ {r}
    /\ latch' = (latch \/ r \in Refusals)
    /\ UNCHANGED <<link, failure, refused>>

Joined ==
  /\ link = "Trying" /\ link' = "Up"
  /\ UNCHANGED <<latch, failure, posted, refused>>

GaveUp ==
  /\ link = "Trying" /\ link' = "Down"
  /\ failure' = IF latch THEN "AuthFailed" ELSE "NotFound"
  /\ UNCHANGED <<latch, posted, refused>>

\* what happens without the program's doing
WifiStep == Disconnected \/ OnWifiEvent \/ Joined \/ GaveUp

(***************************************************************************)
(* The "WLAN-PASSWORT FALSCH" screen is terminal: the device stops trying. *)
(* connect() may only report AuthFailed when an access point refused the   *)
(* key in the very attempt it judges, never for a lost handshake or for a  *)
(* refusal that belongs to an earlier attempt (Esp32Network.cpp:197-208).  *)
(***************************************************************************)
WrongPasswordProven == failure = "AuthFailed" => refused
=============================================================================
