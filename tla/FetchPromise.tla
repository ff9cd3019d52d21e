---------------------------- MODULE FetchPromise ----------------------------
(***************************************************************************)
(* What fetchSnapshot promises doFetchCycle, whatever the servers do and   *)
(* however often it asks them: the action Fetch of CycleRunner assumes no  *)
(* more.  A fetch is one step that yields an outcome, the bus streams that *)
(* hold data of this fetch, and what the auth flag became.                 *)
(***************************************************************************)
CONSTANT Buses        \* the streams of the OGD monitor
VARIABLES
  outcome,   \* "None" while a fetch runs, else "Complete", "Partial", "Failed"
  fresh,     \* the bus streams the last fetch brought data for
  flag       \* meta.auth_error_seen

Init == outcome = "Failed" /\ fresh = {} /\ flag = FALSE

Begin == outcome # "None" /\ outcome' = "None" /\ fresh' = {} /\ UNCHANGED flag

\* CycleRunner!AuthAfter: only an answer can clear the flag
Finish ==
  /\ outcome = "None"
  /\ \/ outcome' = "Complete" /\ fresh' = Buses
     \/ outcome' = "Partial"  /\ fresh' \in SUBSET Buses
     \/ outcome' = "Failed"   /\ fresh' = {}
  /\ flag' \in {flag, TRUE} \cup (IF outcome' = "Failed" THEN {} ELSE {FALSE})

Next == Begin \/ Finish
Spec == Init /\ [][Next]_<<outcome, fresh, flag>>
=============================================================================
