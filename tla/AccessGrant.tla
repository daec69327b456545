----------------------------- MODULE AccessGrant -----------------------------
(***************************************************************************)
(* What the gates of the API promise, whatever middleware and services     *)
(* make it so: a request is let through only at an instant at which its    *)
(* caller has the right it needs, and nothing is done for a request that   *)
(* was not let through. Rights come and go as owners and grants change; a  *)
(* request that was let through is not called back.                        *)
(***************************************************************************)
CONSTANT Requests

VARIABLES
  right,    (* whether each request's caller has the right it needs, now    *)
  granted,  (* the requests that were let through                           *)
  acted     (* ... and for which storage, signing or credentials were used  *)

Init ==
  /\ right \in [Requests -> BOOLEAN]
  /\ granted = {} /\ acted = {}

Grant(r) ==
  /\ right[r]
  /\ granted' = granted \cup {r}
  /\ UNCHANGED <<right, acted>>

Act(r) ==
  /\ r \in granted
  /\ acted' = acted \cup {r}
  /\ UNCHANGED <<right, granted>>

RightsChange ==
  /\ right' \in [Requests -> BOOLEAN]
  /\ UNCHANGED <<granted, acted>>

Next == RightsChange \/ \E r \in Requests : Grant(r) \/ Act(r)

Spec == Init /\ [][Next]_<<right, granted, acted>>

=============================================================================
