---------------------------- MODULE AlarmService ----------------------------
(***************************************************************************)
(* What every interaction mode of the web server promises to the renderers *)
(* about the alarms of a dashboard, whatever transport carries them:       *)
(*                                                                         *)
(*   - a request is answered at most once, and the answer never changes;   *)
(*   - alarms are handed out only for the bearer the request presented,    *)
(*     and only after the API has introspected that bearer for that very   *)
(*     operation ("the connection never caches identity", README);         *)
(*   - a request whose client went away is never answered.                 *)
(*                                                                         *)
(* The transport modules implement this specification.                     *)
(***************************************************************************)
EXTENDS ServiceContract

VARIABLES
  phase,       \* "pending", "answered" or "gone", per request
  authorised,  \* requests whose bearer the API has found active
  result       \* the outcome handed to the renderer, per request

vars == <<phase, authorised, result>>

TypeOK ==
  /\ phase \in [Request -> {"pending", "answered", "gone"}]
  /\ authorised \subseteq Request
  /\ result \in [Request -> Result]

Init ==
  /\ phase = [r \in Request |-> "pending"]
  /\ authorised = {}
  /\ result = [r \in Request |-> NoResult]

\* The API finds the bearer of r active.  It may do so after r has given up.
Authorise(r) ==
  /\ authorised' = authorised \cup {r}
  /\ UNCHANGED <<phase, result>>

Answer(r) ==
  /\ phase[r] = "pending"
  /\ \/ r \in authorised /\ result' = [result EXCEPT ![r] = Served(Bearer[r])]
     \/ \E kind \in {"Unauthorized", "ApiUnavailable", "Contract"} :
          result' = [result EXCEPT ![r] = Failed(kind)]
  /\ phase' = [phase EXCEPT ![r] = "answered"]
  /\ UNCHANGED authorised

GoAway(r) ==
  /\ phase[r] = "pending"
  /\ phase' = [phase EXCEPT ![r] = "gone"]
  /\ UNCHANGED <<authorised, result>>

Next == \E r \in Request : Authorise(r) \/ Answer(r) \/ GoAway(r)

Spec == Init /\ [][Next]_vars

=============================================================================
