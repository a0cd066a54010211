------------------------------ MODULE MCBackend ------------------------------
(***************************************************************************)
(* Small instances of what startBackend wires beside the poller: the token *)
(* sources under concurrent requests, and the routing controller with the  *)
(* empty map (every job on spot) and two that shed some jobs to on-demand  *)
(* runners.  They share no state, so one of them runs at a time.           *)
(***************************************************************************)
EXTENDS Credentials, RunnerRouting
CONSTANTS c1, c2, spot, shed, more
VARIABLE part

backendVars == <<vars, routingVars, part>>

\* The part that does not run stands still in one of its initial states.
BackendInit ==
  /\ Init /\ RoutingInit
  /\ \/ part = "tokens" /\ plan = spot /\ variable = Absent
     \/ part = "routing" /\ source = "gh"

BackendNext ==
  /\ UNCHANGED part
  /\ \/ part = "tokens" /\ Next /\ UNCHANGED routingVars
     \/ part = "routing" /\ RoutingNext /\ UNCHANGED vars

BackendSpec ==
  /\ BackendInit /\ [][BackendNext]_backendVars
  /\ part = "tokens" => Fairness
  /\ part = "routing" => RoutingFairness
=============================================================================
