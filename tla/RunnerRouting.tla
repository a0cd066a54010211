---------------------------- MODULE RunnerRouting ---------------------------
(***************************************************************************)
(* The runner-routing controller (src/server/runner-routing.ts) and the    *)
(* gh calls it is given (src/server/backend.ts): while routing is enabled  *)
(* the Actions variable RUNNER_MAP follows the computed plan; disabling it *)
(* is a kill switch, after which the variable must be gone.                *)
(*                                                                         *)
(* A gh call is started by one step, takes effect on GitHub in a second    *)
(* and its outcome is handled in a third, so configuration changes and     *)
(* restarts fall in between.  canonicalMap is injective up to the order of *)
(* keys, so a map and its hash are one value.                              *)
(***************************************************************************)
EXTENDS Naturals, FiniteSets

CONSTANTS Maps,      \* the maps computeRunnerPlan may return
          Swallows,  \* deleteVar hides its errors (as backend.ts wires it)
          Ambiguous, \* a call reported as failed may have taken effect
          CanRestart \* whether the process may restart

Absent  == "absent"   \* the variable does not exist
Unknown == "unknown"  \* lastPushedHash is null

ASSUME RoutingAssumption ==
  /\ Absent \notin Maps /\ Unknown \notin Maps
  /\ Swallows \in BOOLEAN /\ Ambiguous \in BOOLEAN /\ CanRestart \in BOOLEAN

VARIABLES
  enabled,        \* config.runnerRouting.enabled
  plan,           \* the map compute() returns now
  variable,       \* GitHub: the value of RUNNER_MAP
  lastPushedHash, \* state.lastPushedHash
  cooling,        \* less than MIN_REPUSH_MS since state.lastPushedAt
  deletedOnce,    \* deletedOnce
  inFlight,       \* inFlight # null
  ghCalls         \* gh calls that were started and are not handled yet

routingVars == <<enabled, plan, variable, lastPushedHash, cooling, deletedOnce,
                 inFlight, ghCalls>>
config == <<enabled, plan>>
state  == <<lastPushedHash, cooling, deletedOnce, inFlight>>

Outcomes == {"pending", "ok", "error"}
GhCall(op, map, outcome) == [op |-> op, map |-> map, outcome |-> outcome]

RoutingInit ==
  /\ enabled = FALSE /\ plan \in Maps
  /\ variable \in Maps \cup {Absent}
  /\ lastPushedHash \in {Unknown} \cup (Maps \cap {variable})
  /\ cooling = FALSE /\ deletedOnce = FALSE
  /\ inFlight = FALSE /\ ghCalls = {}

(***************************************************************************)
(* The operator and the measurements.                                      *)
(***************************************************************************)
\* PUT /api/runner-routing or an edit of the file: seen by the next tick.
SetEnabled ==
  /\ enabled' = ~enabled
  /\ UNCHANGED <<plan, variable, state, ghCalls>>

\* New overrides, a new threshold or new measurements change the plan.
PlanChanges ==
  /\ \E m \in Maps \ {plan} : plan' = m
  /\ UNCHANGED <<enabled, variable, state, ghCalls>>

(***************************************************************************)
(* One poll cycle: tick() and the part of run() before its first await.    *)
(***************************************************************************)
Start(op, map) ==
  /\ ghCalls' = ghCalls \cup {GhCall(op, map, "pending")}
  /\ inFlight' = TRUE

TickDisabled ==
  /\ ~enabled /\ ~deletedOnce
  /\ Start("delete", Absent)
  /\ UNCHANGED <<config, variable, lastPushedHash, cooling, deletedOnce>>

TickEnabled ==
  /\ enabled
  /\ deletedOnce' = FALSE
  /\ IF plan = lastPushedHash \/ cooling
     THEN UNCHANGED <<ghCalls, inFlight>>
     ELSE Start("write", plan)
  /\ UNCHANGED <<config, variable, lastPushedHash, cooling>>

Tick == ~inFlight /\ (TickDisabled \/ TickEnabled)

(***************************************************************************)
(* GitHub.                                                                 *)
(***************************************************************************)
\* The call takes effect.  Deleting what is absent is an error of gh; an
\* ambiguous failure reports an error all the same.
Lands(c) ==
  /\ c.outcome = "pending"
  /\ variable' = c.map
  /\ \E o \in {"ok", "error"} :
       /\ o = "error" => Ambiguous \/ (c.op = "delete" /\ variable = Absent)
       /\ o = "ok" => ~(c.op = "delete" /\ variable = Absent)
       /\ ghCalls' = (ghCalls \ {c}) \cup {[c EXCEPT !.outcome = o]}
  /\ UNCHANGED <<config, state>>

\* The call fails without an effect.
Lost(c) ==
  /\ c.outcome = "pending"
  /\ ghCalls' = (ghCalls \ {c}) \cup {[c EXCEPT !.outcome = "error"]}
  /\ UNCHANGED <<config, variable, state>>

(***************************************************************************)
(* The rest of run(): the outcome of the call.                             *)
(***************************************************************************)
Settled(c) ==
  /\ c \in ghCalls /\ c.outcome # "pending"
  /\ ghCalls' = ghCalls \ {c} /\ inFlight' = FALSE
  /\ UNCHANGED <<config, variable>>

\* Variant (not the code): the hash survives the delete.
DeleteSettlesKeepingHash(c) ==
  /\ c.op = "delete" /\ Settled(c)
  /\ IF c.outcome = "ok" \/ Swallows
     THEN deletedOnce' = TRUE
     ELSE UNCHANGED deletedOnce
  /\ UNCHANGED <<cooling, lastPushedHash>>

DeleteSettles(c) ==
  /\ c.op = "delete" /\ Settled(c)
  /\ IF c.outcome = "ok" \/ Swallows
     THEN lastPushedHash' = Unknown /\ deletedOnce' = TRUE
     ELSE UNCHANGED <<lastPushedHash, deletedOnce>>
  /\ UNCHANGED cooling

\* Variant (not the code): the hash is recorded whatever the outcome.
WriteSettlesAlways(c) ==
  /\ c.op = "write" /\ Settled(c)
  /\ lastPushedHash' = c.map /\ cooling' = TRUE
  /\ UNCHANGED deletedOnce

\* lastPushedAt is the time the tick began, so the pause may be over already.
WriteSettles(c) ==
  /\ c.op = "write" /\ Settled(c)
  /\ IF c.outcome = "ok"
     THEN lastPushedHash' = c.map /\ cooling' \in BOOLEAN
     ELSE UNCHANGED <<lastPushedHash, cooling>>
  /\ UNCHANGED deletedOnce

Cools ==
  /\ cooling /\ cooling' = FALSE
  /\ UNCHANGED <<config, variable, lastPushedHash, deletedOnce, inFlight, ghCalls>>

\* The process dies with the call it waits for, which has or has not landed
\* (the service manager ends the gh child with its parent), and starts again:
\* init() reads the variable, or fails to.
Restart ==
  /\ CanRestart
  /\ lastPushedHash' \in {Unknown} \cup (Maps \cap {variable})
  /\ cooling' = FALSE /\ deletedOnce' = FALSE
  /\ inFlight' = FALSE /\ ghCalls' = {}
  /\ UNCHANGED <<config, variable>>

Settle == \E c \in ghCalls : DeleteSettles(c) \/ WriteSettles(c)
Answer == \E c \in ghCalls : Lands(c) \/ Lost(c)

RoutingNext == SetEnabled \/ PlanChanges \/ Tick \/ Answer \/ Settle \/ Cools \/ Restart

RoutingSpec == RoutingInit /\ [][RoutingNext]_routingVars

\* Every poll cycle that emits an update ticks the controller, and an update
\* is emitted at least once in every keepalive window; a gh call ends; time
\* passes; calls stop failing and the process stops restarting in the end.
Fault == Restart \/ \E c \in ghCalls : Lost(c)

RoutingFairness ==
  /\ WF_routingVars(Tick) /\ WF_routingVars(Answer) /\ WF_routingVars(Settle) /\ WF_routingVars(Cools)
  /\ <>[][~Fault]_routingVars

RoutingFairSpec == RoutingSpec /\ RoutingFairness

-----------------------------------------------------------------------------
\* The values the controller's state and the variable take; the hash is never
\* that of an absent variable.
RoutingTyped ==
  /\ enabled \in BOOLEAN /\ plan \in Maps
  /\ variable \in Maps \cup {Absent}
  /\ lastPushedHash \in Maps \cup {Unknown}
  /\ cooling \in BOOLEAN /\ deletedOnce \in BOOLEAN /\ inFlight \in BOOLEAN
  /\ ghCalls \subseteq
       [op : {"write"}, map : Maps, outcome : Outcomes]
         \cup [op : {"delete"}, map : {Absent}, outcome : Outcomes]

\* At most one gh call is out, however ticks, configuration changes and slow
\* calls overlap: tick() joins the run in flight "rather than spawning a
\* second write".
SingleInFlight == \A c, d \in ghCalls : c = d

\* Between two calls the hash the controller compares the plan with is the
\* variable GitHub holds: "no change since last push" never skips a write
\* that is needed (without ambiguous failures).
HashIsLive ==
  (~inFlight /\ lastPushedHash # Unknown) => variable = lastPushedHash

\* Once routing is disabled for good the variable is deleted for good ("a kill
\* switch must CONVERGE to deleted"), whatever write was under way.
KillSwitchConverges == <>[]~enabled => <>[](variable = Absent)

\* Once routing is enabled for good with a plan that no longer changes, the
\* variable holds that plan for good.
PlanConverges ==
  \A m \in Maps : <>[](enabled /\ plan = m) => <>[](variable = m)
=============================================================================
