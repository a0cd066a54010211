---------------------------- MODULE PeriodicTasks ----------------------------
(***************************************************************************)
(* What the timer chains of the Poller promise together: a set of periodic *)
(* tasks that are switched on and off as one, each waiting for its next    *)
(* tick or busy with the current one.  PollerTimers implements it.         *)
(***************************************************************************)
CONSTANT Tasks

VARIABLE state   \* [Tasks -> {"off", "waiting", "busy"}]

TInit == state = [t \in Tasks |-> "off"]

AllOff == \A t \in Tasks : state[t] = "off"

SwitchOn  == AllOff /\ state' = [t \in Tasks |-> "waiting"]
SwitchOff == state' = [t \in Tasks |-> "off"]
\* A restart abandons the current ticks and waits for new ones.
Restart   == (\A t \in Tasks : state[t] # "off") /\ state' = [t \in Tasks |-> "waiting"]
Tick(t)   == state[t] = "waiting" /\ state' = [state EXCEPT ![t] = "busy"]
Tock(t)   == state[t] = "busy" /\ state' = [state EXCEPT ![t] = "waiting"]

TNext == SwitchOn \/ SwitchOff \/ Restart \/ \E t \in Tasks : Tick(t) \/ Tock(t)

TSpec == TInit /\ [][TNext]_state

TFairness == \A t \in Tasks : WF_state(Tick(t)) /\ WF_state(Tock(t))

TFairSpec == TSpec /\ TFairness
=============================================================================
