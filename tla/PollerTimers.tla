---------------------------- MODULE PollerTimers ----------------------------
(***************************************************************************)
(* The scheduling half of the Poller (server/poller.ts) and the calls that *)
(* drive it: start(), stop(), reconfigure(), nudge() and the boot sequence *)
(* of backend.ts.  Four self-re-arming setTimeout chains share one process *)
(* with the initial kick, the boot sweep and webhook nudges; every cycle   *)
(* runs under a re-entrancy latch.  What a cycle does to the dashboard's   *)
(* data is the subject of PollerIngest.                                    *)
(*                                                                         *)
(* JavaScript runs to completion between awaits, so one action is one      *)
(* synchronous stretch.  A run that passed a latch, and a settled run, wait*)
(* for a microtask; their next step is an action of its own.               *)
(***************************************************************************)
EXTENDS Integers, FiniteSets

CONSTANTS
    Chains,         \* the timer chains of this instance
    Slots,          \* bound: how many runs may be in progress at once
    MaxGeneration   \* bound: how far `generation` counts

AllChains == {"sweep", "hotDetail", "hotQueue", "deploy"}

ASSUME ChainsAssumption == Chains \subseteq AllChains
ASSUME MaxGenerationAssumption == MaxGeneration \in Nat
ASSUME SlotsAssumption == IsFiniteSet(Slots)

VARIABLES
    running,      \* this.running
    generation,   \* this.generation
    timers,       \* this.timers: how many timers are armed per chain and generation
    runs,         \* the runCycle calls in progress, one per slot
    inFlight      \* this.inFlight: the latches held

vars == <<running, generation, timers, runs, inFlight>>

Gens == 0 .. MaxGeneration
Cycles == {"sweep", "detail", "queue", "deploy"}

\* The cycles a chain's function calls one after the other: sweepAndRefresh
\* is a sweep followed by a full detail refresh, the other chains are one cycle.
FirstCycle(c) == CASE c = "sweep" -> "sweep"
                   [] c = "hotDetail" -> "detail"
                   [] c = "hotQueue" -> "queue"
                   [] c = "deploy" -> "deploy"
ThenCycle(c) == IF c = "sweep" THEN "detail" ELSE "none"

(* A run: the chain that re-arms when it settles ("once": kick, nudge, boot
   sweep), the generation current when it was launched, the cycle it is in,
   the cycle that follows, and where it stands:
     busy     inside the cycle, holding its latch;
     passed   out of its first cycle (done, or skipped because the latch was
              held), about to call the next one;
     settled  a chain's run is over, its finally() has not run yet.
   A "once" run that is over has nothing left to do and frees its slot.      *)
Run == [chain: Chains \union {"once"}, gen: Gens, cycle: Cycles,
        then: Cycles \union {"none"}, pc: {"free", "busy", "passed", "settled"}]

NoRun == [chain |-> "once", gen |-> 0, cycle |-> "sweep", then |-> "none", pc |-> "free"]

Live(s) == runs[s].pc # "free"
FreeSlots == {s \in Slots : ~Live(s)}

TypeOK ==
    /\ running \in BOOLEAN
    /\ generation \in Gens
    /\ timers \in [Chains -> [Gens -> Nat]]
    /\ runs \in [Slots -> Run]
    /\ inFlight \subseteq Cycles

Init ==
    /\ running = FALSE
    /\ generation = 0
    /\ timers = [c \in Chains |-> [g \in Gens |-> 0]]
    /\ runs = [s \in Slots |-> NoRun]
    /\ inFlight = {}

-----------------------------------------------------------------------------

\* What becomes of a run when its cycle returned normally, and when it is over.
Ended(r) == IF r.chain = "once" THEN NoRun ELSE [r EXCEPT !.pc = "settled"]
Returned(r) == IF r.then = "none" THEN Ended(r) ELSE [r EXCEPT !.pc = "passed"]

\* A run that calls withLatch(cycle) while the latches `held` are taken: the
\* cycle is skipped when its latch is among them.
Entering(chain, gen, cycle, then, held) ==
    LET r == [chain |-> chain, gen |-> gen, cycle |-> cycle, then |-> then, pc |-> "busy"]
    IN IF cycle \in held THEN Returned(r) ELSE r

\* Variant (not the code): a chain whose last run is still in progress is left for
\* that run to re-arm.
ArmWhereIdle(t, g) == [c \in Chains |->
    IF \E s \in Slots : runs[s].chain = c THEN t[c] ELSE [t[c] EXCEPT ![g] = @ + 1]]

\* Generation g's arm() closures, called once for every chain by start().
ArmAll(t, g) == [c \in Chains |-> [t[c] EXCEPT ![g] = @ + 1]]

NoTimers == [c \in Chains |-> [g \in Gens |-> 0]]

\* start() when not running, with the initial kick in slot s.
StartWith(g, t, s, rs, held) ==
    /\ running' = TRUE
    /\ generation' = g
    /\ timers' = ArmAll(t, g)
    /\ runs' = [rs EXCEPT ![s] = Entering("once", g, "sweep", "detail", held)]
    /\ inFlight' = held \union {"sweep"}

(* startPoller of the backend: the boot sweep is launched first, without
   waiting for it, then start() is called, which returns early when running.
   The boot sweep has taken the sweep latch by the time the kick asks for it. *)
StartPoller ==
    \E s1, s2 \in FreeSlots :
        LET boot == [runs EXCEPT ![s1] = Entering("once", generation, "sweep", "none", inFlight)]
        IN /\ s1 # s2
           /\ Cardinality(FreeSlots) > Cardinality(Chains) + 1
           /\ IF running
                THEN /\ runs' = boot
                     /\ inFlight' = inFlight \union {"sweep"}
                     /\ UNCHANGED <<running, generation, timers>>
                ELSE /\ generation < MaxGeneration
                     /\ StartWith(generation + 1, timers, s2, boot, inFlight \union {"sweep"})

\* Variant (not the code): the armed timers are not cleared.
StopKeepsTimers ==
    /\ generation < MaxGeneration
    /\ running' = FALSE
    /\ generation' = generation + 1
    /\ UNCHANGED <<timers, runs, inFlight>>

Stop ==
    /\ generation < MaxGeneration
    /\ running' = FALSE
    /\ generation' = generation + 1
    /\ timers' = NoTimers
    /\ UNCHANGED <<runs, inFlight>>

\* Variant (not the code): the restart does not open a new generation.
ReconfigureInPlace ==
    /\ running
    /\ Cardinality(FreeSlots) > Cardinality(Chains)
    /\ \E s \in FreeSlots : StartWith(generation, NoTimers, s, runs, inFlight)

\* reconfigure() of a running poller: stop() then start() in one stretch.  Of a
\* stopped one it only swaps the configuration, which is no state of this module.
Reconfigure ==
    /\ running
    /\ generation + 2 <= MaxGeneration
    /\ Cardinality(FreeSlots) > Cardinality(Chains)
    /\ \E s \in FreeSlots : StartWith(generation + 2, NoTimers, s, runs, inFlight)

\* A timer's callback: it leaves the set, bails when its generation is stale,
\* and otherwise runs its chain's cycle.
TimerFires(c, g) ==
    /\ timers[c][g] > 0
    /\ timers' = [timers EXCEPT ![c][g] = @ - 1]
    /\ IF g = generation
         THEN \E s \in FreeSlots :
                /\ runs' = [runs EXCEPT ![s] =
                              Entering(c, g, FirstCycle(c), ThenCycle(c), inFlight)]
                /\ inFlight' = inFlight \union {FirstCycle(c)}
         ELSE UNCHANGED <<runs, inFlight>>
    /\ UNCHANGED <<running, generation>>

\* routeEvent: what a delivery asks for; named is what its payload names.
RouteEvent(event, named) ==
    CASE event \in {"pull_request", "check_run", "check_suite"} ->
             IF named = {"repository", "number"} THEN "pr-detail" ELSE "sweep"
      [] event = "merge_group"  -> IF "repository" \in named THEN "queue" ELSE "sweep"
      [] event = "workflow_run" -> "sweep"
      [] OTHER                  -> "ignored"

\* nudge(): the cycle of a route, and the one after it; a pull request that is not
\* tracked is left to a sweep to discover.
CyclesOf(route, tracked) ==
    CASE route = "queue"                 -> <<"queue", "none">>
      [] route = "pr-detail" /\ tracked -> <<"detail", "none">>
      [] OTHER                           -> <<"sweep", "detail">>

\* The webhook endpoint passes on the signed deliveries that are not ignored.
Deliveries ==
    {d \in [event  : {"pull_request", "check_run", "check_suite", "merge_group", "workflow_run", "other"},
            named  : SUBSET {"repository", "number"}, signed : BOOLEAN, tracked : BOOLEAN] :
       d.signed /\ RouteEvent(d.event, d.named) # "ignored"}
NudgeBodies == {CyclesOf(RouteEvent(d.event, d.named), d.tracked) : d \in Deliveries}

\* A delivery runs one cycle out of band (or sweep-and-refresh), never to re-arm.
\* The bound leaves a slot to every armed timer.
Nudge ==
    /\ Cardinality(FreeSlots) > Cardinality(Chains)
    /\ \E s \in FreeSlots, body \in NudgeBodies :
          /\ runs' = [runs EXCEPT ![s] = Entering("once", generation, body[1], body[2], inFlight)]
          /\ inFlight' = inFlight \union {body[1]}
    /\ UNCHANGED <<running, generation, timers>>

\* Variant (not the code): the latch is released on success only, not in a finally.
CycleEndsLeaky(s) ==
    /\ runs[s].pc = "busy"
    /\ \/ /\ runs' = [runs EXCEPT ![s] = Returned(runs[s])]
          /\ inFlight' = inFlight \ {runs[s].cycle}
       \/ /\ runs' = [runs EXCEPT ![s] = Ended(runs[s])]
          /\ UNCHANGED inFlight
    /\ UNCHANGED <<running, generation, timers>>

\* The cycle's promise settles: withLatch's finally drops the latch; a rejection
\* skips whatever was to follow and is contained by runCycle.
CycleEnds(s) ==
    /\ runs[s].pc = "busy"
    /\ inFlight' = inFlight \ {runs[s].cycle}
    /\ \E outcome \in {Returned(runs[s]), Ended(runs[s])} : runs' = [runs EXCEPT ![s] = outcome]
    /\ UNCHANGED <<running, generation, timers>>

\* sweepAndRefresh goes on from its sweep, done or skipped, to the detail cycle.
Proceed(s) ==
    /\ runs[s].pc = "passed"
    /\ runs' = [runs EXCEPT ![s] =
          Entering(runs[s].chain, runs[s].gen, runs[s].then, "none", inFlight)]
    /\ inFlight' = inFlight \union {runs[s].then}
    /\ UNCHANGED <<running, generation, timers>>

\* Variant (not the code): a chain does not wait again while its cycle is in
\* flight on someone else's behalf.
SettleUnlessBusy(s) ==
    LET r == runs[s]
        rearms == running /\ r.gen = generation /\ FirstCycle(r.chain) \notin inFlight
    IN /\ r.pc = "settled"
       /\ runs' = [runs EXCEPT ![s] = NoRun]
       /\ timers' = IF rearms THEN [timers EXCEPT ![r.chain][r.gen] = @ + 1] ELSE timers
       /\ UNCHANGED <<running, generation, inFlight>>

\* .finally(arm): a chain's run re-arms its timer unless the poller stopped or
\* its generation is over.
Settle(s) ==
    LET r == runs[s]
        rearms == running /\ r.gen = generation
    IN /\ r.pc = "settled"
       /\ runs' = [runs EXCEPT ![s] = NoRun]
       /\ timers' = IF rearms THEN [timers EXCEPT ![r.chain][r.gen] = @ + 1] ELSE timers
       /\ UNCHANGED <<running, generation, inFlight>>

Next ==
    \/ StartPoller
    \/ Stop
    \/ Reconfigure
    \/ Nudge
    \/ \E c \in Chains, g \in Gens : TimerFires(c, g)
    \/ \E s \in Slots : CycleEnds(s) \/ Proceed(s) \/ Settle(s)

Spec == Init /\ [][Next]_vars

\* Timers expire, microtasks run, and every fetch is answered or fails.
Fairness ==
    /\ \A c \in Chains, g \in Gens : WF_vars(TimerFires(c, g))
    /\ \A s \in Slots : WF_vars(CycleEnds(s)) /\ WF_vars(Proceed(s)) /\ WF_vars(Settle(s))

FairSpec == Spec /\ Fairness

-----------------------------------------------------------------------------
\* Every timer that is armed belongs to the current generation of a running
\* poller: stop() and reconfigure() leave nothing behind that could fire.
TimersAreCurrent ==
    \A c \in Chains, g \in Gens :
        timers[c][g] > 0 => running /\ g = generation

\* A run of chain c launched by generation g.
RunOf(s, c, g) == Live(s) /\ runs[s].chain = c /\ runs[s].gen = g

\* No chain is ever duplicated: while the poller runs, each chain of the current
\* generation is either one armed timer or one run that has yet to settle, never
\* both and never two (the comment of start() on duplicate self-perpetuating
\* chains).
OneChainEach ==
    /\ \A c \in Chains, g \in Gens :
        /\ timers[c][g] <= 1
        /\ timers[c][g] = 1 => \A s \in Slots : ~RunOf(s, c, g)
        /\ \A s, t \in Slots : RunOf(s, c, g) /\ RunOf(t, c, g) => s = t
    /\ running => \A c \in Chains :
                     timers[c][generation] = 1 \/ \E s \in Slots : RunOf(s, c, generation)

\* withLatch: a latch is held exactly while one run is inside that cycle, so two
\* cycles of a kind never overlap and no latch is left behind by a failure, a
\* stop or a restart.
LatchesAreOwned ==
    /\ \A k \in inFlight : \E s \in Slots : runs[s].pc = "busy" /\ runs[s].cycle = k
    /\ \A s \in Slots : runs[s].pc = "busy" => runs[s].cycle \in inFlight
    /\ \A s, t \in Slots :
        runs[s].pc = "busy" /\ runs[t].pc = "busy" /\ runs[s].cycle = runs[t].cycle => s = t

\* The run in slot s is a sweep that began in generation g or later.
SweepSince(s, g) == runs[s].pc = "busy" /\ runs[s].cycle = "sweep" /\ runs[s].gen >= g

\* A configuration is acted on: after every (re)start, if that generation
\* lasts, a sweep eventually begins under it, also when the immediate one was
\* dropped because an older sweep held the latch.
ConfigurationTakesEffect ==
    \A g \in Gens : (running /\ generation = g)
                      ~> (generation # g \/ \E s \in Slots : SweepSince(s, g))

-----------------------------------------------------------------------------
\* As a periodic task a chain is off while the poller is stopped, waiting while
\* this generation's timer is armed, and busy while its run is under way.
TaskState == [c \in Chains |->
    IF ~running THEN "off" ELSE IF timers[c][generation] > 0 THEN "waiting" ELSE "busy"]

Tasks == INSTANCE PeriodicTasks WITH Tasks <- Chains, state <- TaskState

\* The chains with their timers, generations, latches and runs in flight amount
\* to a set of periodic tasks: starting, stopping and hot-applying acts on all
\* of them at once, and a tick never follows a tick without its tock.
ImplementsPeriodicTasks == Tasks!TSpec

\* Each chain keeps ticking for as long as the poller is on, whatever failed or
\* was skipped in its last run.
ChainsKeepTicking == Tasks!TFairness

=============================================================================
