-------------------------------- MODULE Alerts --------------------------------
(***************************************************************************)
(* The repository-level alerts: a stalled merge queue, duration            *)
(* regressions, starving runner pools and breached budgets.  Each has a    *)
(* source of truth outside, a cache in the poller (src/server/poller.ts)   *)
(* and a debounce key in the notifier (src/server/notifier.ts), which have *)
(* to agree: a new episode is announced once, and only then.               *)
(*                                                                         *)
(* One repository.  Series are (check, event) pairs, Pools runner pools,   *)
(* Kinds budget kinds.                                                     *)
(***************************************************************************)
EXTENDS Notifier, Integers

CONSTANTS Series, Pools, Kinds

VARIABLES
  queue,        \* GitHub: the merge queue, as a poll of it would classify it
  samples,      \* history: what each series' newest 30 durations amount to
  waits,        \* history: the pickup waits of each pool
  over,         \* the budget kinds whose spend is at or over the threshold
  budgets,      \* the workspace: the budget kinds that are configured
  excluded,     \* configuration: is the repository excluded?
  muted,        \* configuration: the event types switched off
  entries,      \* Poller.queueEntries: the queue as last fetched, or Unset
  queuedRow,    \* does a row of Poller.prs carry a queue entry?
  healthSince,  \* Poller.queueHealthSince: the last classified state, or Unset
  regressions,  \* Poller.durationRegressions: the active series
  starvation,   \* Poller.poolStarvation: evaluated pool |-> starving
  active,       \* Notifier.active
  fired         \* what the last step sent to the sinks

alertVars == <<queue, samples, waits, over, budgets, excluded, muted, entries,
               queuedRow, healthSince, regressions, starvation, active, fired>>
outside == <<queue, samples, waits, over>>
settings == <<budgets, excluded, muted>>
caches  == <<entries, queuedRow, healthSince, regressions, starvation>>

Unset == "unset"
QueueStates == {"empty", "healthy", "cap-backlog", "dispatch-stall"}
StallKey      == Key("queue", "queue-stalled")
SlowKey(s)    == Key(s, "duration-regression")
StarvedKey(p) == Key(p, "runner-starvation")
BreachKey(k)  == Key(k, "budget-breach")

(***************************************************************************)
(* The estimators behind the scans.  A measurement holds the two medians   *)
(* of a series, in seconds; an absent one has too few samples or none in   *)
(* two weeks.  A pool has the ninetieth percentiles of the last hour and   *)
(* of the week before, and the number of samples of the last hour.         *)
(***************************************************************************)
Absent == [prior |-> 0, recent |-> 0]
Measured == {Absent, [prior |-> 100, recent |-> 100], [prior |-> 100, recent |-> 130],
             [prior |-> 100, recent |-> 160], [prior |-> 100, recent |-> 150]}
FlagsRegression(m) == 2 * m.recent >= 3 * m.prior /\ m.recent - m.prior >= 60
HoldsRegression(m) == 5 * m.recent >= 6 * m.prior

NoWaits == [hour |-> 0, base |-> 0, n |-> 0, known |-> FALSE]
Waits(hour, base, n) == [hour |-> hour, base |-> base, n |-> n, known |-> TRUE]
PoolWaits == {NoWaits, Waits(0, 100, 0), Waits(350, 100, 5), Waits(500, 100, 5),
              Waits(500, 100, 4), Waits(500, 200, 5)}
StarvationFloor == 300
Larger(a, b) == IF a >= b THEN a ELSE b
EntersStarvation(w) == w.n >= 5 /\ w.hour > Larger(StarvationFloor, 4 * w.base)
HoldsStarvation(w)  == w.n > 0 /\ w.hour >= Larger(StarvationFloor, 2 * w.base)
NextStarving(w, was) == EntersStarvation(w) \/ (was /\ HoldsStarvation(w))

AlertInit ==
  /\ queue = "empty" /\ over = {} /\ budgets = {} /\ excluded = FALSE /\ muted = {}
  /\ samples = [s \in Series |-> Absent] /\ waits = [p \in Pools |-> NoWaits]
  /\ entries = Unset /\ queuedRow = FALSE /\ healthSince = Unset
  /\ regressions = {} /\ starvation = [p \in {} |-> FALSE] /\ active = {} /\ fired = {}

(***************************************************************************)
(* What moves outside, and what the operator changes.                      *)
(***************************************************************************)
Outside(moved) == moved /\ fired' = {} /\ UNCHANGED <<settings, caches, active>>
QueueMoves == \E q \in QueueStates \ {queue} :
  Outside(queue' = q /\ UNCHANGED <<samples, waits, over>>)
SamplesMove == \E s \in Series, m \in Measured :
  Outside(samples' = [samples EXCEPT ![s] = m] /\ UNCHANGED <<queue, waits, over>>)
WaitsMove == \E p \in Pools, w \in PoolWaits :
  Outside(waits' = [waits EXCEPT ![p] = w] /\ UNCHANGED <<queue, samples, over>>)
SpendMoves == \E S \in SUBSET Kinds :
  Outside(over' = S /\ UNCHANGED <<queue, samples, waits>>)

Saved(changed) == changed /\ fired' = {} /\ UNCHANGED <<outside, caches, active>>
ToggleExclude == Saved(excluded' = ~excluded /\ UNCHANGED <<budgets, muted>>)
ToggleType == \E t \in RepoTypes :
  Saved(/\ muted' = IF t \in muted THEN muted \ {t} ELSE muted \cup {t}
        /\ UNCHANGED <<budgets, excluded>>)
SetBudgets == \E S \in SUBSET Kinds : Saved(budgets' = S /\ UNCHANGED <<excluded, muted>>)

(***************************************************************************)
(* The merge queue.                                                        *)
(***************************************************************************)
\* The sweep and the detail cycle move rows in and out of the queue.
RowMoves ==
  /\ queuedRow' = (queue # "empty") /\ queuedRow' # queuedRow /\ fired' = {}
  /\ UNCHANGED <<outside, settings, entries, healthSince, regressions, starvation, active>>

\* emitUpdate: the view of a queue with entries is classified and fed.
Emitted(seen) ==
  IF seen \in {Unset, "empty"} THEN fired' = {} /\ UNCHANGED <<healthSince, active>>
  ELSE /\ healthSince' = seen
       /\ active' = FedKeys(active, StallKey, seen = "dispatch-stall")
       /\ fired' = Fired(FedNews(active, StallKey, seen = "dispatch-stall"), muted)

\* queueImpl: only the queue of a repository with a queued row is fetched.
QueueCycle ==
  /\ IF queuedRow THEN entries' = queue \/ entries' = entries ELSE UNCHANGED entries
  /\ Emitted(entries')
  /\ UNCHANGED <<outside, settings, queuedRow, regressions, starvation>>

\* The end of a sweep: pruneCaches, then the update it emits.
SweepEnds ==
  /\ entries' = IF queuedRow THEN entries ELSE Unset
  /\ IF entries' = Unset
     THEN healthSince' = Unset /\ active' = PrunedKeys(active, {}) /\ fired' = {}
     ELSE Emitted(entries')
  /\ UNCHANGED <<outside, settings, queuedRow, regressions, starvation>>

(***************************************************************************)
(* The hourly scans.                                                       *)
(***************************************************************************)
Candidates == IF excluded THEN {} ELSE {s \in Series : samples[s] # Absent}
Slow == {s \in Candidates : \/ FlagsRegression(samples[s])
                            \/ s \in regressions /\ HoldsRegression(samples[s])}

\* Variant (not the code): a series that left the candidates keeps its key.
ClearedRegressionsNone == {}

\* Evaluated and not slow, or active before and not evaluated any more.
ClearedRegressions == (Candidates \ Slow) \cup (regressions \ Candidates)

ScanDurationRegressions ==
  /\ regressions' = Slow
  /\ active' = (active \ {SlowKey(s) : s \in ClearedRegressions}) \cup {SlowKey(s) : s \in Slow}
  /\ fired' = Fired({SlowKey(s) : s \in Slow} \ active, muted)
  /\ UNCHANGED <<outside, settings, entries, queuedRow, healthSince, starvation>>

Evaluated == IF excluded THEN {} ELSE {p \in Pools : waits[p].known}
WasStarving(p) == p \in DOMAIN starvation /\ starvation[p]
Starving == {p \in Evaluated : NextStarving(waits[p], WasStarving(p))}

\* Variant (not the code): a pool that left while it starved is not told to clear.
StillFed == Evaluated \cup {p \in DOMAIN starvation : ~starvation[p]}

\* The pools the notifier is told of: evaluated now, or known from before.
FedPools == Evaluated \cup DOMAIN starvation

ScanRunnerStarvation ==
  /\ starvation' = [p \in Evaluated |-> p \in Starving]
  /\ active' = (active \ {StarvedKey(p) : p \in FedPools \ Starving})
                 \cup {StarvedKey(p) : p \in Starving}
  /\ fired' = Fired({StarvedKey(p) : p \in Starving} \ active, muted)
  /\ UNCHANGED <<outside, settings, entries, queuedRow, healthSince, regressions>>

(***************************************************************************)
(* Budgets: checkBudgets in src/server/backend.ts, on a timer.             *)
(***************************************************************************)
CheckBudgets ==
  /\ budgets # {}
  /\ active' = (active \ {BreachKey(k) : k \in budgets \ over})
                 \cup {BreachKey(k) : k \in budgets \cap over}
  /\ fired' = Fired({BreachKey(k) : k \in budgets \cap over} \ active, muted)
  /\ UNCHANGED <<outside, settings, caches>>

\* A restart: the caches and the keys are gone; the history and the settings stay.
AlertRestart ==
  /\ entries' = Unset /\ queuedRow' = FALSE /\ healthSince' = Unset /\ regressions' = {}
  /\ starvation' = [p \in {} |-> FALSE] /\ active' = {} /\ fired' = {}
  /\ UNCHANGED <<outside, settings>>

\* The lanes share only the set of keys, in which each has keys of its own.
QueueLane  == QueueMoves \/ RowMoves \/ QueueCycle \/ SweepEnds \/ ToggleType \/ AlertRestart
SeriesLane == SamplesMove \/ ToggleExclude \/ ScanDurationRegressions \/ AlertRestart
PoolLane   == WaitsMove \/ ToggleExclude \/ ScanRunnerStarvation \/ AlertRestart
BudgetLane == SpendMoves \/ SetBudgets \/ CheckBudgets \/ AlertRestart
AlertNext  == QueueLane \/ SeriesLane \/ PoolLane \/ BudgetLane
AlertSpec  == AlertInit /\ [][AlertNext]_alertVars

-------------------------------------------------------------------------------
\* The debounce keys are exactly the episodes the poller believes are going on,
\* however series and pools come, go, are excluded and return: a key left behind
\* would silence the next episode, a missing one would repeat this one
\* (scanDurationRegressions, scanRunnerStarvation).
KeysAreEpisodes ==
  /\ \A s \in Series : SlowKey(s) \in active <=> s \in regressions
  /\ \A p \in Pools : StarvedKey(p) \in active <=> WasStarving(p)
===============================================================================
