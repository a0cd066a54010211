-------------------------------- MODULE Costs --------------------------------
(***************************************************************************)
(* What the runners cost: the rate of a pool (src/server/config.ts), the   *)
(* rate derived from the imported bills, the cost sections of the metrics  *)
(* payload and the cost lane of the board (src/server/metrics.ts).         *)
(*                                                                         *)
(* A row is a finished job: [repo, name, event, pool, hosted, minutes,     *)
(* day, started, retry, run]; pool and hosted are what resolvePool says of *)
(* it, started whether it began inside the window, run the workflow run it *)
(* belongs to (Unknown for old rows).  A bill is [scope, day, dollars].    *)
(* Dollars are fractions <<numerator, denominator>>; a figure that may be  *)
(* null is a set of at most one fraction.                                  *)
(***************************************************************************)
EXTENDS Naturals, FiniteSets, FiniteSetsExt

Unknown == "unknown"
Zero    == <<0, 1>>
Plus(a, b)  == IF a[2] = b[2] THEN <<a[1] + b[1], a[2]>>
               ELSE <<a[1] * b[2] + b[1] * a[2], a[2] * b[2]>>
Times(n, a) == <<n * a[1], a[2]>>
Equal(a, b) == a[1] * b[2] = b[1] * a[2]
AtMost(a, b) == a[1] * b[2] <= b[1] * a[2]
Total(f(_), S) == MapThenFoldSet(Plus, Zero, f, LAMBDA T : CHOOSE x \in T : TRUE, S)
Minutes(R)     == MapThenSumSet(LAMBDA r : r.minutes, R)

(***************************************************************************)
(* Rates.  rates is [costs |-> pool -> dollars, meta |-> pool -> entry]    *)
(* with partial functions; an entry has dollars (a set of at most one) and *)
(* pods, 0 when it is not given.                                           *)
(***************************************************************************)
MetaRate(rates, pool) == IF pool \in DOMAIN rates.meta THEN rates.meta[pool].dollars ELSE {}
FlatRate(rates, pool) == {rates.costs[p] : p \in {pool} \cap DOMAIN rates.costs}
PodsOf(rates, pool)   ==
  LET packed == {p \in {pool, "default"} \cap DOMAIN rates.meta : rates.meta[p].pods # 0}
  IN CASE packed = {}    -> 1
       [] pool \in packed -> rates.meta[pool].pods
       [] OTHER          -> rates.meta["default"].pods

PoolRate(rates, pool) ==
  LET sources == <<MetaRate(rates, pool), FlatRate(rates, pool),
                   MetaRate(rates, "default"), FlatRate(rates, "default")>>
      first   == {i \in 1 .. 4 : sources[i] # {} /\ \A j \in 1 .. i - 1 : sources[j] = {}}
  IN {<<d, PodsOf(rates, pool)>> : d \in UNION {sources[i] : i \in first}}

EmpiricalRate(dollars, minutes) == IF minutes > 0 THEN {<<dollars, minutes>>} ELSE {}

\* configured: costPerMinute is given, be it without an entry.
HasAnyRate(rates) == rates.configured \/ \E p \in DOMAIN rates.meta : rates.meta[p].dollars # {}

\* What both readers of the costs keep of the rows of the window.
Kept(R, excluded, foreign) ==
  {r \in R : r.repo \notin excluded /\ r.name \notin foreign /\ r.started}

\* Variant (not the code): the minutes of every runner carry the fleet's bill.
BlendedOverAll(auto, R, bills) ==
  LET fleet == {b \in bills : b.scope = "fleet"}
  IN IF ~auto \/ fleet = {} THEN {}
     ELSE EmpiricalRate(MapThenSumSet(LAMBDA b : b.dollars, fleet), Minutes(R))

\* The fleet's bill over the minutes of the runners it pays for.
BlendedFleetRate(auto, R, bills) ==
  LET fleet == {b \in bills : b.scope = "fleet"}
  IN IF ~auto \/ fleet = {} THEN {}
     ELSE EmpiricalRate(MapThenSumSet(LAMBDA b : b.dollars, fleet), Minutes({r \in R : ~r.hosted}))

\* A pool with one hosted row is priced from the configuration for all its rows.
HostedPools(R) == {r.pool : r \in {q \in R : q.hosted}}
RateFor(R, auto, bills, rates, pool) ==
  LET blended == BlendedFleetRate(auto, R, bills)
  IN IF blended # {} /\ pool \notin HostedPools(R) THEN blended ELSE PoolRate(rates, pool)
HasRates(R, auto, bills, rates) == BlendedFleetRate(auto, R, bills) # {} \/ HasAnyRate(rates)

\* The dollars of a set of rows S among the kept rows R: the rows without a
\* price add nothing, and without any rate there is no figure.
Priced(R, auto, bills, rates, r) ==
  Total(LAMBDA rate : Times(r.minutes, rate), RateFor(R, auto, bills, rates, r.pool))
Dollars(R, auto, bills, rates, S) ==
  IF HasRates(R, auto, bills, rates)
  THEN {Total(LAMBDA r : Priced(R, auto, bills, rates, r), S)}
  ELSE {}

(***************************************************************************)
(* The cost sections of the metrics payload.                               *)
(***************************************************************************)
Figure(R, auto, bills, rates, S) ==
  [minutes |-> Minutes(S), dollars |-> Dollars(R, auto, bills, rates, S)]

\* Rows of one pool: null when the pool has no price.
PoolFigure(R, auto, bills, rates, pool, S) ==
  [minutes |-> Minutes(S),
   dollars |-> {Times(Minutes(S), rate) : rate \in RateFor(R, auto, bills, rates, pool)}]

CostOfRepo(R, auto, bills, rates, repo) ==
  LET mine == {r \in R : r.repo = repo}
  IN [total |-> Figure(R, auto, bills, rates, mine),
      retry |-> Figure(R, auto, bills, rates, {r \in mine : r.retry}),
      pools |-> [p \in {r.pool : r \in mine} |->
                   PoolFigure(R, auto, bills, rates, p, {r \in mine : r.pool = p})]]

\* The leaderboard of the jobs and the table of the runs, before their caps; a row
\* without a run is in no run.
CostJobs(R, auto, bills, rates, repo) ==
  LET mine == {r \in R : r.repo = repo}
  IN [j \in {<<r.name, r.event>> : r \in mine} |->
        LET rows == {r \in mine : <<r.name, r.event>> = j}
        IN PoolFigure(R, auto, bills, rates, (CHOOSE r \in rows : TRUE).pool, rows)]
CostRuns(R, auto, bills, rates, repo) ==
  LET mine == {r \in R : r.repo = repo /\ r.run # Unknown}
  IN [u \in {<<r.event, r.run>> : r \in mine} |->
        Figure(R, auto, bills, rates, {r \in mine : <<r.event, r.run>> = u})]

(***************************************************************************)
(* Attributed and actual dollars.                                          *)
(***************************************************************************)
Scopes(r) == IF r.hosted THEN {r.pool} ELSE {"fleet", r.pool}
Attributed(R, auto, bills, rates, scope, days) ==
  Dollars(R, auto, bills, rates, {r \in R : scope \in Scopes(r) /\ r.day \in days})

\* Days that are tracked and fully billed.
Comparable(R, days, today) ==
  {d \in days : d < today /\ \E r \in R : r.day <= d}

CostActuals(R, auto, bills, rates, scope, today) ==
  LET mine == {b \in bills : b.scope = scope}
      days == {b.day : b \in mine}
      comparable == Comparable(R, days, today)
      billed(D) == MapThenSumSet(LAMBDA b : b.dollars, {b \in mine : b.day \in D})
  IN [actual     |-> billed(days),
      attributed |-> Attributed(R, auto, bills, rates, scope, days),
      \* The headline, as <<attributed, actual>>.
      coverage   |-> IF billed(comparable) > 0
                     THEN {<<a, billed(comparable)>> :
                             a \in Attributed(R, auto, bills, rates, scope, comparable)}
                     ELSE {},
      \* Its history: what was attributed and billed up to each comparable day.
      cumulative |-> [d \in comparable |->
                        LET past == {c \in comparable : c <= d}
                        IN <<Attributed(R, auto, bills, rates, scope, past), billed(past)>>]]

(***************************************************************************)
(* The cost lane: the same rows by the stage of their event.               *)
(***************************************************************************)
StageEvents == {"pull_request", "merge_group", "push", "schedule"}

CostSummary(R, auto, bills, rates) ==
  LET staged == {r \in R : r.event \in StageEvents}
      priced == {r \in staged : RateFor(R, auto, bills, rates, r.pool) # {}}
  IN [byStage |-> [e \in StageEvents |->
                     Figure(R, auto, bills, rates, {r \in R : r.event = e})],
      total   |-> Dollars(R, auto, bills, rates, staged),
      \* The waste, as <<minutes of retries, minutes>>.
      waste   |-> IF HasRates(R, auto, bills, rates) /\ Minutes(priced) > 0
                  THEN {<<Minutes({r \in priced : r.retry}), Minutes(priced)>>}
                  ELSE {}]
=============================================================================
