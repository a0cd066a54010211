------------------------------- MODULE Metrics -------------------------------
(***************************************************************************)
(* The metrics tab for one repository (computeMetrics in                   *)
(* src/server/metrics.ts; its prices are in Costs, its suggestions in      *)
(* Candidates) and the runner plan, which is made of the same rows         *)
(* (src/server/estimator/routing-inputs.ts and runner-plan.ts).            *)
(*                                                                         *)
(* A query is [window, bucket, now].  A figure that may be null is a set   *)
(* of at most one; a mean or a rate is a pair, numerator and denominator.  *)
(* A bucketed series is a function whose domain is the buckets shown.      *)
(***************************************************************************)
EXTENDS History

CONSTANT Hour
Rollup == INSTANCE CheckRollup

(***************************************************************************)
(* The window.                                                             *)
(***************************************************************************)
WindowDays ==
  [w \in {"24h", "3d", "7d", "14d", "30d"} |->
     CASE w = "24h" -> 1 [] w = "3d" -> 3 [] w = "7d" -> 7 [] w = "14d" -> 14 [] w = "30d" -> 30]

\* An old client names a number of days: the nearest of three, the shorter on a tie.
ResolveWindow(window, days) ==
  LET far(w, n) == Max({WindowDays[w] - n, n - WindowDays[w]})
      known == {"7d", "14d", "30d"}
      nearest(n) == {w \in known : \A v \in known : far(w, n) <= far(v, n)}
      shortest(W) == CHOOSE w \in W : \A v \in W : WindowDays[w] <= WindowDays[v]
  IN CASE window \in DOMAIN WindowDays -> window
       [] window \notin DOMAIN WindowDays /\ days # {} -> shortest(nearest(Min(days)))
       [] OTHER -> "3d"
ResolveMetricsQuery(window, days, bucket) ==
  LET w == ResolveWindow(window, days)
  IN [window |-> w, bucket |-> IF bucket = "day" \/ WindowDays[w] > 7 THEN "day" ELSE "hour"]

Length(q) == WindowDays[q.window] * Day
From(q)   == q.now - Length(q)
Step(q)   == IF q.bucket = "hour" THEN Hour ELSE Day
BucketOf(q, t) == t \div Step(q)

\* A read of twice the window, split at its beginning.
SplitWindow(q, rows) ==
  LET read == Since(rows, From(q) - Length(q))
  IN [cur |-> Since(read, From(q)), prev |-> read \ Since(read, From(q))]

Headline(cur, prev) == [value |-> cur, prev |-> prev]
CountStat(w) == Headline(Cardinality(w.cur), Cardinality(w.prev))
BucketCounts(q, rows) ==
  [b \in {BucketOf(q, r.at) : r \in rows} |-> Cardinality({r \in rows : BucketOf(q, r.at) = b})]

\* Samples tell rows of one value apart.
Sample(id, at, value) == [id |-> id, at |-> at, value |-> value]
ValueOf(s) == s.value
Percent(samples, p) == IF samples = {} THEN {} ELSE {Percentile(samples, ValueOf, p)}
P50Stat(w) == Headline(Percent(w.cur, 50), Percent(w.prev, 50))
InBucket(q, samples, b) == {s \in samples : BucketOf(q, s.at) = b}
BucketPercentiles(q, samples) ==
  [b \in {BucketOf(q, s.at) : s \in samples} |->
     [p50 |-> Percent(InBucket(q, samples, b), 50), p90 |-> Percent(InBucket(q, samples, b), 90),
      n |-> Cardinality(InBucket(q, samples, b))]]
MeanOf(samples) ==
  IF samples = {} THEN {} ELSE {<<MapThenSumSet(ValueOf, samples), Cardinality(samples)>>}

(***************************************************************************)
(* Runners: waits per event and per pool, peaks, reclaims.                 *)
(***************************************************************************)
WaitFigures(q, rows) ==
  LET w == SplitWindow(q, {Sample(r, r.started, r.wait) : r \in rows})
  IN [p50 |-> P50Stat(w), buckets |-> BucketPercentiles(q, w.cur)]
RunnerWaits(q, db) ==
  [e \in {r.event : r \in RunnerWaitsSince(db, From(q))} |->
     WaitFigures(q, {r \in db.runnerWaits : r.event = e})]
\* Joined with what the hourly scan says of the pool, if it has seen it.
RunnerPools(q, db, health) ==
  [p \in {r.pool : r \in PoolWaitsSince(db, From(q))} |->
     [waits |-> WaitFigures(q, {r \in db.runnerWaits : r.pool = p}),
      starving |-> p \in DOMAIN health /\ health[p].starving]]

PeakIn(peaks, b) == IF b \in DOMAIN peaks THEN peaks[b] ELSE 0
\* Variant (not the code): only the bucket in which a level begins is marked.
MarkFirst(q, peaks, from, to, level) ==
  IF level <= 0 \/ to <= from THEN peaks
  ELSE (BucketOf(q, from) :> Max({PeakIn(peaks, BucketOf(q, from)), level})) @@ peaks

\* A level that holds for a span is marked on every bucket the span overlaps.
Mark(q, peaks, from, to, level) ==
  LET overlapped == IF level <= 0 \/ to <= from THEN {}
                    ELSE BucketOf(q, from) .. BucketOf(q, to - 1)
  IN [b \in overlapped \cup DOMAIN peaks |->
        IF b \in overlapped THEN Max({PeakIn(peaks, b), level}) ELSE peaks[b]]

\* The sweep line over the starts and ends of the jobs, clipped to the window.
\* Events of one instant are taken together: no level between them lasts.
SweepBucketPeaks(q, intervals) ==
  LET clipped == {[id |-> i, from |-> Max({i.from, From(q)}), to |-> Min({i.to, q.now})] : i \in intervals}
      spans   == {c \in clipped : c.from < c.to}
      change(t) == Cardinality({s \in spans : s.from = t}) - Cardinality({s \in spans : s.to = t})
      advance(t, acc) == [peaks |-> Mark(q, acc.peaks, acc.at, t, acc.level),
                          level |-> acc.level + change(t), at |-> t]
      swept == MapThenFoldSet(advance, [peaks |-> <<>>, level |-> 0, at |-> From(q)], LAMBDA t : t,
                              Max, {s.from : s \in spans} \cup {s.to : s \in spans})
  IN Mark(q, swept.peaks, swept.at, q.now, swept.level)

IsSpotPool(pool) == pool = "spot"
\* resolve: the pools of the checks that resolve to one.
PoolKeyOf(resolve, r) ==
  IF <<r.name, r.event>> \in DOMAIN resolve THEN resolve[<<r.name, r.event>>] ELSE "unknown"
OnSpot(resolve, rows) == {r \in rows : IsSpotPool(PoolKeyOf(resolve, r))}
Concurrency(q, db, resolve) ==
  LET rows == CheckIntervals(db, From(q))
      peaks(p) == SweepBucketPeaks(q, {r \in rows : PoolKeyOf(resolve, r) = p})
      shown == {p \in {PoolKeyOf(resolve, r) : r \in rows} : DOMAIN peaks(p) # {}}
  IN [p \in shown |-> [peak |-> Max({peaks(p)[b] : b \in DOMAIN peaks(p)}), buckets |-> peaks(p)]]

\* Nothing is shown of a repository without a reclaim.
Reclaims(q, db, resolve) ==
  LET events   == ReclaimRows(db, From(q))
      spot     == OnSpot(resolve, events)
      jobs     == OnSpot(resolve, CheckIntervals(db, From(q)))
      lost     == BucketCounts(q, spot)
      begun    == BucketCounts(q, {Sample(r, r.from, 0) : r \in jobs})
      at(f, b) == IF b \in DOMAIN f THEN f[b] ELSE 0
  IN IF events = {} THEN {}
     ELSE {[total |-> Cardinality(events), perBucket |-> BucketCounts(q, events),
            byPool |-> [p \in {PoolKeyOf(resolve, r) : r \in events} |->
                          Cardinality({r \in events : PoolKeyOf(resolve, r) = p})],
            spot |-> [reclaims |-> Cardinality(spot), jobs |-> Cardinality(jobs),
                      perBucket |-> [b \in DOMAIN lost \cup DOMAIN begun |->
                                       [reclaims |-> at(lost, b), jobs |-> at(begun, b)]]]]}

(***************************************************************************)
(* Merges.  A merged row is [number, at, created, green, enqueued, qa,     *)
(* prod]; at is when it was merged.                                        *)
(***************************************************************************)
QueueWaits(db) == {Sample(i, db.queueWaits[i].at, db.queueWaits[i].secs) : i \in DOMAIN db.queueWaits}
GroupRuns(db)  == {Sample(r, r.at, r.secs) : r \in db.groupRuns}
\* Shown for a repository with something in the current window.
Queue(q, db, merged) ==
  LET merges == SplitWindow(q, merged)
      waits  == SplitWindow(q, QueueWaits(db))
      trains == SplitWindow(q, GroupRuns(db))
  IN IF merges.cur = {} /\ waits.cur = {} /\ trains.cur = {} THEN {}
     ELSE {[merges |-> CountStat(merges), queueWaitP50 |-> P50Stat(waits),
            groupRunP50 |-> P50Stat(trains), mergesPerBucket |-> BucketCounts(q, merges.cur),
            queueWaitBuckets |-> BucketPercentiles(q, waits.cur),
            groupRunBuckets |-> BucketPercentiles(q, trains.cur)]}

\* The days on which nobody was seen in the queue say nothing of who went around it.
AdminBypass(rows) ==
  LET dayOf(r) == r.at \div Day
      seen     == {r \in rows : r.enqueued # 0}
      watched  == {r \in rows : \E s \in seen : dayOf(s) = dayOf(r)}
  IN [merges |-> Cardinality(watched), bypasses |-> Cardinality(watched \ seen)]

\* required: the checks one of the required prefixes matches.
QueueEfficiency(q, db, merged, required) ==
  LET checks  == MergeGroupChecksSince(db, From(q))
      merges  == SplitWindow(q, merged).cur
      runOf(r) == <<r.sha, r.run>>
      failing == {r \in checks : r.conclusion \in Failing}
      runs    == {runOf(r) : r \in checks}
      failed  == {runOf(r) : r \in failing}
      gated   == {runOf(r) : r \in {f \in failing : f.name \in required}}
  IN IF runs = {} /\ merges = {} THEN {}
     ELSE {[runs |-> Cardinality(runs), queueMerges |-> Cardinality(merges),
            runFailed |-> Cardinality(failed), requiredFailed |-> Cardinality(gated),
            advisoryNoise |-> Cardinality(failed \ gated), adminBypass |-> AdminBypass(merges)]}

\* From the merge to its deployment, and from the opening to the merge.
ToQa(rows)     == {Sample(r, r.at, r.qa - r.at) : r \in {m \in rows : m.qa # 0}}
Lifespan(rows) == {Sample(r, r.at, r.at - r.created) : r \in {m \in rows : m.created # 0}}
Velocity(q, merged) ==
  LET merges == SplitWindow(q, merged)
      open   == Lifespan(merges.cur)
  IN IF merges.cur = {} THEN {}
     ELSE {[merged |-> CountStat(merges),
            mergeToQaP50 |-> Headline(Percent(ToQa(merges.cur), 50), Percent(ToQa(merges.prev), 50)),
            lifespanMean |-> Headline(MeanOf(open), MeanOf(Lifespan(merges.prev))),
            mergedPerBucket |-> BucketCounts(q, merges.cur),
            mergeToQaBuckets |-> BucketPercentiles(q, ToQa(merges.cur)),
            avgLifespanBuckets |-> [b \in {BucketOf(q, s.at) : s \in open} |->
                                      MeanOf(InBucket(q, open, b))]]}

LeadTimeSegments ==
  [toFirstGreen |-> <<"created", "green">>, greenToEnqueued |-> <<"green", "enqueued">>,
   queue |-> <<"enqueued", "at">>, qaDeploy |-> <<"at", "qa">>, awaitingProd |-> <<"qa", "prod">>]
\* A pair of times that runs backwards is an artifact of clocks, not a sample.
PairSecs(rows, from, to) ==
  {Sample(r, r.at, r[to] - r[from]) : r \in {m \in rows : 0 \notin {m[from], m[to]} /\ m[from] <= m[to]}}
\* The deployments of the window may be of merges from before it.
LeadTime(q, merged) ==
  LET rows     == Since(merged, From(q))
      deployed == {r \in merged : r.prod # 0 /\ r.prod >= From(q)}
      of(s)    == PairSecs(rows, LeadTimeSegments[s][1], LeadTimeSegments[s][2])
      segments == [s \in DOMAIN LeadTimeSegments |-> [median |-> Percent(of(s), 50), n |-> Cardinality(of(s))]]
      totals   == PairSecs(rows, "created", "prod")
  IN IF deployed = {} /\ \A s \in DOMAIN segments : segments[s].n = 0 THEN {}
     ELSE {[segments |-> segments, totalP50 |-> Percent(totals, 50), totalN |-> Cardinality(totals),
            prodDeploys |-> Cardinality(deployed),
            deploysPerDay |-> <<Cardinality(deployed), WindowDays[q.window]>>]}

\* The last sample of a bucket closes it.
Trends(q, db) ==
  LET rows == StateSamplesSince(db, From(q))
  IN [b \in {BucketOf(q, rows[i].at) : i \in DOMAIN rows} |->
        rows[Max({i \in DOMAIN rows : BucketOf(q, rows[i].at) = b})].counts]

(***************************************************************************)
(* Checks: the slowest, the flakiest, those that eject trains.             *)
(***************************************************************************)
LeadersShown == 10
\* Equal ranks are broken by name in the code; here they are all in or all out.
Leaders(jobs) == {j \in jobs : Cardinality({k \in jobs : k.rank > j.rank}) < LeadersShown}
SlowestJobs(q, db) ==
  LET rows    == CheckDurationsSince(db, From(q))
      of(s)   == {Sample(r, r.at, r.secs) : r \in {d \in rows : <<d.name, d.event>> = s}}
  IN Leaders({[check |-> s, rank |-> Min(Percent(of(s), 50)), p90 |-> Min(Percent(of(s), 90)),
               n |-> Cardinality(of(s)), trend |-> BucketPercentiles(q, of(s))] :
                 s \in {<<r.name, r.event>> : r \in rows}})

FlakeMinRuns == 5
Trusted(db, since) == {s \in FlakeStats(db, since) : s.runs >= FlakeMinRuns}
\* A run is placed where its first row completed.
FlakeRadar(q, db) ==
  LET rowsOf(s)  == {r \in Identifiable(db, From(q)) : r.name = s.name /\ r.event = s.event}
      runsOf(s)  == {Sample(RunOf(r), Min({d.at : d \in {o \in rowsOf(s) : RunOf(o) = RunOf(r)}}), 0) :
                       r \in rowsOf(s)}
      flakesOf(s) == BucketCounts(q, FlakeRows(db, From(q)) \cap rowsOf(s))
      runs(s)    == BucketCounts(q, runsOf(s))
      trend(s)   == [b \in DOMAIN runs(s) |->
                       [runs |-> runs(s)[b],
                        flakes |-> IF b \in DOMAIN flakesOf(s) THEN flakesOf(s)[b] ELSE 0]]
  IN Leaders({[check |-> <<s.name, s.event>>, flakes |-> s.flakes, runs |-> s.runs,
               rank |-> (1000 * s.flakes) \div s.runs, trend |-> trend(s)] :
                 s \in {t \in Trusted(db, From(q)) : t.flakes > 0}})

EjectReasons == {"timeout", "test-fail", "infra", "unknown"}
TrainKillers(q, db, batch) ==
  LET rows   == GroupFailuresSince(db, From(q))
      of(n)  == {r \in rows : r.name = n}
      count(n) == [x \in EjectReasons |->
                     Cardinality({r \in of(n) : Rollup!EjectReason(r.conclusion) = x})]
      rates(n) == {(1000 * s.flakes) \div s.runs : s \in {t \in Trusted(db, From(q)) : t.name = n}}
  IN {[name |-> n, ejects |-> Cardinality(of(n)), reasons |-> count(n),
       lead |-> Rollup!DominantReason(count(n)),
       cost |-> IF db.groupRuns = {} THEN {} ELSE {Cardinality(of(n)) * MedianGroupRun(db) * batch},
       flakeRate |-> IF rates(n) = {} THEN {} ELSE {Max(rates(n))}] : n \in {r.name : r \in rows}}

(***************************************************************************)
(* The runner plan.                                                        *)
(***************************************************************************)
\* keys: a job key to the checks whose names it matches.
ProjectInputs(q, db, resolve, keys) ==
  LET spotJobs == Cardinality(OnSpot(resolve, CheckIntervals(db, From(q))))
      samples(k) == {Sample(r, r.at, r.secs) : r \in {d \in CheckDurationsSince(db, From(q)) :
                       d.event = "pull_request" /\ d.name \in keys[k]}}
  IN [rate |-> IF spotJobs = 0 THEN {}
               ELSE {<<Cardinality(OnSpot(resolve, ReclaimRows(db, From(q)))), spotJobs>>},
      p90 |-> [k \in DOMAIN keys |-> Percent(samples(k), 90)]]

\* The jobs to move to on-demand runners: those a reclaim is expected to cost the
\* threshold, in minutes; without samples a job stays where it is.  An override
\* decides alone.
ComputeRunnerPlan(inputs, threshold, overrides) ==
  LET rate == IF inputs.rate = {} THEN <<0, 1>> ELSE CHOOSE r \in inputs.rate : TRUE
      costly(k) == \E p \in inputs.p90[k] : rate[1] * p >= threshold * Minute * rate[2]
  IN {k \in DOMAIN inputs.p90 : IF k \in DOMAIN overrides THEN overrides[k] = "ondemand" ELSE costly(k)}
===============================================================================
