------------------------------ MODULE MCMetrics ------------------------------
(***************************************************************************)
(* Inputs of the metrics tab for MCModels, and what its figures are to be. *)
(* A day of six units, of three hours; now is 14, so that the window of    *)
(* one day begins at 8 and the one before it at 2.                         *)
(***************************************************************************)
EXTENDS Integers, FiniteSets, FiniteSetsExt, SequencesExt

CONSTANTS Minute, Hour, Day, SeriesLimit, FreshMin, FallbackLimit
ASSUME MetricsAssumption ==
  {Minute, Hour, Day, SeriesLimit, FreshMin, FallbackLimit} \subseteq Nat \ {0}
M == INSTANCE Metrics

Queries ==
  {[window |-> q.window, bucket |-> q.bucket, now |-> 14] :
     q \in {M!ResolveMetricsQuery("24h", {}, b) : b \in {"hour", "day"}}}
TotalOf(f) == MapThenSumSet(LAMBDA x : f[x], DOMAIN f)

(***************************************************************************)
(* Jobs: three of any length, after three of one commit back to back.      *)
(***************************************************************************)
Spans == {s \in {5, 8, 9, 11, 14} \X {5, 8, 9, 11, 14} : s[1] < s[2]}
JobRow(name, event, sha, attempt, conclusion, span) ==
  [name |-> name, event |-> event, sha |-> sha, attempt |-> attempt,
   conclusion |-> conclusion, span |-> span]
PullJob(sha, attempt, conclusion, span) == JobRow("a", "pull_request", sha, attempt, conclusion, span)
EarlierJobs == <<PullJob("s0", 1, "SUCCESS", <<9, 10>>), PullJob("s0", 2, "SUCCESS", <<10, 12>>),
                 PullJob("s0", 3, "FAILURE", <<12, 13>>)>>
Fleets ==
  {[jobs |-> <<PullJob("s1", 1, c1, s1), PullJob("s1", 2, c2, s2), last>>, onSpot |-> o] :
     s1 \in Spans, s2 \in Spans, c1 \in {"CANCELLED", "FAILURE"}, c2 \in {"CANCELLED", "SUCCESS"},
     o \in {{"push"}, {"pull_request", "push"}},
     last \in {PullJob("s1", 3, "SUCCESS", <<11, 14>>)}
                \cup {JobRow("b", "push", "s2", 1, "SUCCESS", s) : s \in Spans}}
FleetDb(fleet) ==
  FoldLeft(LAMBDA db, j : M!RecordCheckDuration(db, j.name, j.event, j.span[1], j.span[2],
                                               j.conclusion, j.sha, j.attempt, 1),
           M!EmptyDb, EarlierJobs \o fleet.jobs)
PoolsOf(fleet) == [c \in {<<"a", "pull_request">>, <<"b", "push">>} |->
                     IF c[2] \in fleet.onSpot THEN "spot" ELSE "large"]
FleetInputs ==
  {[query |-> q, db |-> FleetDb(f), pools |-> PoolsOf(f)] : q \in Queries, f \in Fleets}

\* A bucket shows how many jobs of the pool ran at its busiest instant within the
\* window, and is left out when none did; the peak of the pool is that of its busiest
\* bucket (sweepBucketPeaks).
PeaksAreExact(q, db, pools) ==
  LET rows     == M!CheckIntervals(db, M!From(q))
      curve    == M!Concurrency(q, db, pools)
      window   == M!From(q) .. q.now - 1
      at(p, t) == Cardinality({r \in rows : M!PoolKeyOf(pools, r) = p /\ r.from <= t /\ t < r.to})
      shown(p, b) == IF p \in DOMAIN curve /\ b \in DOMAIN curve[p].buckets
                     THEN curve[p].buckets[b] ELSE 0
      buckets  == {M!BucketOf(q, t) : t \in window}
      instants(b) == {t \in window : M!BucketOf(q, t) = b}
  IN \A p \in {M!PoolKeyOf(pools, r) : r \in rows} :
       /\ \A b \in buckets : shown(p, b) = Max({0} \cup {at(p, t) : t \in instants(b)})
       /\ p \in DOMAIN curve => /\ curve[p].peak = Max({at(p, t) : t \in window})
                               /\ DOMAIN curve[p].buckets \subseteq buckets

\* The runner plan is computed from the reclaim rate and the percentiles that the tab
\* shows, as both files say; every reclaimed job is one of the jobs its rate is of; and
\* a higher threshold never moves another job to on-demand runners.
PlanFollowsTheTab(q, db, pools) ==
  LET inputs == M!ProjectInputs(q, db, pools, [unit |-> {"a"}])
      plan(n) == M!ComputeRunnerPlan(inputs, n, <<>>)
      counted(trend, what) == TotalOf([b \in DOMAIN trend |-> trend[b][what]])
  IN /\ \A r \in M!Reclaims(q, db, pools) :
          /\ r.spot.jobs > 0 => inputs.rate = {<<r.spot.reclaims, r.spot.jobs>>}
          /\ r.spot.reclaims > 0 => r.spot.reclaims < r.spot.jobs
          /\ TotalOf(r.byPool) = r.total
     /\ \A j \in M!SlowestJobs(q, db) :
          j.check = <<"a", "pull_request">> => inputs.p90["unit"] = {j.p90}
     /\ \A n \in 0 .. 2 : plan(n + 1) \subseteq plan(n)
     /\ \A c \in M!FlakeRadar(q, db) :
          counted(c.trend, "runs") = c.runs /\ counted(c.trend, "flakes") = c.flakes

(***************************************************************************)
(* Merges: two of any life, with what the queue and the runners did.       *)
(***************************************************************************)
Lives ==
  {l \in {[created |-> c, green |-> c, enqueued |-> e, at |-> t, qa |-> d[1], prod |-> d[2]] :
            c \in {0, 1}, e \in {0, 1}, t \in {1, 3, 7, 8, 10, 13},
            d \in {<<0, 0>>, <<13, 0>>, <<13, 14>>, <<0, 9>>, <<7, 7>>}} :
     \A deployed \in {l.qa, l.prod} \ {0} : l.at <= deployed}
Numbered(life, n) == [f \in DOMAIN life \cup {"number"} |-> IF f = "number" THEN n ELSE life[f]]
Histories ==
  {[merged |-> {Numbered(l1, 1), Numbered(l2, 2)}, busy |-> b] : l1 \in Lives, l2 \in Lives, b \in BOOLEAN}
HistoryDb(h) ==
  LET wait(db, pool, t, w) == M!RecordRunnerWait(db, "a", "pull_request", w, t, pool)
      eject(db, name, sha, t, c) == M!RecordGroupFailure(db, name, sha, t, c)
      queued  == M!RecordQueueWait(M!RecordQueueWait(M!EmptyDb, 3, 7), 1, 9)
      trains  == M!RecordGroupRun(M!RecordGroupRun(queued, 2, 8), 4, 7)
      waits   == wait(wait(wait(trains, "spot", 9, 0), "spot", 12, 2), M!None, 13, 5)
      ejected == eject(eject(eject(waits, "a", "s1", 9, "FAILURE"), "b", "s1", 9, "TIMED_OUT"),
                       "a", "s2", 12, M!None)
      checked == M!RecordCheckDuration(M!RecordCheckDuration(ejected,
                   "a", "merge_group", 8, 9, "FAILURE", "s1", 1, 1),
                   "b", "merge_group", 8, 12, "FAILURE", "s2", 1, 2)
      board(t, counts) == [at |-> t, counts |-> counts]
  IN IF h.busy THEN [checked EXCEPT !.states = <<board(12, "earlier"), board(13, "last")>>]
     ELSE M!EmptyDb

HistoryInputs ==
  {[query |-> q, db |-> HistoryDb(h), merged |-> h.merged] : q \in Queries, h \in Histories}

\* The rows from before t, in their places.
Before(db, t) ==
  [db EXCEPT !.queueWaits = [i \in {j \in DOMAIN @ : @[j].at < t} |-> @[i]],
             !.groupRuns  = {r \in @ : r.at < t}]
\* What a headline calls the previous window is what it called the current one a
\* window's length ago: the two meet without a gap and share no row.
WindowsAbut(q, db, merged) ==
  LET start == M!From(q)
      then  == [q EXCEPT !.now = start]
      past  == {m \in merged : m.at < start}
  IN /\ \A s \in M!Queue(q, db, merged), f \in M!Queue(then, Before(db, start), past) :
          \A k \in {"merges", "queueWaitP50", "groupRunP50"} : s[k].prev = f[k].value
     /\ \A s \in M!Velocity(q, merged), f \in M!Velocity(then, past) :
          \A k \in {"merged", "mergeToQaP50", "lifespanMean"} : s[k].prev = f[k].value

\* The sections of the tab count one window alike: merges in the queue, velocity and
\* efficiency sections and in their series; ejects by check and by reason; waits by
\* pool and by event; and no deployment is a sample of the lead time but not counted.
SectionsAgree(q, db, merged) ==
  LET counted(series) == TotalOf([b \in DOMAIN series |-> series[b].n])
      efficiency == M!QueueEfficiency(q, db, merged, {"a"})
      events     == M!RunnerWaits(q, db)
      pools      == M!RunnerPools(q, db, <<>>)
      trends     == M!Trends(q, db)
      killers    == M!TrainKillers(q, db, 2)
  IN /\ \A v \in M!Velocity(q, merged) :
          /\ TotalOf(v.mergedPerBucket) = v.merged.value
          /\ \A s \in M!Queue(q, db, merged) :
               s.merges = v.merged /\ s.mergesPerBucket = v.mergedPerBucket
          /\ \A e \in efficiency : e.queueMerges = v.merged.value
     /\ \A e \in efficiency :
          /\ e.requiredFailed + e.advisoryNoise = e.runFailed
          /\ e.adminBypass.bypasses > 0 => e.adminBypass.bypasses < e.adminBypass.merges
     /\ \A l \in M!LeadTime(q, merged) :
          l.totalN <= l.prodDeploys /\ l.segments.awaitingProd.n <= l.prodDeploys
     /\ TotalOf([k \in killers |-> k.ejects]) = Cardinality(M!GroupFailuresSince(db, M!From(q)))
     /\ \A k \in killers : TotalOf(k.reasons) = k.ejects
     /\ TotalOf([p \in DOMAIN pools |-> counted(pools[p].waits.buckets)])
          <= TotalOf([e \in DOMAIN events |-> counted(events[e].buckets)])
     /\ DOMAIN trends # {} => trends[Max(DOMAIN trends)] = Last(db.states).counts
===============================================================================
