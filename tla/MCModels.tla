------------------------------- MODULE MCModels -------------------------------
(***************************************************************************)
(* The pure models over bounded inputs: one initial state per workflow     *)
(* file, per weighted graph, per plan of moves, per merge queue, per       *)
(* window of check statistics, of job costs, of jobs and of merges, and    *)
(* the commits of CommitChecks.                                            *)
(***************************************************************************)
EXTENDS CommitChecks, MergeQueue, Candidates, Costs, MCPipelines, MCMetrics

CONSTANTS MaxWeight
VARIABLES part, input

Symmetry == Permutations(Shards)
modelVars == <<part, input, commitVars>>

Events     == {"pull_request", "merge_group"}
Mentions   == {<<{}, {}>>, <<{"pull_request"}, {}>>, <<{}, {"pull_request"}>>,
               <<{"merge_group"}, {}>>, <<{"merge_group"}, {"merge_group"}>>}
JobOf(name, needs, m) ==
  [name |-> name, uses |-> FALSE, needs |-> needs, positive |-> m[1], negative |-> m[2],
   labels |-> {}, withLabels |-> {}, timeout |-> NoTimeout]
Workflows ==
  {[parses |-> TRUE, name |-> "CI",
    jobs |-> [roll |-> JobOf(<<"ci">>, n, <<{}, {}>>),
              unit |-> JobOf(<<"test">>, n1, m1), suite |-> JobOf(nm, n2, m2)]] :
     n \in SUBSET {"unit", "suite", "gone"}, n1 \in SUBSET {"roll", "suite"},
     n2 \in SUBSET {"unit", "gone"}, nm \in {<<"test">>, <<"test", "all">>},
     m1 \in Mentions, m2 \in Mentions}

\* Node 1 may close a cycle through node 3.
Graphs ==
  {[n \in 1 .. 4 |-> [needs |-> CASE n = 1 -> d1 [] n = 2 -> d2 [] n = 3 -> d3 [] OTHER -> d4,
                      weight |-> w[n]]] :
     d1 \in SUBSET {3}, d2 \in SUBSET {1}, d3 \in SUBSET {1, 2}, d4 \in SUBSET {1, 2, 3},
     w \in [1 .. 4 -> 0 .. MaxWeight]}

Pipelines ==
  {RepoFiles(n, a, g, u) : n \in {{"affected"}, {"affected", "checks"}}, a \in {{"unit"}, {"unit", "checks"}},
     g \in {NoGuard, Only("merge_group")}, u \in {Nil, "_checks.yml"}}

Unit  == Name("unit", Nil, 0)
Style == Name("checks", "style", 0)
Moves == [check : {Unit, Style}, from : DOMAIN Tiers, to : {"nightly", Nil}]
Plans == [repo : Pipelines, live : SUBSET {Unit, Style},
          moves : {<<m>> : m \in Moves} \cup (Moves \X Moves)]
Seen == JoinObserved(<<Unit, "pull_request">> :> [total |-> 40, failing |-> 3, secs |-> 2400],
                     <<Unit, "pull_request">> :> 1)
Model(repo, lost) == ComputeProtectionMap(repo, lost, ConditionalJobs, Seen)

\* The trains of a queue are contiguous; entries of a train may carry its commit or not.
Places == [state : {"QUEUED", "AWAITING_CHECKS", "MERGEABLE", "UNMERGEABLE"}, oid : {NoOid, "o1", "o2"}]
Queues ==
  {{[pr |-> i, pos |-> i, state |-> q[i].state, oid |-> q[i].oid] : i \in 1 .. 4} :
     q \in {s \in [1 .. 4 -> {p \in Places : p.oid # NoOid => p.state = "AWAITING_CHECKS"}] :
              \A i, j \in 1 .. 4 : s[i].oid = "o2" /\ s[j].oid = "o1" => j < i}}
TrainDurations == <<10, 20, 60>>
GroupProgress == {[o \in {} |-> 0], [o \in {"o1"} |-> [eta |-> 5]],
                  [o \in {"o1", "o2"} |-> [eta |-> IF o = "o1" THEN 5 ELSE Null]]}

\* A check may have no run at all in the window.
Figures == {[total |-> 300, failing |-> 3, flaky |-> 0, secs |-> 9000, incidents |-> 2],
            [total |-> 299, failing |-> 3, flaky |-> 0, secs |-> 9000, incidents |-> 1],
            [total |-> 300, failing |-> 3, flaky |-> 1, secs |-> 9000, incidents |-> 1],
            [total |-> 49, failing |-> 0, flaky |-> 0, secs |-> 600, incidents |-> 0]}
CheckPairs == {<<"unit", "(1/2)">>, <<"unit", "(1/3)">>} \X {"pull_request", "merge_group", "push"}
Statistics == UNION {[D -> Figures] : D \in SUBSET CheckPairs}
NodeNeeds  == {<<"ci">> :> {<<"unit">>} @@ <<"unit">> :> {},
               <<"ci">> :> {<<"e2e">>} @@ <<"e2e">> :> {<<"unit">>} @@ <<"unit">> :> {}}

CostRow(i, event, kind) ==
  [id |-> i, repo |-> IF i = 3 THEN "two" ELSE "one", name |-> i, event |-> event,
   pool |-> kind[1], hosted |-> kind[2], minutes |-> i, day |-> i, started |-> TRUE,
   retry |-> i = 2, run |-> IF i = 1 THEN Unknown ELSE "run"]
CostRows ==
  {{CostRow(i, f[i][1], f[i][2]) : i \in 1 .. 3} :
     f \in [1 .. 3 -> {"push", "workflow_dispatch"}
                       \X {<<"spot", FALSE>>, <<"ubuntu", TRUE>>, <<"spot", TRUE>>}]}
Bill(scope, day) == [scope |-> scope, day |-> day, dollars |-> 2]
Bills == {{}, {Bill("fleet", 1)}, {Bill("fleet", 1), Bill("fleet", 3), Bill("spot", 2)}, {Bill("spot", 1)}}
Entry(d, pods) == [dollars |-> d, pods |-> pods]
RateTables ==
  {[configured |-> FALSE, costs |-> <<>>, meta |-> <<>>],
   [configured |-> TRUE, costs |-> "default" :> 3, meta |-> "ubuntu" :> Entry({}, 2)],
   [configured |-> FALSE, costs |-> <<>>, meta |-> "spot" :> Entry({4}, 0) @@ "default" :> Entry({}, 2)]}
Ledgers == [rows : CostRows, bills : Bills, rates : RateTables, auto : BOOLEAN]

Init == /\ CommitInit
        /\ \/ part = "workflow" /\ input \in Workflows /\ listed = {}
           \/ part = "path" /\ input \in Graphs /\ listed = {}
           \/ part = "plan" /\ input \in Plans /\ listed = {}
           \/ part = "queue" /\ input \in [queue : Queues, groups : GroupProgress, batch : 1 .. 2]
              /\ listed = {}
           \/ part = "statistics" /\ input \in [stats : Statistics, nodeNeeds : NodeNeeds] /\ listed = {}
           \/ part = "cost" /\ input \in Ledgers /\ listed = {}
           \/ part = "fleet" /\ input \in FleetInputs /\ listed = {}
           \/ part = "merges" /\ input \in HistoryInputs /\ listed = {}
           \/ part = "commit" /\ input = {}
Next == part = "commit" /\ CommitNext /\ UNCHANGED <<part, input>>
Spec == Init /\ [][Next]_modelVars

\* Merging the jobs that share a display name never hides one of them: a node is
\* active for an event whenever one of its jobs may run on it, so a queued check
\* is never told that a job it waits for will not come (mergeActivity).
ActivityNeverHidesAJob ==
  part = "workflow" =>
    \A graph \in DeriveCiGraph(input, "roll"), k \in Closure(input, "roll"), e \in Events :
      ActiveForEvent(ExtractActivity(input.jobs[k]), e)
        => NeedActiveFor(graph, PrefixOf(input.jobs[k]), e)

\* The slack of a node is exactly how much it may grow before the whole run takes
\* longer; a node without slack, and only such a node, can be on the critical
\* path (computeCriticalPath).
SlackIsExact ==
  part = "path" /\ HasCriticalPath(input) =>
    \A n \in DOMAIN input :
      LET grown(k) == EndToEnd([input EXCEPT ![n].weight = @ + k])
      IN /\ grown(Slack(input, n)) = EndToEnd(input)
         /\ grown(Slack(input, n) + 1) = EndToEnd(input) + 1
         /\ n \in CriticalPath(input) => Slack(input, n) = 0

\* What the metrics tab draws is what it says it is: slack, busiest instants, windows
\* that meet, and sections and the runner plan that count the same rows alike
\* (computeMetrics, projectInputs).
FiguresAreExact ==
  /\ SlackIsExact
  /\ part = "fleet" => /\ PeaksAreExact(input.query, input.db, input.pools)
                       /\ PlanFollowsTheTab(input.query, input.db, input.pools)
  /\ part = "merges" => /\ WindowsAbut(input.query, input.db, input.merged)
                        /\ SectionsAgree(input.query, input.db, input.merged)

\* A plan the simulation calls legal leaves every required check running somewhere,
\* all moves together; and where the live rules agree with the model, it leaves every
\* one of them on the merge queue (simulatePlan, validateTierChange).
LegalPlansKeepGates ==
  part = "plan" =>
    LET model == Model(input.repo, {})
        after == RunsAfterPlan(model, input.moves)
    IN SimulatePlan(model, input.moves, input.live).legal =>
         /\ \A c \in RequiredGateChecks(model, input.live) : \E t \in DOMAIN Tiers : <<c, t>> \in after
         /\ ReconcileRuleset(model, TRUE, input.live).inSync =>
              \A c \in input.live : <<c, "queue">> \in after

\* Every entry that can merge rides exactly one train or waits in line, the train the
\* board credits it with is the one it is drawn in, and nobody in the line is promised
\* to merge before somebody ahead (trainsFor, coveringTrain, simulateMergeEta).
QueueOrderIsKept ==
  part = "queue" =>
    LET Q      == input.queue
        alive  == {e \in Q : ~Unmergeable(e)}
        riding(e) == {oid \in Trains(Q) : e.pr \in Riders(Q, oid)}
        eta(e) == MergeEta(Q, e, input.groups, LowerMedian(TrainDurations), input.batch,
                           TrainDurations, FALSE)
        line   == {e \in alive : e.state = "QUEUED" /\ e.pr \in WaitingIn(Q)}
    IN /\ \A e \in alive : /\ riding(e) = Covering(Q, e)
                           /\ e.pr \in WaitingIn(Q) <=> riding(e) = {}
       /\ \A e, d \in line : e.pos < d.pos =>
            /\ eta(e).p50 <= eta(d).p50
            /\ eta(e).p90 <= eta(d).p90

\* The suggestions are safe to take together: after every demotion a check that ran
\* before the merge still runs before it, and a check that is to run less and earlier
\* at once has at least three hundred runs in the window (demotionTarget;
\* promotion-candidates.ts holds the two lists to be disjoint).
SuggestionsKeepGates ==
  part = "statistics" =>
    LET demoted  == ComputeDemotionCandidates(input.stats, input.nodeNeeds)
        before   == NamesOn(input.stats, "pull_request") \cup NamesOn(input.stats, "merge_group")
        staying  == {c \in DOMAIN input.stats \ demoted : input.stats[c].total > 0}
    IN /\ \A n \in before : \E c \in staying : c[1] = n /\ c[2] \in {"pull_request", "merge_group"}
       /\ \A c \in demoted \cap ComputePromotionCandidates(input.stats) : input.stats[c].total >= 300

\* With the derived rate, and pools that are either hosted or not, the jobs of the
\* fleet are priced at exactly what it was billed, so no coverage exceeds the bill;
\* and the cost lane adds up to what the metrics tab shows, but for jobs of events
\* that have no stage (blendedFleetRate as "the single source of truth").
BillIsExplained ==
  part = "cost" =>
    LET R == Kept(input.rows, {}, {})
        bill  == MapThenSumSet(LAMBDA b : b.dollars, {b \in input.bills : b.scope = "fleet"})
        tab(repo) == CostOfRepo(R, input.auto, input.bills, input.rates, repo).total.dollars
        repos == {r.repo : r \in R}
        lane  == CostSummary(R, input.auto, input.bills, input.rates).total
        unmixed == \A r, q \in R : r.pool = q.pool => r.hosted = q.hosted
    IN /\ unmixed /\ BlendedFleetRate(input.auto, R, input.bills) # {} =>
            /\ \A d \in Dollars(R, input.auto, input.bills, input.rates, {r \in R : ~r.hosted}) :
                 Equal(d, <<bill, 1>>)
            /\ \A a \in CostActuals(R, input.auto, input.bills, input.rates, "fleet", 4).attributed :
                 AtMost(a, <<bill, 1>>)
       /\ \A repo \in repos : lane = {} <=> tab(repo) = {}
       /\ (\A r \in R : r.event \in StageEvents) =>
            \A d \in lane : Equal(d, Total(LAMBDA repo : Total(LAMBDA x : x, tab(repo)), repos))
=============================================================================
