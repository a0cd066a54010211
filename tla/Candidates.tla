------------------------------ MODULE Candidates ------------------------------
(***************************************************************************)
(* Which checks the metrics suggest to run less often or earlier:          *)
(* src/server/estimator/demotion-candidates.ts and promotion-candidates.ts *)
(* with the figures src/server/metrics.ts hands to them.                   *)
(*                                                                         *)
(* stats maps a check <<name, event>> to [total, failing, flaky, secs,     *)
(* incidents] over the window; a name is a sequence of words of which the  *)
(* last may be a shard.  nodeNeeds maps the nodes of the workflow graph to *)
(* the nodes they need.                                                    *)
(***************************************************************************)
EXTENDS WorkflowGraph, Integers

DemotionMinRuns == 50
DemotionMinSuccess == 99
PromotionMinRuns == 30
PromotionMinFailures == 3
CandidatesShown == 12
ShardWords == {"(1/2)", "(1/3)"}

\* The first candidates of a ranking; the code breaks ties by name, here they stay.
TopOf(C, Before(_, _)) == {c \in C : Cardinality({d \in C : Before(d, c)}) < CandidatesShown}

(***************************************************************************)
(* Demotion.                                                               *)
(***************************************************************************)
\* The checks whose node another node waits for.  The node nothing needs is the
\* rollup: what only it needs is not a gate of other work.
FailFastGateNames(names, nodeNeeds) ==
  LET needed == UNION {nodeNeeds[k] : k \in DOMAIN nodeNeeds}
      waited == UNION {nodeNeeds[k] : k \in DOMAIN nodeNeeds \cap needed}
  IN {n \in names : MatchingPrefix(n, DOMAIN nodeNeeds) \cap waited # {}}

NamesOn(stats, event) == {c[1] : c \in {d \in DOMAIN stats : d[2] = event /\ stats[d].total > 0}}

\* Variant (not the code): any green check may move behind the merge.
DemotionTargetOfAny(c, gatedInQueue) ==
  CASE c[2] = "pull_request" /\ c[1] \in gatedInQueue -> {"merge_group"}
    [] c[2] \in {"push", "merge_group"} -> {"nightly"}
    [] OTHER -> {}

\* Never a gate of the queue, and off the pull requests only what the queue runs.
DemotionTarget(c, gatedInQueue) ==
  CASE c[2] = "pull_request" /\ c[1] \in gatedInQueue -> {"merge_group"}
    [] c[2] = "push" -> {"nightly"}
    [] OTHER -> {}

GreenEnough(s) == 100 * (s.total - s.failing) >= DemotionMinSuccess * s.total
CostRank(stats, c) == (2 * stats[c].secs + 60) \div 120

ComputeDemotionCandidates(stats, nodeNeeds) ==
  LET names == {c[1] : c \in DOMAIN stats}
      found == {c \in DOMAIN stats :
                  /\ stats[c].total >= DemotionMinRuns
                  /\ c[1] \notin FailFastGateNames(names, nodeNeeds)
                  /\ GreenEnough(stats[c])
                  /\ DemotionTarget(c, NamesOn(stats, "merge_group")) # {}}
  IN TopOf(found, LAMBDA d, c : CostRank(stats, d) > CostRank(stats, c))

(***************************************************************************)
(* Promotion.                                                              *)
(***************************************************************************)
\* A check that is split differently in another tier still covers it.
CoverageKey(name) ==
  IF Len(name) > 1 /\ name[Len(name)] \in ShardWords THEN Front(name) ELSE name

CoveredOn(stats, event) == {CoverageKey(n) : n \in NamesOn(stats, event)}
PromotionTarget(stats, c) ==
  CASE c[2] = "push" /\ CoverageKey(c[1]) \notin CoveredOn(stats, "merge_group") -> {"merge_group"}
    [] c[2] = "merge_group" /\ CoverageKey(c[1]) \notin CoveredOn(stats, "pull_request") ->
         {"pull_request"}
    [] OTHER -> {}

\* Failures that no later attempt on the same commit overcame.
RealFailures(s) == IF s.failing > s.flaky THEN s.failing - s.flaky ELSE 0

RanksAbove(stats, d, c) ==
  LET rank(x) == <<stats[x].incidents, RealFailures(stats[x]), CostRank(stats, x)>>
  IN \E i \in 1 .. 3 : rank(d)[i] > rank(c)[i] /\ \A j \in 1 .. i - 1 : rank(d)[j] = rank(c)[j]

ComputePromotionCandidates(stats) ==
  LET found == {c \in DOMAIN stats :
                  /\ stats[c].total >= PromotionMinRuns
                  /\ RealFailures(stats[c]) >= PromotionMinFailures
                  /\ PromotionTarget(stats, c) # {}}
  IN TopOf(found, LAMBDA d, c : RanksAbove(stats, d, c))
=============================================================================
