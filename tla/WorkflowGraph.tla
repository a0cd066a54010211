---------------------------- MODULE WorkflowGraph ----------------------------
(***************************************************************************)
(* Which checks gate a merge (src/server/required-checks.ts): the needs    *)
(* closure of the rollup job of a workflow file, the event activity of its *)
(* nodes, and the expected critical path over them                         *)
(* (src/server/estimator/critical-path.ts).                                *)
(*                                                                         *)
(* A parsed file is a record.  An if: expression is the two sets of events *)
(* it mentions with == and with !=, a name is a sequence of words (so that *)
(* startsWith is IsPrefix), a runs-on value is the set of labels it may    *)
(* stand for.  NoLabels and NoTimeout stand for null.                      *)
(***************************************************************************)
EXTENDS Naturals, FiniteSets, Sequences, SequencesExt, FiniteSetsExt

NoLabels  == {}
NoTimeout == 0

(***************************************************************************)
(* Names.                                                                  *)
(***************************************************************************)
\* The longest of the prefixes a canonical name starts with, as a set of at
\* most one element.
MatchingPrefix(name, prefixes) ==
  LET hits == {p \in prefixes : IsPrefix(p, name)}
  IN {p \in hits : \A q \in hits : Len(q) <= Len(p)}

\* Does the job call a reusable workflow?  Its checks are "<name> / <inner>".
PrefixOf(job) == IF job.uses THEN <<job.name, "/">> ELSE <<job.name>>

(***************************************************************************)
(* Event activity: conservative, only what is provable is pruned.          *)
(***************************************************************************)
Always == [mode |-> "all", events |-> {}]

ExtractActivity(job) ==
  CASE job.positive # {} /\ job.negative = {} ->
         [mode |-> "only", events |-> job.positive]
    [] job.negative # {} /\ job.positive = {} ->
         [mode |-> "except", events |-> job.negative]
    [] OTHER -> Always

ActiveForEvent(activity, event) ==
  CASE activity.mode = "only"   -> event \in activity.events
    [] activity.mode = "except" -> event \notin activity.events
    [] OTHER                    -> TRUE

\* Variant (not the code): jobs under one name are merged by intersection.
MergeActivityNarrow(A) ==
  IF \A a \in A : a.mode = "only"
  THEN [mode |-> "only", events |-> {e \in UNION {a.events : a \in A} :
                                       \A a \in A : e \in a.events}]
  ELSE Always

\* Job keys that share a display name become one node.
MergeActivity(A) ==
  LET events == UNION {a.events : a \in A}
  IN CASE \A a \in A : a.mode = "only" -> [mode |-> "only", events |-> events]
       [] \A a \in A : a.mode = "except" ->
            [mode |-> "except",
             events |-> {e \in events : \A a \in A : e \in a.events}]
       [] OTHER -> Always

\* A reusable-workflow call has no runs-on; a conventional input may name one.
RunsOn(job) == IF job.uses THEN job.withLabels ELSE job.labels

\* The strictest timeout wins, an unset one yields.
MergeTimeout(T) ==
  IF T \ {NoTimeout} = {} THEN NoTimeout ELSE Min(T \ {NoTimeout})

(***************************************************************************)
(* The derived graph.                                                      *)
(***************************************************************************)
KnownNeeds(W, k) == W.jobs[k].needs \cap DOMAIN W.jobs

\* The rollup job and everything it transitively needs.
Closure(W, rollup) ==
  LET reach[n \in 0 .. Cardinality(DOMAIN W.jobs)] ==
        IF n = 0 THEN {rollup}
        ELSE reach[n - 1] \cup UNION {KnownNeeds(W, k) : k \in reach[n - 1]}
  IN reach[Cardinality(DOMAIN W.jobs)]

NodeOf(W, keys) ==
  [needs    |-> {PrefixOf(W.jobs[n]) : n \in UNION {KnownNeeds(W, k) : k \in keys}},
   activity |-> MergeActivity({ExtractActivity(W.jobs[k]) : k \in keys}),
   runsOn   |-> UNION {RunsOn(W.jobs[k]) : k \in keys},
   timeout  |-> MergeTimeout({W.jobs[k].timeout : k \in keys})]

RollupOnly(W, rollup) ==
  [nodes |-> [p \in {<<rollup>>} |->
               [needs |-> {}, activity |-> Always, runsOn |-> NoLabels,
                timeout |-> NoTimeout]],
   workflow |-> W.name]

DefinesJob(W, rollup) == W.parses /\ rollup \in DOMAIN W.jobs

\* {} when the file does not parse, else the set of its one graph.  The
\* required prefixes are the domain of nodes.
DeriveCiGraph(W, rollup) ==
  IF ~W.parses THEN {}
  ELSE IF rollup \notin DOMAIN W.jobs THEN {RollupOnly(W, rollup)}
  ELSE LET keys == Closure(W, rollup)
       IN {[nodes |-> [p \in {PrefixOf(W.jobs[k]) : k \in keys} |->
                         NodeOf(W, {k \in keys : PrefixOf(W.jobs[k]) = p})],
            workflow |-> W.name]}

\* The first file that really defines the rollup job, 0 when none does.
DiscoverRollupWorkflow(files, rollup) ==
  LET owners == {i \in DOMAIN files : DefinesJob(files[i], rollup)}
  IN IF owners = {} THEN 0 ELSE Min(owners)

(***************************************************************************)
(* What the poller asks the graph about a check.                           *)
(***************************************************************************)
NodeFor(graph, name) == MatchingPrefix(name, DOMAIN graph.nodes)
Known(graph, name)   == NodeFor(graph, name) # {}
TheNode(graph, name) == graph.nodes[CHOOSE p \in NodeFor(graph, name) : TRUE]

\* null is a name that no node matches: callers ask Known first.
NeedsFor(graph, name)  == TheNode(graph, name).needs
PoolsFor(graph, name)  == IF Known(graph, name) THEN TheNode(graph, name).runsOn ELSE NoLabels
TimeoutFor(graph, name) == IF Known(graph, name) THEN TheNode(graph, name).timeout ELSE NoTimeout

NeedActiveFor(graph, prefix, event) ==
  prefix \in DOMAIN graph.nodes => ActiveForEvent(graph.nodes[prefix].activity, event)

\* An observed pool beats the derived labels, which beat nothing.
ResolvePool(graph, observed, name) ==
  IF observed # NoLabels THEN observed ELSE PoolsFor(graph, name)

\* Starting prefixes for a repository without any: the word before the slash.
SuggestRequiredPrefixes(names) == {Head(n) : n \in names}

(***************************************************************************)
(* The critical path.  N maps a node to its needs and its weight (median   *)
(* wait plus median duration, 0 when unobserved).                          *)
(***************************************************************************)
KnownEdges(N, n)  == (N[n].needs \cap DOMAIN N) \ {n}
Dependents(N, n)  == {m \in DOMAIN N : n \in KnownEdges(N, m)}

\* The nodes Kahn's order reaches: all of them unless there is a cycle.
Ordered(N) ==
  LET done[i \in 0 .. Cardinality(DOMAIN N)] ==
        IF i = 0 THEN {}
        ELSE {n \in DOMAIN N : KnownEdges(N, n) \subseteq done[i - 1]}
  IN done[Cardinality(DOMAIN N)]

EarliestFinish(N) ==
  LET finish[n \in DOMAIN N] ==
        N[n].weight + Max({0} \cup {finish[m] : m \in KnownEdges(N, n)})
  IN finish

EndToEnd(N) == Max({EarliestFinish(N)[n] : n \in DOMAIN N})

\* Variant (not the code): the latest finish ignores what depends on a node.
LatestFinishLoose(N) == [n \in DOMAIN N |-> EndToEnd(N)]

LatestFinish(N) ==
  LET latest[n \in DOMAIN N] ==
        IF Dependents(N, n) = {} THEN EndToEnd(N)
        ELSE Min({latest[m] - N[m].weight : m \in Dependents(N, n)})
  IN latest

Slack(N, n) == LatestFinish(N)[n] - EarliestFinish(N)[n]

\* Backtrack from the deepest sink through the need that finishes last; ties
\* break by name, here by any fixed choice.
ArgMax(N, S) ==
  CHOOSE n \in S : \A m \in S : EarliestFinish(N)[m] <= EarliestFinish(N)[n]

CriticalPath(N) ==
  LET walk[i \in 0 .. Cardinality(DOMAIN N)] ==
        IF i = 0 THEN {ArgMax(N, DOMAIN N)}
        ELSE walk[i - 1] \cup
             {ArgMax(N, KnownEdges(N, n)) : n \in {m \in walk[i - 1] : KnownEdges(N, m) # {}}}
  IN walk[Cardinality(DOMAIN N)]

\* null for no nodes and for a cycle.
HasCriticalPath(N) == DOMAIN N # {} /\ Ordered(N) = DOMAIN N
=============================================================================
