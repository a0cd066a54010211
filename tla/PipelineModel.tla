---------------------------- MODULE PipelineModel ----------------------------
(***************************************************************************)
(* The pipeline model of a repository: from its workflow files to the      *)
(* matrix of checks by protection tiers, with the checks that gate a merge *)
(* (src/server/pipeline-model, src/server/protection-map.ts).              *)
(*                                                                         *)
(* A file is [parses, on, jobs], jobs a sequence in file order.  A job has *)
(* an id, a name (None: the id shows), the ids it needs, a guard (its if:  *)
(* expression: absent, one comparison of the event name, or complex), the  *)
(* reusable workflow it calls (None: a plain job) and the number of        *)
(* instances of its matrix (0: no matrix).  Event configurations (branches,*)
(* cron) are left out: events are told apart by kind, as the model does.   *)
(***************************************************************************)
EXTENDS Naturals, FiniteSets, Sequences, SequencesExt, FiniteSetsExt

Nil    == "none"
Rollup    == "ci.yml"
RollupJob == "ci"
ScheduledEntries == {"nightly.yml", "weekly.yml"}
\* The names the uses: pattern finds (_*.yml); others are never fetched.
Reusables == {"_checks.yml", "_full.yml"}
KnownEvents ==
  {"pull_request", "merge_group", "push", "schedule", "workflow_dispatch", "workflow_run"}
GatingEvents == {"pull_request", "merge_group", "push"}
Tiers == [pr |-> "pull_request", queue |-> "merge_group", main |-> "push", nightly |-> "schedule"]
MinRuns == 30

(***************************************************************************)
(* Parsing: a file that does not parse has no events and no jobs.          *)
(***************************************************************************)
Triggers(file) == IF file.parses THEN file.on \cap KnownEvents ELSE {}
JobsIn(file)   == IF file.parses THEN file.jobs ELSE <<>>
JobIds(file)   == {job.id : job \in Range(JobsIn(file))}
LabelOf(job)   == IF job.name = Nil THEN job.id ELSE job.name
Instances(job)    == IF job.matrix = 0 THEN <<0>> ELSE [i \in 1 .. job.matrix |-> i]

NarrowEvents(events, guard) ==
  CASE guard.kind = "only" -> events \cap {guard.event}
    [] guard.kind = "not"  -> events \ {guard.event}
    [] OTHER               -> events

(***************************************************************************)
(* The static graph.                                                       *)
(***************************************************************************)
CalledBy(files, f) ==
  IF f \in DOMAIN files THEN {job.uses : job \in Range(JobsIn(files[f]))} \ {Nil} ELSE {}

\* What n rounds of following uses: edges reach from the files F.
Reached(files, F) ==
  LET round[n \in Nat] ==
        IF n = 0 THEN F ELSE round[n - 1] \cup UNION {CalledBy(files, f) : f \in round[n - 1]}
  IN round[Cardinality(DOMAIN files)]

\* The events under which the other entry workflows reach a reusable one.
ReusableEntryEvents(files, reusable) ==
  UNION {Triggers(files[e]) : e \in {e \in DOMAIN files \ {Rollup} :
                                       reusable \in Reached(files, CalledBy(files, e))}}

Name(label, leaf, shard) == [label |-> label, leaf |-> leaf, shard |-> shard]
Anchor(file, job)        == [file |-> file, job |-> job.id]
Node(name, job, events, at, low) ==
  [check |-> name, caller |-> job.id, events |-> events, at |-> at, low |-> low]

NodesOfJob(files, job) ==
  LET events   == NarrowEvents(Triggers(files[Rollup]), job.guard)
      unclear  == job.guard.kind = "complex"
      here     == Anchor(Rollup, job)
      everMore == events \cup ReusableEntryEvents(files, job.uses)
      leaf(inner) ==
        [k \in DOMAIN Instances(inner) |->
           Node(Name(LabelOf(job), LabelOf(inner), Instances(inner)[k]), job, everMore,
                {here, Anchor(job.uses, inner)},
                unclear \/ inner.uses # Nil \/ job.matrix # 0)]
  IN CASE job.uses = Nil ->
            [k \in DOMAIN Instances(job) |->
               Node(Name(LabelOf(job), Nil, Instances(job)[k]), job, events, {here}, unclear)]
       [] job.uses # Nil /\ job.uses \notin DOMAIN files ->
            <<Node(Name(LabelOf(job), Nil, 0), job, everMore, {here}, TRUE)>>
       [] OTHER ->
            LET inner == JobsIn(files[job.uses])
            IN FlattenSeq([k \in DOMAIN inner |-> leaf(inner[k])])

DeriveStaticGraph(files) ==
  LET jobs == JobsIn(files[Rollup])
  IN [checks |-> FlattenSeq([k \in DOMAIN jobs |-> NodesOfJob(files, jobs[k])]),
      needs  |-> [id \in JobIds(files[Rollup]) |-> (CHOOSE j \in Range(jobs) : j.id = id).needs]]

(***************************************************************************)
(* Gating: the needs closure of the rollup job.                            *)
(***************************************************************************)
NeedsOf(needs, id) == IF id \in DOMAIN needs THEN needs[id] ELSE {}

NeedsClosure(needs) ==
  LET round[n \in Nat] ==
        IF n = 0 THEN NeedsOf(needs, RollupJob)
        ELSE round[n - 1] \cup UNION {NeedsOf(needs, id) : id \in round[n - 1]}
  IN round[Cardinality(DOMAIN needs)]

GatingClosure(graph, conditional) ==
  LET closure == NeedsClosure(graph.needs)
      nodes(check) == {n \in Range(graph.checks) : n.check = check /\ n.caller \in closure}
  IN [callers     |-> closure \ conditional,
      conditional |-> closure \cap conditional,
      gates       |-> [check \in {n.check : n \in {n \in Range(graph.checks) : n.caller \in closure}} |->
                         (UNION {n.events : n \in nodes(check)}) \cap GatingEvents]]

(***************************************************************************)
(* Observed history, joined per check and event.                           *)
(***************************************************************************)
JoinObserved(success, flakes) ==
  [k \in DOMAIN success |->
     LET flaked == IF k \in DOMAIN flakes THEN flakes[k] ELSE 0
     IN [runs     |-> success[k].total,
         failures |-> IF success[k].failing > flaked THEN success[k].failing - flaked ELSE 0,
         minutes  |-> (success[k].secs + 30) \div 60]]
ObservedRuns(observed, check, event) ==
  IF <<check, event>> \in DOMAIN observed THEN observed[<<check, event>>].runs ELSE 0

(***************************************************************************)
(* The matrix.                                                             *)
(***************************************************************************)
MetaOf(graph, gating, check) ==
  LET nodes  == {n \in Range(graph.checks) : n.check = check}
      needed == UNION {NeedsOf(graph.needs, n.caller) : n \in nodes}
  IN [triggers |-> UNION {n.events : n \in nodes},
      at       |-> UNION {n.at : n \in nodes},
      low      |-> \E n \in nodes : n.low,
      required |-> /\ check \in DOMAIN gating.gates /\ "merge_group" \in gating.gates[check]
                   /\ \E n \in nodes : n.caller \in gating.callers,
      needs    |-> {n.check : n \in {n \in Range(graph.checks) : n.caller \in needed}} \ {check}]

CellState(intent) ==
  CASE ~intent.runs                        -> "absent"
    [] intent.runs /\ intent.conditional   -> "conditional"
    [] intent.runs /\ ~intent.conditional /\ intent.gates -> "gate"
    [] OTHER                               -> "advisory"

\* Configured here but only ever seen elsewhere, or seen here without being configured.
DeriveDrift(intent, runsHere, runsElsewhere) ==
  \/ intent.runs /\ runsHere = 0 /\ runsElsewhere /\ ~intent.conditional
  \/ ~intent.runs /\ runsHere >= MinRuns

CellOf(graph, gating, observed, check, tier) ==
  LET hits   == {k \in DOMAIN graph.checks : /\ graph.checks[k].check = check
                                             /\ Tiers[tier] \in graph.checks[k].events}
      first  == graph.checks[Min(hits)]
      runs   == hits # {}
      intent == [runs        |-> runs,
                 gates       |-> /\ runs /\ check \in DOMAIN gating.gates
                                 /\ Tiers[tier] \in gating.gates[check],
                 conditional |-> runs /\ (first.low \/ first.caller \in gating.conditional)]
      active == \E t \in DOMAIN Tiers : ObservedRuns(observed, check, Tiers[t]) >= MinRuns
  IN [runs |-> runs, gates |-> intent.gates, state |-> CellState(intent),
      drift |-> DeriveDrift(intent, ObservedRuns(observed, check, Tiers[tier]), active)]

AssembleDerivedModel(graph, gating, observed) ==
  LET checks == {n.check : n \in Range(graph.checks)}
  IN [checks   |-> checks,
      meta     |-> [c \in checks |-> MetaOf(graph, gating, c)],
      cells    |-> [k \in checks \X DOMAIN Tiers |-> CellOf(graph, gating, observed, k[1], k[2])],
      observed |-> observed]

(***************************************************************************)
(* What is fetched: the rollup, the scheduled entries, and the reusable    *)
(* workflows they reach.  A fetch that fails reads as a missing file, and  *)
(* without the rollup there is no model.                                   *)
(***************************************************************************)
Fetched(repo, unreadable) ==
  LET there == DOMAIN repo \ unreadable
      refs(F) == (UNION {CalledBy(repo, f) : f \in F}) \cap Reusables \cap there
      round[n \in 0 .. Cardinality(DOMAIN repo)] ==
        IF n = 0 THEN ({Rollup} \cup ScheduledEntries) \cap there
        ELSE round[n - 1] \cup refs(round[n - 1])
  IN round[Cardinality(DOMAIN repo)]

Derivable(repo, unreadable) == Rollup \in DOMAIN repo \ unreadable

ComputeProtectionMap(repo, unreadable, conditional, observed) ==
  LET files == [f \in Fetched(repo, unreadable) |-> repo[f]]
      graph == DeriveStaticGraph(files)
  IN AssembleDerivedModel(graph, GatingClosure(graph, conditional), observed)
=============================================================================
