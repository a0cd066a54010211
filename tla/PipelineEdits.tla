---------------------------- MODULE PipelineEdits ----------------------------
(***************************************************************************)
(* Authoring changes to a pipeline: the edits of its workflow files        *)
(* (src/server/core/edit), the legality of a tier move and the simulation  *)
(* of moves (src/server/core/model), the candidate a list of mutations     *)
(* projects to, and its validation.                                        *)
(*                                                                         *)
(* The fields of a job the edits read: body, guard, runsOn (Nil, "label"*)
(* or "expression"), timeout and tolerant (continue-on-error); of a file:  *)
(* concurrency.  An edit answers [ok, file]; a refused one leaves the file.*)
(***************************************************************************)
EXTENDS PipelineModel, Integers

NoGuard      == [kind |-> "absent", event |-> Nil]
Only(event)  == [kind |-> "only", event |-> event]
Refuse(file) == [ok |-> FALSE, file |-> file]
Accept(file) == [ok |-> TRUE, file |-> file]

JobOfId(file, id)  == CHOOSE j \in Range(JobsIn(file)) : j.id = id
Editable(file, id) == id \in JobIds(file) /\ JobOfId(file, id).body

WithJob(file, id, new) ==
  Accept([file EXCEPT !.jobs = [k \in DOMAIN @ |-> IF @[k].id = id THEN new ELSE @[k]]])

(***************************************************************************)
(* The renderers: each refuses what it cannot do safely.                   *)
(***************************************************************************)
RenderTierAssign(file, id, event) ==
  IF Editable(file, id) /\ JobOfId(file, id).guard = NoGuard
  THEN WithJob(file, id, [JobOfId(file, id) EXCEPT !.guard = Only(event)])
  ELSE Refuse(file)

RenderShiftLeft(file, id) ==
  IF Editable(file, id) /\ JobOfId(file, id).guard.kind \in {"only", "not"}
  THEN WithJob(file, id, [JobOfId(file, id) EXCEPT !.guard = NoGuard])
  ELSE Refuse(file)

RenderQuarantine(file, id) ==
  IF Editable(file, id) /\ ~JobOfId(file, id).tolerant
  THEN WithJob(file, id, [JobOfId(file, id) EXCEPT !.tolerant = TRUE])
  ELSE Refuse(file)

RenderTimeout(file, id) ==
  IF Editable(file, id) /\ ~JobOfId(file, id).timeout
  THEN WithJob(file, id, [JobOfId(file, id) EXCEPT !.timeout = TRUE])
  ELSE Refuse(file)

RenderRunnerRoute(file, id) ==
  IF Editable(file, id) /\ JobOfId(file, id).runsOn = "label"
  THEN WithJob(file, id, JobOfId(file, id))
  ELSE Refuse(file)

StripNeedsRef(jobs, id) == [k \in DOMAIN jobs |-> [jobs[k] EXCEPT !.needs = @ \ {id}]]

RenderRemoveCheck(file, id) ==
  IF id \in JobIds(file)
  THEN Accept([file EXCEPT !.jobs = StripNeedsRef(RemoveAt(@, CHOOSE k \in DOMAIN @ : @[k].id = id), id)])
  ELSE Refuse(file)

AddConcurrency(file) ==
  IF file.parses /\ ~file.concurrency THEN Accept([file EXCEPT !.concurrency = TRUE]) ELSE Refuse(file)

ApplyMutation(file, m) ==
  CASE m.op = "timeout"     -> RenderTimeout(file, m.job)
    [] m.op = "runner"      -> RenderRunnerRoute(file, m.job)
    [] m.op = "concurrency" -> AddConcurrency(file)
    [] m.op = "shift-left"  -> RenderShiftLeft(file, m.job)
    [] m.op = "remove"      -> RenderRemoveCheck(file, m.job)

(***************************************************************************)
(* Legality.                                                               *)
(***************************************************************************)
RequiredStatically(model) == {c \in model.checks : model.meta[c].required}
RequiredGateChecks(model, live) == RequiredStatically(model) \cup live

HasCell(model, check, tier) == <<check, tier>> \in DOMAIN model.cells

\* Does the check still run somewhere after the move?
RunsAfter(model, move) ==
  \/ move.to # Nil
  \/ \E t \in DOMAIN Tiers \ {move.from} :
       HasCell(model, move.check, t) /\ model.cells[<<move.check, t>>].runs

\* A required check may not leave the tier where it gates the merge, nor stop
\* running altogether.
ValidateTierChange(model, move, live) ==
  move.check \in RequiredGateChecks(model, live) =>
    /\ ~ /\ HasCell(model, move.check, move.from) /\ model.cells[<<move.check, move.from>>].gates
         /\ Tiers[move.from] = "merge_group"
    /\ RunsAfter(model, move)

\* The required checks of the baseline that the candidate no longer has.
LostGates(baseline, candidate) == RequiredStatically(baseline) \ RequiredStatically(candidate)

\* The static set against the live branch rules; Unreadable when they cannot be read.
ReconcileRuleset(model, readable, live) ==
  [readable |-> readable,
   missing  |-> IF readable THEN live \ RequiredStatically(model) ELSE {},
   extra    |-> IF readable THEN RequiredStatically(model) \ live ELSE {},
   inSync   |-> readable /\ live = RequiredStatically(model)]

(***************************************************************************)
(* Simulation of tier moves: [check, from, to], to = Nil for a removal. *)
(***************************************************************************)
MinutesAt(model, check, tier) ==
  LET key == <<check, Tiers[tier]>>
  IN IF tier \in DOMAIN Tiers /\ key \in DOMAIN model.observed THEN model.observed[key].minutes ELSE 0
RunsSeen(model, check, tier) ==
  IF tier \in DOMAIN Tiers THEN ObservedRuns(model.observed, check, Tiers[tier]) ELSE 0

SumOverTiers(f(_)) == FoldSet(LAMBDA t, s : f(t) + s, 0, DOMAIN Tiers)
TierRunScale(model, tier) == FoldSet(LAMBDA c, m : IF RunsSeen(model, c, tier) > m THEN RunsSeen(model, c, tier) ELSE m,
                                     0, model.checks)

\* Minutes a run of the check takes, over all tiers, times n (rounded).
MinutesFor(model, check, n) ==
  LET runs    == SumOverTiers(LAMBDA t : RunsSeen(model, check, t))
      minutes == SumOverTiers(LAMBDA t : MinutesAt(model, check, t))
  IN IF runs = 0 THEN 0 ELSE (2 * minutes * n + runs) \div (2 * runs)

DirectionOf(from, to) ==
  LET rank == [pr |-> 1, queue |-> 2, main |-> 3, nightly |-> 4]
  IN CASE to = Nil                     -> "remove"
       [] to # Nil /\ (from \notin DOMAIN rank \/ to \notin DOMAIN rank \/ from = to) -> "none"
       [] OTHER                           -> IF rank[to] > rank[from] THEN "demote" ELSE "promote"

SimulateTierMove(model, move, live) ==
  LET gates(t)  == HasCell(model, move.check, t) /\ model.cells[<<move.check, t>>].gates
      estimated == move.to # Nil /\ <<move.check, Tiers[move.to]>> \notin DOMAIN model.observed
      added     == CASE move.to = Nil -> 0
                     [] move.to # Nil /\ estimated ->
                          MinutesFor(model, move.check, TierRunScale(model, move.to))
                     [] OTHER -> MinutesAt(model, move.check, move.to)
      samples   == {RunsSeen(model, move.check, t) : t \in {move.from, move.to} \ {Nil}} \ {0}
      thinnest  == IF samples = {} THEN 0 ELSE Min(samples)
  IN [cost       |-> added - MinutesAt(model, move.check, move.from),
      lost       |-> {t \in {move.from} : gates(t)},
      gained     |-> {t \in {move.to} \ {Nil} : ~gates(t)},
      confidence |-> CASE estimated \/ thinnest < 10 -> "low"
                       [] ~estimated /\ thinnest \in 10 .. 49 -> "medium"
                       [] OTHER -> "high",
      direction  |-> DirectionOf(move.from, move.to),
      legal      |-> ValidateTierChange(model, move, live)]

\* Where every check runs once all moves are made, in order.
RunsAfterPlan(model, moves) ==
  FoldLeft(LAMBDA runs, m : (runs \ {<<m.check, m.from>>})
                              \cup (IF m.to = Nil THEN {} ELSE {<<m.check, m.to>>}),
           {k \in DOMAIN model.cells : model.cells[k].runs}, moves)

\* Variant (not the code): a plan is as legal as each of its moves.
SimulatePlanEach(model, moves, live) ==
  [cost  |-> 0, legal |-> \A k \in DOMAIN moves : ValidateTierChange(model, moves[k], live)]

\* A plan is not the conjunction of its moves: what they leave together is
\* checked again.
SimulatePlan(model, moves, live) ==
  LET results == [k \in DOMAIN moves |-> SimulateTierMove(model, moves[k], live)]
      after   == RunsAfterPlan(model, moves)
  IN [cost  |-> FoldLeft(LAMBDA sum, r : sum + r.cost, 0, results),
      legal |-> /\ \A k \in DOMAIN moves : results[k].legal
                /\ \A c \in RequiredGateChecks(model, live) : \E key \in after : key[1] = c]

(***************************************************************************)
(* Policies over the matrix.                                               *)
(***************************************************************************)
EvaluatePolicies(model, rules, live) ==
  LET gating(c) == {t \in DOMAIN Tiers : model.cells[<<c, t>>].gates}
      runsOnPr(c) == c \in model.checks /\ model.cells[<<c, "pr">>].runs
      breaks(r, c) ==
        \/ r.kind = "max-tiers-per-check" /\ c \in model.checks /\ Cardinality(gating(c)) > r.max
        \/ r.kind = "required-gate-runs-on-pr" /\ c \in RequiredGateChecks(model, live) /\ ~runsOnPr(c)
  IN {v \in rules \X (model.checks \cup live) : breaks(v[1], v[2])}

(***************************************************************************)
(* The candidate a list of mutations projects to.  An id may name a job of *)
(* several files: the file is one that anchors a check of the model there. *)
(***************************************************************************)
FilesForMutation(model, m) ==
  IF m.op = "concurrency" THEN {Rollup}
  ELSE {a.file : a \in {a \in UNION {model.meta[c].at : c \in model.checks} : a.job = m.job}}

TouchesLowConfidence(model, mutations) ==
  \E c \in model.checks : /\ model.meta[c].low
                          /\ \E a \in model.meta[c].at, m \in Range(mutations) :
                               m.op # "concurrency" /\ a.job = m.job

\* Every mutation resolved by `place`, applied in order to the files of the base.
Overrides(repo, place, mutations) ==
  LET after[k \in 0 .. Len(mutations)] ==
        IF k = 0 THEN [ok |-> TRUE, files |-> <<>>]
        ELSE LET acc  == after[k - 1]
                 f    == place[k]
                 text == IF f \in DOMAIN acc.files THEN acc.files[f] ELSE repo[f]
                 edit == ApplyMutation(text, mutations[k])
             IN [ok    |-> acc.ok /\ edit.ok,
                 files |-> [g \in DOMAIN acc.files \cup {f} |->
                              IF g = f THEN edit.file ELSE acc.files[g]]]
  IN after[Len(mutations)]

Placements(model, mutations) ==
  {place \in [DOMAIN mutations -> UNION {FilesForMutation(model, m) : m \in Range(mutations)}] :
     \A k \in DOMAIN mutations : place[k] \in FilesForMutation(model, mutations[k])}

Overlay(repo, files) ==
  [f \in DOMAIN repo \cup DOMAIN files |-> IF f \in DOMAIN files THEN files[f] ELSE repo[f]]

\* The candidate is derived anew from the mutated files, and validated there:
\* never over the list of mutations.
ProjectCandidate(repo, unreadable, conditional, baseline, place, mutations) ==
  LET edited    == Overrides(repo, place, mutations)
      found     == \A k \in DOMAIN mutations : place[k] \in DOMAIN repo \ unreadable
      candidate == ComputeProtectionMap(Overlay(repo, edited.files), unreadable \ DOMAIN edited.files,
                                        conditional, baseline.observed)
      derivable == Derivable(Overlay(repo, edited.files), unreadable \ DOMAIN edited.files)
  IN IF found /\ edited.ok /\ derivable
     THEN [ok |-> TRUE, files |-> edited.files, lost |-> LostGates(baseline, candidate),
           low |-> TouchesLowConfidence(baseline, mutations)]
     ELSE [ok |-> FALSE, files |-> <<>>, lost |-> {}, low |-> FALSE]

\* The free-form edit of one file of the pipeline.
ProjectRawYaml(repo, unreadable, conditional, baseline, file, text) ==
  LET allowed   == {a.file : a \in UNION {baseline.meta[c].at : c \in baseline.checks}}
      files     == Overlay(repo, file :> text)
      candidate == ComputeProtectionMap(files, unreadable \ {file}, conditional, baseline.observed)
  IN IF file \in allowed /\ Derivable(files, unreadable \ {file})
     THEN [ok |-> TRUE, files |-> file :> text, lost |-> LostGates(baseline, candidate), low |-> FALSE]
     ELSE [ok |-> FALSE, files |-> <<>>, lost |-> {}, low |-> FALSE]

\* What applyCandidate lets through to a pull request.
Applicable(candidate) ==
  candidate.ok /\ candidate.lost = {} /\ ~candidate.low /\ DOMAIN candidate.files # {}
=============================================================================
