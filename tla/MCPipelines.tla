----------------------------- MODULE MCPipelines -----------------------------
(***************************************************************************)
(* Example pipelines: a rollup whose needs run through a conditional job, *)
(* a reusable workflow with a job of a rollup job's id, and a scheduled    *)
(* entry.                                                                  *)
(***************************************************************************)
EXTENDS PipelineEdits, TLC

ConditionalJobs == {"affected"}
PipelineJob(id, needs, guard, uses) ==
  [id |-> id, name |-> Nil, needs |-> needs, guard |-> guard, uses |-> uses, matrix |-> 0,
   body |-> TRUE, runsOn |-> "label", timeout |-> FALSE, tolerant |-> FALSE]
File(on, jobs) == [parses |-> TRUE, on |-> on, jobs |-> jobs, concurrency |-> FALSE]
RepoFiles(rollupNeeds, affectedNeeds, guard, uses) ==
  "ci.yml" :> File({"pull_request", "merge_group", "push"},
                   <<PipelineJob("affected", affectedNeeds, NoGuard, Nil),
                     PipelineJob("unit", {}, guard, Nil),
                     PipelineJob("checks", {}, NoGuard, uses),
                     PipelineJob("ci", rollupNeeds, NoGuard, Nil)>>) @@
  "_checks.yml" :> File({"workflow_call"}, <<PipelineJob("unit", {}, NoGuard, Nil),
                                             PipelineJob("style", {}, Only("push"), Nil)>>) @@
  "nightly.yml" :> File({"schedule"}, <<PipelineJob("all", {}, NoGuard, "_checks.yml")>>)
=============================================================================
