------------------------------ MODULE MergeQueue ------------------------------
(***************************************************************************)
(* What the board makes of a merge queue: which train an entry rides, its  *)
(* progress and estimate (src/server/estimator/queue.ts), the view of the  *)
(* queue (buildQueueView in src/server/poller.ts) and its health           *)
(* (src/server/estimator/queue-health.ts).                                 *)
(*                                                                         *)
(* A queue is a set of entries [pr, pos, state, oid] with distinct         *)
(* positions; oid is the head commit of the group being built, or NoOid.   *)
(* groups maps an oid to the progress of its build.                        *)
(***************************************************************************)
EXTENDS CheckRollup

NoOid == "no oid"
DefaultGroupSecs == 900

Building(e)     == e.state = "AWAITING_CHECKS" /\ e.oid # NoOid
Unmergeable(e)  == e.state = "UNMERGEABLE"
EntriesOf(Q, pr) == {e \in Q : e.pr = pr}
Trains(Q)       == {e.oid : e \in {d \in Q : Building(d)}}
\* Where the batch of a train ends: its last entry with that commit.
TrainEnd(Q, oid) == Max({e.pos : e \in {d \in Q : Building(d) /\ d.oid = oid}})

\* Variant (not the code): the range of a train excludes its last position.
CoveringStrict(Q, me) ==
  LET reaching == {oid \in Trains(Q) : me.pos < TrainEnd(Q, oid)}
  IN {oid \in reaching : \A o \in reaching : TrainEnd(Q, oid) <= TrainEnd(Q, o)}

\* The first train whose batch (previous end, own end] reaches the entry, as a
\* set of at most one; entries without a commit of their own ride it as well.
Covering(Q, me) ==
  LET reaching == {oid \in Trains(Q) : me.pos <= TrainEnd(Q, oid)}
  IN CASE Unmergeable(me) -> {}
       [] Building(me)    -> {me.oid}
       [] OTHER -> {oid \in reaching : \A o \in reaching : TrainEnd(Q, oid) <= TrainEnd(Q, o)}

\* Entries ahead that will still need runner capacity.
Ahead(Q, me) ==
  {e \in Q : e.pos < me.pos /\ e.state \notin {"MERGEABLE", "UNMERGEABLE"}}
Deepest(S) == CHOOSE e \in S : \A d \in S : d.pos <= e.pos
\* The remaining time of the last train ahead.
TrainEta(e, groups, run) ==
  IF e.oid \in DOMAIN groups /\ groups[e.oid].eta # Null THEN groups[e.oid].eta ELSE run
CeilDiv(n, d) == (n + d - 1) \div d

TrainsNeeded(queuedAhead, batch) == CeilDiv(queuedAhead + 1, batch)

QueueStage(percent, eta, overdue, ahead, failed, unmergeable) ==
  [percent |-> percent, eta |-> eta, overdue |-> overdue, ahead |-> ahead,
   failed |-> failed, unmergeable |-> unmergeable]

\* medianGroup is Null when no train was ever observed.
StageInQueue(Q, pr, groups, medianGroup, batch) ==
  LET me       == CHOOSE e \in EntriesOf(Q, pr) : TRUE
      run      == IF medianGroup = Null THEN DefaultGroupSecs ELSE medianGroup
      ahead    == Ahead(Q, me)
      building == {e \in ahead : Building(e)}
      current  == IF building = {} THEN 0 ELSE TrainEta(Deepest(building), groups, run)
      waiting  == TrainsNeeded(Cardinality(ahead) - Cardinality(building), batch) * run
      train    == CHOOSE oid \in Covering(Q, me) : TRUE
  IN CASE EntriesOf(Q, pr) = {} -> QueueStage(Null, Null, FALSE, 0, FALSE, FALSE)
       [] EntriesOf(Q, pr) # {} /\ Unmergeable(me) ->
            QueueStage(Null, Null, FALSE, 0, FALSE, TRUE)
       [] EntriesOf(Q, pr) # {} /\ ~Unmergeable(me) /\ Covering(Q, me) # {} ->
            IF train \in DOMAIN groups
            THEN QueueStage(groups[train].percent, groups[train].eta, groups[train].overdue,
                            0, groups[train].failed, FALSE)
            ELSE QueueStage(Null, run, FALSE, 0, FALSE, FALSE)
       [] OTHER -> QueueStage(Null, current + waiting, FALSE, Cardinality(ahead), FALSE, FALSE)

(***************************************************************************)
(* The estimate over several trains for an entry that rides none yet:      *)
(* medians and ninetieth percentiles of the observed train durations, and  *)
(* one extra train at the ninetieth when ejections are common.             *)
(***************************************************************************)
\* More than 15 percent of at least five observed trains were ejected.
AssumesEjects(runs, ejects) ==
  runs + ejects >= 5 /\ 100 * ejects > 15 * (runs + ejects)

\* samples is an ascending sequence of positive durations; Null without one, and
\* for an entry that is building, covered, mergeable or unmergeable.
MergeEta(Q, me, groups, medianGroup, batch, samples, assumesEjects) ==
  LET ahead    == Ahead(Q, me)
      building == {e \in ahead : Building(e)}
      current  == IF building = {} THEN 0
                  ELSE TrainEta(Deepest(building), groups, Maximum({medianGroup}, 0))
      trains   == TrainsNeeded(Cardinality(ahead) - Cardinality(building), Max({1, batch}))
      extra    == IF assumesEjects THEN 1 ELSE 0
  IN IF me.state \in {"MERGEABLE", "UNMERGEABLE"} \/ Covering(Q, me) # {} \/ samples = <<>>
     THEN [p50 |-> Null, p90 |-> Null, trainsAhead |-> 0]
     ELSE [p50 |-> Max({current, 0}) + trains * LowerMedian(samples),
           p90 |-> Max({current, 0}) + (trains + extra) * Ninetieth(samples),
           trainsAhead |-> trains - (IF building = {} THEN 1 ELSE 0)]

(***************************************************************************)
(* The view of the queue.  dirty holds the pull requests whose own snapshot *)
(* conflicts with the base.                                                *)
(***************************************************************************)
Riders(Q, oid) ==
  LET before == {TrainEnd(Q, o) : o \in Trains(Q)}
      from   == Maximum({p \in before : p < TrainEnd(Q, oid)}, 0)
  IN {e.pr : e \in {d \in Q : ~Unmergeable(d) /\ d.pos > from /\ d.pos <= TrainEnd(Q, oid)}}

WaitingIn(Q) ==
  LET last == Maximum({TrainEnd(Q, oid) : oid \in Trains(Q)}, 0)
  IN {e.pr : e \in {d \in Q : ~Unmergeable(d) /\ d.pos > last}}

Conflicting(Q, dirty) == {e.pr : e \in {d \in Q : Unmergeable(d)}} \cap dirty
BlockedIn(Q, dirty)   == {e.pr : e \in {d \in Q : Unmergeable(d)}} \ dirty

\* Who poisons the queue: the first conflicting entry, else the first one that
\* cannot merge; Null when there is none.
Culprit(Q, dirty) ==
  LET bad   == {e \in Q : Unmergeable(e)}
      first == {e \in bad : e.pr \in dirty}
      front == CHOOSE e \in (IF first = {} THEN bad ELSE first) :
                 \A d \in (IF first = {} THEN bad ELSE first) : e.pos <= d.pos
  IN IF bad = {} THEN Null ELSE front.pr

(***************************************************************************)
(* Health.  One telemetry record per train: age of its run (Null when      *)
(* unknown), whether any check has left the queue, how many checks wait    *)
(* for a runner and the longest such wait (Null when none is measurable).  *)
(* The code never learns when a run started.                               *)
(***************************************************************************)
StallMinAge == 300
BacklogMinWait == 60

TelemetryOf(C, graph, now) ==
  LET waits == {w \in {ClassifyWait(c, C, graph, now) : c \in C} : w.kind = "runner"}
      created == {c.created : c \in C} \ {0}
  IN [age        |-> IF created = {} THEN Null ELSE now - Min(created),
      started    |-> \E c \in C : c.status \in {"IN_PROGRESS", "COMPLETED"},
      waiting    |-> waits # {},
      longest    |-> Maximum({w.secs : w \in waits}, Null)]

Stalled(t)    == ~t.started /\ t.age # Null /\ t.age > StallMinAge
Backlogged(t) == t.waiting /\ (t.longest = Null \/ t.longest >= BacklogMinWait)

ClassifyQueueHealth(T) ==
  CASE \E t \in T : Stalled(t)    -> "dispatch-stall"
    [] (\A t \in T : ~Stalled(t)) /\ (\E t \in T : Backlogged(t)) -> "cap-backlog"
    [] OTHER -> "healthy"

\* The wall-clock time of a train, learned once from a clean finished build:
\* {} when there is nothing to learn.
CleanBuild(C) == C # {} /\ \A c \in C : Completed(c) /\ c.conclusion \in OkConclusions
GroupRunSample(C) ==
  LET starts == {c.started : c \in C} \ {0}
      ends   == {c.completed : c \in C} \ {0}
  IN IF CleanBuild(C) /\ starts # {} /\ ends # {} THEN {Max(ends) - Min(starts)} ELSE {}
=============================================================================
