--------------------------- MODULE MCPollerPages ---------------------------
(***************************************************************************)
(* Sweeps of an owner with more open pull requests than its pages hold, an *)
(* owner without any, and the detail and queue cycles beside them.  The    *)
(* poller starts when pull requests are in the merge queue already.        *)
(***************************************************************************)
EXTENDS MCPollerIngest
CONSTANTS MaxSweeps, MaxDetails, MaxQueues, \* cycles of each kind
          MaxMoves,                         \* moves of pull requests on GitHub
          MaxToggles                        \* exclusions by the operator
VARIABLE done  \* how much of each has happened

Bound == [sweeps |-> MaxSweeps, details |-> MaxDetails, queues |-> MaxQueues,
          moves |-> MaxMoves, toggles |-> MaxToggles]

PagesInit ==
  /\ gh = [p \in Prs |-> IF p = p2 THEN "unborn" ELSE "queued"]
  /\ prs = [p \in Prs |-> "absent"]
  /\ stages = [p \in Prs |-> "none"]
  /\ entries = {} /\ enqueuedAt = {} /\ firstGreen = {}
  /\ rows = {} /\ window = {} /\ fresh = {} /\ exclude = {}
  /\ sweep = SweepIdle /\ detail = DetailIdle /\ queue = QueueIdle
  /\ ran = {} /\ skipped = {}
  /\ done = [k \in DOMAIN Bound |-> 0]

Begins(cycle, next) == IF cycle.pc = "idle" /\ next.pc # "idle" THEN 1 ELSE 0
Changes(v, w) == IF v # w THEN 1 ELSE 0

PagesNext ==
  /\ Next
  /\ done' = [sweeps  |-> done.sweeps + Begins(sweep, sweep'),
              details |-> done.details + Begins(detail, detail'),
              queues  |-> done.queues + Begins(queue, queue'),
              moves   |-> done.moves + Changes(gh, gh'),
              toggles |-> done.toggles + Changes(exclude, exclude')]
  /\ \A k \in DOMAIN Bound : done'[k] <= Bound[k]

PagesSpec == PagesInit /\ [][PagesNext]_<<vars, done>>

\* Without the stamps and the history variables, which no other variable's next
\* value depends on.
PagesView == <<gh, prs, stages, entries, rows, window, fresh, exclude, sweep, detail, queue, done>>
=============================================================================
