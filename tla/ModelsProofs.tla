---------------------------- MODULE ModelsProofs ----------------------------
(***************************************************************************)
(* Proofs about the pure models and the commits of MCModels.  The commits  *)
(* are proved for any set of shards, of generations and of times; the      *)
(* operators for any workflow file, statistics, queue and plan of moves:   *)
(* the theorems about those name what they take for granted of the input.  *)
(***************************************************************************)
EXTENDS MCModels, FiniteSetTheorems, TLAPS

(***************************************************************************)
(* Numbers.                                                                *)
(***************************************************************************)
\* The order of the numbers, as a set of pairs.
Below == {ss \in Nat \X Nat : ss[1] < ss[2]}

\* The smallest of a set of numbers is one of them.
LEMMA HasMin ==
  ASSUME NEW S, S \subseteq Nat, S # {}
  PROVE  Min(S) \in S /\ \A x \in S : Min(S) <= x
<1>1. IsWellFoundedOn(Below, Nat)
  BY NatLessThanWellFounded DEF OpToRel, Below
<1>2. \E b \in S : \A c \in S : ~ (<<c, b>> \in Below)
  BY <1>1, WFMin
<1>3. \A c, b \in Nat : c < b => <<c, b>> \in Below
  <2>. TAKE c, b \in Nat
  <2>1. <<c, b>>[1] = c /\ <<c, b>>[2] = b /\ <<c, b>> \in Nat \X Nat
    OBVIOUS
  <2>. QED BY <2>1 DEF Below
<1>4. \A b, c \in S : <<c, b>> \notin Below => b <= c
  BY <1>3
<1>. QED BY <1>2, <1>4 DEF Min

\* The largest of a bounded set of numbers is one of them.
LEMMA HasMax ==
  ASSUME NEW S, S \subseteq Nat, S # {}, NEW bound \in Nat, \A x \in S : x <= bound
  PROVE  Max(S) \in S /\ \A x \in S : x <= Max(S)
<1>. DEFINE B == {b \in Nat : \A x \in S : x <= b}
            b == Min(B)
<1>1. B \subseteq Nat /\ B # {}
  OBVIOUS
<1>2. b \in B /\ \A c \in B : b <= c
  BY <1>1, HasMin
<1>3. b \in Nat /\ \A x \in S : x <= b
  BY <1>2
<1>4. b \in S
  <2>. SUFFICES ASSUME b \notin S PROVE FALSE
    OBVIOUS
  <2>0. PICK x \in S : TRUE
    OBVIOUS
  <2>. HIDE DEF b
  <2>1. b - 1 \in Nat /\ \A y \in S : y <= b - 1
    BY <2>0, <1>3
  <2>2. b - 1 \in B
    BY <2>1
  <2>. QED BY <2>2, <1>2, <1>3
<1>. HIDE DEF b
<1>. QED BY <1>3, <1>4 DEF Max

\* The larger of two numbers is one of them, and no less than the second.
LEMMA LargerOfTwo ==
  ASSUME NEW a \in Int, NEW b \in Int
  PROVE  Max({a, b}) \in {a, b} /\ Max({a, b}) >= b
<1>1. \E x \in {a, b} : \A y \in {a, b} : x >= y
  <2>1. CASE a >= b
    BY <2>1
  <2>2. CASE b >= a
    BY <2>2
  <2>. QED BY <2>1, <2>2
<1>2. Max({a, b}) \in {a, b} /\ \A y \in {a, b} : Max({a, b}) >= y
  BY <1>1 DEF Max
<1>. QED BY <1>2

\* Dividing by the same number keeps an order.
LEMMA DivGrows ==
  ASSUME NEW x \in Nat, NEW y \in Nat, x <= y, NEW b \in Nat \ {0}
  PROVE  x \div b \in Nat /\ y \div b \in Nat /\ x \div b <= y \div b
<1>1. x \div b \in Int /\ y \div b \in Int
  OBVIOUS
<1>2. b * (x \div b) <= x /\ x < b * (x \div b) + b
  OBVIOUS
<1>3. b * (y \div b) <= y /\ y < b * (y \div b) + b
  OBVIOUS
<1>4. \A p, q \in Int : b * p <= x /\ y < b * q + b => p <= q
  <2>. SUFFICES ASSUME NEW p \in Int, NEW q \in Int, b * p <= x, y < b * q + b, ~ (p <= q) PROVE FALSE
    OBVIOUS
  <2>1. p - q - 1 \in Nat
    OBVIOUS
  <2>2. b * (p - q - 1) \in Nat
    BY <2>1
  <2>3. b * p = b * q + b + b * (p - q - 1)
    OBVIOUS
  <2>4. b * p \in Int /\ b * q \in Int
    OBVIOUS
  <2>. QED BY <2>2, <2>3, <2>4
<1>5. x \div b >= 0 /\ y \div b >= 0
  BY SMT
<1>. QED BY <1>1, <1>2, <1>3, <1>4, <1>5

(***************************************************************************)
(* A commit and its check runs.                                            *)
(***************************************************************************)
Ci == {c \in listed : c.workflow = "CI"}
NameOf(raw) == IF raw = "ci" THEN CiName ELSE TestName
Conclusions == {"SUCCESS", "FAILURE", "CANCELLED"}

\* The check runs of the workflow, as CheckOf lists them and Starts and Completes move them on.
CiChecks ==
  [raw : Jobs, name : {TestName, CiName}, workflow : {"CI"}, event : {"pull_request"},
   run : Nat \ {0}, id : Nat, attempt : Nat \ {0}, status : {"QUEUED", "IN_PROGRESS", "COMPLETED"},
   conclusion : Conclusions \cup {NoConclusion}, started : Nat, completed : Nat,
   created : {1}, required : {FALSE}]

\* A check run tells how far it is, and when it got there.
IsTimely(c, now) ==
  /\ c.name = NameOf(c.raw)
  /\ c.status = "QUEUED" <=> c.started = 0
  /\ c.status = "COMPLETED" <=> c.conclusion \in Conclusions
  /\ c.status = "COMPLETED" <=> c.completed # 0
  /\ c.started <= now /\ c.completed <= now

\* A list of them: it is bounded, and a job appears once in an attempt of a run.
AreTimely(C, now) == \A c \in C : c \in CiChecks /\ IsTimely(c, now)
AreCounted(C)     == \E n \in Nat : \A c \in C : c.run <= n /\ c.attempt <= n
AreKeyed(C)       == \A c, d \in C : c.raw = d.raw /\ c.run = d.run /\ c.attempt = d.attempt => c = d
\* Only the last attempt of a run may be under way.
OldAreDone(C) == \A c, d \in C : c.run = d.run /\ c.attempt < d.attempt => Completed(c)
\* The rollup job of an attempt is listed once the tests of that attempt have ended.
RollupIsLast(C) ==
  \A c, d \in C :
    c.run = d.run /\ c.raw = "ci" /\ d.raw \in Shards /\ d.attempt <= c.attempt => Completed(d)
\* A run lists the whole matrix at once.
MatrixIsWhole(C) == \A c \in C, s \in Shards : \E d \in C : d.run = c.run /\ d.raw = s

\* What holds of the runs of the workflow at any time.
AreRuns(C, now) ==
  /\ AreTimely(C, now) /\ AreCounted(C) /\ AreKeyed(C)
  /\ OldAreDone(C) /\ RollupIsLast(C) /\ MatrixIsWhole(C)
\* The tests of a run's first attempt, and when the rollup job that waits for them was queued.
FirstTests(C, run) == {d \in C : d.run = run /\ d.attempt = 1 /\ d.raw \in Shards}
AreQueued(C, queued) ==
  /\ DOMAIN queued = {KeyOf(c) : c \in C}
  /\ \A c \in C : c.raw = "ci" /\ c.attempt = 1 =>
       /\ \E d \in FirstTests(C, c.run) : d.completed = queued[KeyOf(c)]
       /\ \A d \in FirstTests(C, c.run) : d.completed <= queued[KeyOf(c)]

\* The inductive invariant of a commit.
CommitInv ==
  /\ clock \in Nat \ {0} /\ listed \subseteq Ci \cup {GateFailed}
  /\ AreRuns(Ci, clock) /\ AreQueued(Ci, queuedAt)

\* One check run may get further.
LEMMA RunsMove ==
  ASSUME NEW C, NEW now, AreRuns(C, now), NEW c \in C, NEW d \in CiChecks, IsTimely(d, now),
         KeyOf(d) = KeyOf(c), ~Completed(c)
  PROVE  AreRuns((C \ {c}) \cup {d}, now)
<1>. DEFINE D == (C \ {c}) \cup {d}
<1>1. d.raw = c.raw /\ d.run = c.run /\ d.attempt = c.attempt
  BY DEF KeyOf
<1>2. AreTimely(D, now)
  BY DEF AreRuns, AreTimely
<1>3. AreCounted(D)
  BY <1>1 DEF AreRuns, AreCounted
<1>4. AreKeyed(D)
  BY <1>1 DEF AreRuns, AreKeyed
<1>5. OldAreDone(D)
  BY <1>1 DEF AreRuns, OldAreDone
<1>6. RollupIsLast(D)
  BY <1>1 DEF AreRuns, RollupIsLast
<1>7. MatrixIsWhole(D)
  BY <1>1 DEF AreRuns, MatrixIsWhole
<1>. QED BY <1>2, <1>3, <1>4, <1>5, <1>6, <1>7 DEF AreRuns

\* New check runs may be listed: of one attempt, when those before are done.
LEMMA RunsGrow ==
  ASSUME NEW C, NEW now, AreRuns(C, now), NEW new, AreTimely(new, now), AreCounted(new),
         \A c, d \in new : c.run = d.run /\ c.attempt = d.attempt /\ (c.raw = d.raw => c = d) /\ (c.raw = "ci" => c = d),
         \A c \in C, d \in new : c.run = d.run =>
           c.attempt <= d.attempt /\ (c.raw = d.raw => c.attempt # d.attempt) /\ (c.attempt # d.attempt => Completed(c)),
         \A c \in C, d \in new : c.run = d.run /\ c.raw = "ci" /\ d.raw \in Shards => c.attempt < d.attempt,
         \A c \in new, d \in C : c.run = d.run /\ c.raw = "ci" /\ d.raw \in Shards => Completed(d),
         \A c \in new, s \in Shards : \E d \in C \cup new : d.run = c.run /\ d.raw = s
  PROVE  AreRuns(C \cup new, now)
<1>. DEFINE D == C \cup new
<1>1. AreTimely(D, now)
  BY DEF AreRuns, AreTimely
<1>2. \A c \in D : c.attempt \in Nat /\ c.run \in Nat
  BY <1>1 DEF AreTimely, CiChecks
<1>3. AreCounted(D)
  <2>1. PICK n \in Nat : \A c \in C : c.run <= n /\ c.attempt <= n
    BY DEF AreRuns, AreCounted
  <2>2. PICK m \in Nat : \A c \in new : c.run <= m /\ c.attempt <= m
    BY DEF AreCounted
  <2>3. n + m \in Nat /\ \A c \in D : c.run <= n + m /\ c.attempt <= n + m
    BY <2>1, <2>2, <1>2
  <2>. QED BY <2>3 DEF AreCounted
<1>4. AreKeyed(D)
  BY <1>2 DEF AreRuns, AreKeyed
<1>5. OldAreDone(D)
  BY <1>2 DEF AreRuns, OldAreDone
<1>6. RollupIsLast(D)
  <2>. SUFFICES ASSUME NEW c \in D, NEW d \in D, c.run = d.run, c.raw = "ci", d.raw \in Shards,
                       d.attempt <= c.attempt
                PROVE  Completed(d)
    BY DEF RollupIsLast
  <2>1. c.raw # d.raw
    BY CommitAssumption
  <2>2. CASE c \in C /\ d \in C
    BY <2>2 DEF AreRuns, RollupIsLast
  <2>3. CASE c \in C /\ d \in new
    BY <2>3, <1>2
  <2>. QED BY <2>1, <2>2, <2>3
<1>7. MatrixIsWhole(D)
  BY DEF AreRuns, MatrixIsWhole
<1>. QED BY <1>1, <1>3, <1>4, <1>5, <1>6, <1>7 DEF AreRuns

\* The times of queueing outlive a step of one check run.
LEMMA QueueMoves ==
  ASSUME NEW C, NEW queued, AreQueued(C, queued), NEW c \in C, NEW d, KeyOf(d) = KeyOf(c),
         \/ d.completed = c.completed
         \/ \A e \in C : e.raw = "ci" /\ e.attempt = 1 => c \notin FirstTests(C, e.run)
  PROVE  AreQueued((C \ {c}) \cup {d}, queued)
<1>. DEFINE D == (C \ {c}) \cup {d}
<1>1. d.raw = c.raw /\ d.run = c.run /\ d.attempt = c.attempt
  BY DEF KeyOf
<1>2. {KeyOf(e) : e \in D} = {KeyOf(e) : e \in C}
  OBVIOUS
<1>3. ASSUME NEW e \in D, e.raw = "ci", e.attempt = 1
      PROVE  /\ \E x \in FirstTests(D, e.run) : x.completed = queued[KeyOf(e)]
             /\ \A x \in FirstTests(D, e.run) : x.completed <= queued[KeyOf(e)]
  <2>1. PICK e1 \in C : e1.raw = e.raw /\ e1.run = e.run /\ e1.attempt = e.attempt /\ KeyOf(e1) = KeyOf(e)
    BY <1>1, <1>3
  <2>2. /\ \E x \in FirstTests(C, e.run) : x.completed = queued[KeyOf(e)]
        /\ \A x \in FirstTests(C, e.run) : x.completed <= queued[KeyOf(e)]
    BY <1>3, <2>1 DEF AreQueued
  <2>3. CASE d.completed = c.completed
    BY <1>1, <2>2, <2>3 DEF FirstTests
  <2>4. CASE c \notin FirstTests(C, e.run)
    BY <1>1, <2>2, <2>4 DEF FirstTests
  <2>. QED BY <1>3, <2>1, <2>3, <2>4
<1>. QED BY <1>2, <1>3 DEF AreQueued

\* The times of queueing once new check runs are listed.
Queued(queued, new, now) ==
  [k \in DOMAIN queued \cup {KeyOf(c) : c \in new} |-> IF k \in DOMAIN queued THEN queued[k] ELSE now]

\* They also outlive the listing of tests, and of a rollup job the last test lets go.
LEMMA QueueGrows ==
  ASSUME NEW C, NEW queued, AreQueued(C, queued), NEW new, NEW now,
         \A c \in C, d \in new : KeyOf(c) # KeyOf(d),
         \A c \in C \cup new, d \in new : c.raw = "ci" /\ c.attempt = 1 => d \notin FirstTests(new, c.run),
         \A c \in new : c.raw = "ci" /\ c.attempt = 1 =>
           /\ \E d \in FirstTests(C, c.run) : d.completed = now
           /\ \A d \in FirstTests(C, c.run) : d.completed <= now
  PROVE  AreQueued(C \cup new, Queued(queued, new, now))
<1>. DEFINE more == Queued(queued, new, now)
<1>1. DOMAIN more = {KeyOf(c) : c \in C \cup new}
  BY DEF AreQueued, Queued
<1>2. \A c \in C : more[KeyOf(c)] = queued[KeyOf(c)]
  BY DEF AreQueued, Queued
<1>3. \A c \in new : more[KeyOf(c)] = now
  BY DEF AreQueued, Queued
<1>. HIDE DEF more
<1>4. \A c \in C \cup new : c.raw = "ci" /\ c.attempt = 1 => FirstTests(C \cup new, c.run) = FirstTests(C, c.run)
  BY DEF FirstTests
<1>. QED BY <1>1, <1>2, <1>3, <1>4 DEF AreQueued, more

\* The latest run is the one with the highest number.
LEMMA LatestIsLast ==
  ASSUME CommitInv
  PROVE  /\ LatestRun \in Nat
         /\ \A c \in Ci : c.run <= LatestRun
         /\ Ci # {} => \E c \in Ci : c.run = LatestRun
<1>. DEFINE R == {c.run : c \in Ci}
<1>1. R \subseteq Nat
  BY DEF CommitInv, AreRuns, AreTimely, CiChecks
<1>2. PICK n \in Nat : \A x \in R : x <= n
  BY DEF CommitInv, AreRuns, AreCounted
<1>3. LatestRun = IF R = {} THEN 0 ELSE Max(R)
  BY DEF LatestRun, Maximum, Ci
<1>. HIDE DEF R
<1>4. R # {} => Max(R) \in R /\ \A x \in R : x <= Max(R)
  BY <1>1, <1>2, HasMax
<1>. QED BY <1>1, <1>3, <1>4 DEF R

\* A new check run is queued.
LEMMA NewAreTimely ==
  ASSUME NEW job \in Jobs, NEW run \in Nat \ {0}, NEW attempt \in Nat \ {0}, NEW now \in Nat
  PROVE  LET c == CheckOf(job, run, attempt)
         IN /\ c \in CiChecks /\ IsTimely(c, now)
            /\ c.raw = job /\ c.run = run /\ c.attempt = attempt
  BY DEF CheckOf, CiChecks, IsTimely, NameOf, Conclusions, NoConclusion

\* The fields of a check run that count.
LEMMA CheckFields ==
  ASSUME NEW c \in CiChecks
  PROVE  c.raw \in Jobs /\ c.run \in Nat \ {0} /\ c.attempt \in Nat \ {0} /\ c.completed \in Nat
  BY DEF CiChecks

\* Of every job of a run there is a last attempt.
LEMMA LastAttempt ==
  ASSUME CommitInv, NEW d \in Ci
  PROVE  \E c \in Current(d.run) : c.raw = d.raw /\ d.attempt <= c.attempt
<1>. DEFINE E == {e \in Ci : e.raw = d.raw /\ e.run = d.run}
            A == {e.attempt : e \in E}
<1>0. \A e \in Ci : e.attempt \in Nat
  BY CheckFields DEF CommitInv, AreRuns, AreTimely
<1>1. A \subseteq Nat /\ A # {} /\ d.attempt \in A
  BY <1>0
<1>2. PICK n \in Nat : \A x \in A : x <= n
  BY DEF CommitInv, AreRuns, AreCounted
<1>3. Max(A) \in A /\ \A x \in A : x <= Max(A)
  BY <1>1, <1>2, HasMax
<1>4. PICK c \in E : c.attempt = Max(A)
  BY <1>3
<1>5. c.raw # "gate"
  <2>1. c \in Ci
    BY <1>4
  <2>2. c.raw \in Jobs
    BY <2>1 DEF CommitInv, AreRuns, AreTimely, CiChecks
  <2>. QED BY <2>2, CommitAssumption DEF Jobs
<1>6. GateFailed.raw = "gate"
  BY DEF GateFailed, CheckOf
<1>7. \A e \in listed : e.raw = c.raw /\ e.run = d.run => e \in E
  BY <1>4, <1>5, <1>6 DEF CommitInv
<1>. QED BY <1>1, <1>3, <1>4, <1>7 DEF Current, Ci

\* The invariant holds before the first run.
LEMMA CommitStart == CommitInit => CommitInv
<1>. SUFFICES ASSUME CommitInit PROVE CommitInv
  OBVIOUS
<1>1. Ci = {}
  BY DEF CommitInit, Ci, GateFailed, CheckOf
<1>2. clock = 1 /\ listed \subseteq {GateFailed}
  BY DEF CommitInit
<1>3. AreQueued({}, queuedAt)
  BY DEF CommitInit, AreQueued
<1>. QED BY <1>1, <1>2, <1>3 DEF CommitInv, AreRuns, AreTimely, AreCounted, AreKeyed, OldAreDone, RollupIsLast, MatrixIsWhole

\* The current jobs of the latest run are check runs of the workflow.
LEMMA CurrentIsListed ==
  ASSUME CommitInv, NEW run, NEW c \in Current(run)
  PROVE  /\ c \in Ci /\ c \in CiChecks /\ IsTimely(c, clock) /\ c.run = run
         /\ \A d \in Ci : d.raw = c.raw /\ d.run = run => d.attempt <= c.attempt
  BY DEF Current, Ci, CommitInv, AreRuns, AreTimely

\* A label or a re-open triggers a new run.
LEMMA TriggerStep == ASSUME CommitInv, Trigger PROVE CommitInv'
<1>. DEFINE new == {CheckOf(s, LatestRun + 1, 1) : s \in Shards}
<1>1. listed' = listed \cup new /\ clock' = clock
  BY DEF Trigger, Add
<1>2. LatestRun \in Nat /\ \A c \in Ci : c.run <= LatestRun
  BY LatestIsLast
<1>3. \A s \in Shards : LET d == CheckOf(s, LatestRun + 1, 1)
                        IN d \in CiChecks /\ IsTimely(d, clock) /\ d.raw = s /\ d.run = LatestRun + 1 /\ d.attempt = 1
  BY <1>2, NewAreTimely DEF Jobs, CommitInv
<1>4. Ci' = Ci \cup new
  <2>1. \A c \in new : c.workflow = "CI"
    BY DEF CheckOf
  <2>. QED BY <1>1, <2>1 DEF Ci
<1>5. AreTimely(new, clock)
  BY <1>3 DEF AreTimely
<1>6. AreCounted(new)
  BY <1>2, <1>3 DEF AreCounted
<1>7. \A c \in Ci : c.run \in Nat
  BY DEF CommitInv, AreRuns, AreTimely, CiChecks
<1>8. \A c \in Ci, d \in new : c.run # d.run
  BY <1>2, <1>3, <1>7
<1>9. \A c, d \in new : c.run = d.run /\ c.attempt = d.attempt /\ (c.raw = d.raw => c = d) /\ (c.raw = "ci" => c = d)
  BY <1>3, CommitAssumption
<1>10. \A c \in new, s \in Shards : \E d \in Ci \cup new : d.run = c.run /\ d.raw = s
  BY <1>3
<1>11. /\ queuedAt' = Queued(queuedAt, new, clock) /\ \A d \in new : d.raw # "ci"
  BY <1>3, CommitAssumption DEF Trigger, Add, Queued
<1>. HIDE DEF new
<1>12. AreRuns(Ci \cup new, clock)
  BY <1>5, <1>6, <1>8, <1>9, <1>10, RunsGrow DEF CommitInv
<1>13. AreQueued(Ci \cup new, queuedAt')
  <2>1. \A c \in Ci, d \in new : KeyOf(c) # KeyOf(d)
    BY <1>8 DEF KeyOf
  <2>2. \A c \in Ci \cup new, d \in new : c.raw = "ci" /\ c.attempt = 1 => d \notin FirstTests(new, c.run)
    BY <1>8, <1>11 DEF FirstTests
  <2>. QED BY <1>11, <2>1, <2>2, QueueGrows DEF CommitInv
<1>. QED BY <1>1, <1>4, <1>12, <1>13 DEF CommitInv

\* A runner takes a job.
LEMMA StartsStep == ASSUME CommitInv, NEW c \in Current(LatestRun), Starts(c) PROVE CommitInv'
<1>. DEFINE d == [c EXCEPT !.status = "IN_PROGRESS", !.started = clock]
<1>1. c \in Ci /\ c \in CiChecks /\ IsTimely(c, clock)
  BY CurrentIsListed
<1>2. listed' = (listed \ {c}) \cup {d} /\ clock' = clock /\ queuedAt' = queuedAt /\ c.status = "QUEUED"
  BY DEF Starts
<1>3. d \in CiChecks /\ IsTimely(d, clock) /\ KeyOf(d) = KeyOf(c) /\ d.completed = c.completed
  <2>1. clock \in Nat \ {0}
    BY DEF CommitInv
  <2>2. d \in CiChecks
    BY <1>1, <2>1 DEF CiChecks
  <2>3. /\ d.raw = c.raw /\ d.run = c.run /\ d.attempt = c.attempt /\ d.name = c.name
        /\ d.conclusion = c.conclusion /\ d.completed = c.completed
        /\ d.status = "IN_PROGRESS" /\ d.started = clock
    BY <1>1 DEF CiChecks
  <2>. QED BY <1>1, <1>2, <2>1, <2>2, <2>3 DEF IsTimely, KeyOf
<1>4. Ci' = (Ci \ {c}) \cup {d}
  BY <1>1, <1>2, <1>3 DEF Ci, CiChecks
<1>. HIDE DEF d
<1>5. AreRuns((Ci \ {c}) \cup {d}, clock)
  BY <1>1, <1>2, <1>3, RunsMove DEF CommitInv, Completed
<1>6. AreQueued((Ci \ {c}) \cup {d}, queuedAt)
  BY <1>1, <1>3, QueueMoves DEF CommitInv
<1>. QED BY <1>1, <1>2, <1>4, <1>5, <1>6 DEF CommitInv

\* Time passes.
LEMMA TickStep == ASSUME CommitInv, Tick PROVE CommitInv'
<1>1. listed' = listed /\ queuedAt' = queuedAt /\ Ci' = Ci /\ clock' = clock + 1
  BY DEF Tick, Ci
<1>2. AreTimely(Ci, clock + 1)
  <2>. SUFFICES ASSUME NEW c \in Ci PROVE c \in CiChecks /\ IsTimely(c, clock + 1)
    BY DEF AreTimely
  <2>1. c \in CiChecks /\ IsTimely(c, clock) /\ clock \in Nat
    BY DEF CommitInv, AreRuns, AreTimely
  <2>2. c.started \in Nat /\ c.completed \in Nat
    BY <2>1 DEF CiChecks
  <2>. QED BY <2>1, <2>2 DEF IsTimely
<1>. QED BY <1>1, <1>2 DEF CommitInv, AreRuns

\* What is done of a run: the tests of every attempt, but for those under way now.
LEMMA RunIsDone ==
  ASSUME CommitInv, NEW run, NEW S, NEW c, \A d \in Current(run) : d.raw \in S /\ d # c => Completed(d),
         NEW e \in Ci, e.run = run, e.raw \in S, e # c
  PROVE  Completed(e)
<1>1. PICK d \in Current(run) : d.raw = e.raw /\ e.attempt <= d.attempt
  BY LastAttempt
<1>2. d \in Ci /\ d.run = run /\ d \in CiChecks /\ e \in CiChecks
  BY CurrentIsListed DEF CommitInv, AreRuns, AreTimely
<1>3. d.attempt \in Nat /\ e.attempt \in Nat
  BY <1>2 DEF CiChecks
<1>4. CASE e.attempt = d.attempt
  BY <1>1, <1>2, <1>4 DEF CommitInv, AreRuns, AreKeyed
<1>5. CASE e.attempt < d.attempt
  BY <1>1, <1>2, <1>5 DEF CommitInv, AreRuns, OldAreDone
<1>. QED BY <1>1, <1>3, <1>4, <1>5

\* A job ends, and the last test of an attempt lets the rollup job go.
LEMMA CompletesStep ==
  ASSUME CommitInv, NEW c \in Current(LatestRun), NEW k \in Conclusions, Completes(c, k)
  PROVE  CommitInv'
<1>. DEFINE done == [c EXCEPT !.status = "COMPLETED", !.conclusion = k, !.completed = clock]
            tests == {d \in Current(c.run) : d.raw \in Shards}
            last == c.raw \in Shards /\ \A d \in tests \ {c} : Completed(d)
            ci == CheckOf("ci", c.run, c.attempt)
            C == (Ci \ {c}) \cup {done}
<1>1. /\ c \in Ci /\ c \in CiChecks /\ IsTimely(c, clock) /\ c.status = "IN_PROGRESS"
      /\ clock \in Nat \ {0} /\ AreRuns(Ci, clock) /\ AreQueued(Ci, queuedAt)
  BY CurrentIsListed DEF Completes, CommitInv
<1>2. /\ listed' = ((listed \ {c}) \cup {done}) \cup (IF last THEN {ci} ELSE {})
      /\ clock' = clock
      /\ queuedAt' = Queued(queuedAt, IF last THEN {ci} ELSE {}, clock)
  BY DEF Completes, Add, Queued
<1>3. done \in CiChecks /\ IsTimely(done, clock) /\ KeyOf(done) = KeyOf(c) /\ Completed(done) /\ done.completed = clock
  <2>1. done \in CiChecks
    BY <1>1 DEF CiChecks
  <2>2. /\ done.raw = c.raw /\ done.run = c.run /\ done.attempt = c.attempt /\ done.name = c.name
        /\ done.conclusion = k /\ done.completed = clock
        /\ done.status = "COMPLETED" /\ done.started = c.started
    BY <1>1 DEF CiChecks
  <2>. QED BY <1>1, <2>1, <2>2 DEF IsTimely, KeyOf, Completed
<1>4. done.raw = c.raw /\ done.run = c.run /\ done.attempt = c.attempt /\ done.workflow = "CI"
  BY <1>3 DEF KeyOf, CiChecks
<1>5. c.workflow = "CI" /\ ci.workflow = "CI" /\ ~Completed(c)
  BY <1>1 DEF CiChecks, CheckOf, Completed
<1>. HIDE DEF done
<1>6. AreRuns(C, clock)
  BY <1>1, <1>3, <1>5, RunsMove
<1>7. AreQueued(C, queuedAt)
  <2>1. \A e \in Ci : e.raw = "ci" /\ e.attempt = 1 => c \notin FirstTests(Ci, e.run)
    <3>. SUFFICES ASSUME NEW e \in Ci, e.raw = "ci", e.attempt = 1, c \in FirstTests(Ci, e.run) PROVE FALSE
      OBVIOUS
    <3>1. e.run = c.run /\ c.raw \in Shards /\ c.attempt <= e.attempt
      BY DEF FirstTests
    <3>. QED BY <1>1, <1>5, <3>1 DEF AreRuns, RollupIsLast
  <2>. QED BY <1>1, <1>3, <2>1, QueueMoves
<1>8. CASE ~last
  <2>1. listed' = (listed \ {c}) \cup {done} /\ Ci' = C
    BY <1>2, <1>4, <1>5, <1>8 DEF Ci
  <2>2. AreQueued(C, queuedAt')
    <3>1. queuedAt' = Queued(queuedAt, {}, clock)
      BY <1>2, <1>8
    <3>2. AreQueued(C \cup {}, Queued(queuedAt, {}, clock))
      BY <1>7, QueueGrows
    <3>3. C \cup {} = C
      OBVIOUS
    <3>. QED BY <3>1, <3>2, <3>3
  <2>. QED BY <1>1, <1>2, <1>6, <2>1, <2>2 DEF CommitInv
<1>9. CASE last
  <2>1. listed' = ((listed \ {c}) \cup {done}) \cup {ci} /\ Ci' = C \cup {ci}
    BY <1>2, <1>4, <1>5, <1>9 DEF Ci
  <2>2. c.run \in Nat \ {0} /\ c.attempt \in Nat \ {0} /\ c.raw \in Shards /\ "ci" \in Jobs
    BY <1>1, <1>9 DEF CiChecks, Jobs
  <2>3. ci \in CiChecks /\ IsTimely(ci, clock) /\ ci.raw = "ci" /\ ci.run = c.run /\ ci.attempt = c.attempt
    BY <1>1, <2>2, NewAreTimely
  <2>. HIDE DEF ci
  <2>4. AreTimely({ci}, clock) /\ AreCounted({ci})
    <3>1. c.run + c.attempt \in Nat /\ c.run <= c.run + c.attempt /\ c.attempt <= c.run + c.attempt
      BY <2>2
    <3>. QED BY <2>3, <3>1 DEF AreTimely, AreCounted
  <2>5. \A e \in Ci : e.attempt \in Nat
    BY <1>1 DEF AreRuns, AreTimely, CiChecks
  <2>6. ASSUME NEW e \in Ci \ {c}, e.run = c.run
        PROVE  /\ e.attempt <= c.attempt /\ (e.attempt # c.attempt => Completed(e))
               /\ e.raw = "ci" => e.attempt < c.attempt
               /\ e.raw \in Shards => Completed(e)
    <3>1. e.attempt <= c.attempt
      BY <1>1, <1>5, <2>2, <2>5, <2>6 DEF AreRuns, OldAreDone
    <3>2. e.attempt # c.attempt => Completed(e)
      BY <1>1, <2>2, <2>5, <2>6, <3>1 DEF AreRuns, OldAreDone
    <3>3. e.raw = "ci" => ~(c.attempt <= e.attempt)
      BY <1>1, <1>5, <2>2, <2>6 DEF AreRuns, RollupIsLast
    <3>4. e.raw \in Shards => Completed(e)
      BY <1>9, <2>6, RunIsDone
    <3>. QED BY <2>2, <2>5, <3>1, <3>2, <3>3, <3>4
  <2>7. \A e \in C : e.run = ci.run =>
           /\ e.attempt <= ci.attempt /\ (e.raw = ci.raw => e.attempt # ci.attempt)
           /\ (e.attempt # ci.attempt => Completed(e)) /\ (e.raw \in Shards => Completed(e))
    BY <1>3, <1>4, <2>2, <2>3, <2>5, <2>6, CommitAssumption
  <2>8. \A s \in Shards : \E d \in C \cup {ci} : d.run = ci.run /\ d.raw = s
    BY <1>4, <1>6, <2>3 DEF AreRuns, MatrixIsWhole
  <2>9. ci.raw \notin Shards
    BY <2>3, CommitAssumption
  <2>10. ASSUME ci.attempt = 1
         PROVE  /\ \E d \in FirstTests(C, ci.run) : d.completed = clock
                /\ \A d \in FirstTests(C, ci.run) : d.completed <= clock
    <3>1. done \in FirstTests(C, ci.run)
      BY <1>4, <2>2, <2>3, <2>10 DEF FirstTests
    <3>2. \A d \in C : d.completed <= clock
      BY <1>6 DEF AreRuns, AreTimely, IsTimely
    <3>. QED BY <1>3, <3>1, <3>2 DEF FirstTests
  <2>. HIDE DEF C
  <2>11. AreRuns(C \cup {ci}, clock)
    BY <1>6, <2>3, <2>4, <2>7, <2>8, <2>9, RunsGrow
  <2>12. AreQueued(C \cup {ci}, queuedAt')
    <3>1. \A e \in C, d \in {ci} : KeyOf(e) # KeyOf(d)
      BY <2>7 DEF KeyOf
    <3>2. \A e : ci \notin FirstTests({ci}, e.run)
      BY <2>9 DEF FirstTests
    <3>3. queuedAt' = Queued(queuedAt, {ci}, clock)
      BY <1>2, <1>9 DEF ci
    <3>. QED BY <1>7, <2>10, <3>1, <3>2, <3>3, QueueGrows
  <2>. QED BY <1>1, <1>2, <2>1, <2>11, <2>12 DEF CommitInv, C
<1>. QED BY <1>8, <1>9

\* Somebody re-runs the failed jobs.
LEMMA RerunStep ==
  ASSUME CommitInv, RerunFailed(LatestRun)
  PROVE  CommitInv'
<1>. DEFINE run == LatestRun
            current == Current(run)
            attempts == {c.attempt : c \in current}
            top == Max(attempts)
            again == {c \in current : c.raw \in Shards /\ c.conclusion # "SUCCESS"}
            new == {CheckOf(c.raw, run, top + 1) : c \in again}
<1>1. /\ \A c \in current : Completed(c)
      /\ again # {} /\ listed' = listed \cup new /\ clock' = clock
      /\ queuedAt' = Queued(queuedAt, new, clock)
  BY DEF RerunFailed, Add, Queued
<1>2. clock \in Nat \ {0} /\ AreRuns(Ci, clock) /\ AreQueued(Ci, queuedAt)
  BY DEF CommitInv
<1>3. \A c \in current : c \in Ci /\ c \in CiChecks /\ c.run = run
  BY CurrentIsListed
<1>4. top \in Nat \ {0} /\ \A c \in current : c.attempt <= top
  <2>0. \A c \in current : c.attempt \in Nat \ {0}
    BY <1>3, CheckFields
  <2>1. attempts \subseteq Nat \ {0} /\ attempts # {}
    BY <1>1, <2>0
  <2>2. PICK n \in Nat : \A c \in Ci : c.attempt <= n
    BY <1>2 DEF AreRuns, AreCounted
  <2>3. \A x \in attempts : x <= n
    BY <1>3, <2>2
  <2>. HIDE DEF attempts
  <2>4. Max(attempts) \in attempts /\ \A x \in attempts : x <= Max(attempts)
    BY <2>1, <2>2, <2>3, HasMax
  <2>. QED BY <2>1, <2>4 DEF attempts
<1>. HIDE DEF top
<1>5. ASSUME NEW e \in Ci, e.run = run PROVE e.attempt <= top /\ Completed(e)
  <2>1. PICK d \in current : d.raw = e.raw /\ e.attempt <= d.attempt
    BY <1>5, LastAttempt
  <2>2. e.attempt \in Nat /\ d.attempt \in Nat
    BY <1>2, <1>3 DEF AreRuns, AreTimely, CiChecks
  <2>3. CASE e.attempt = d.attempt
    <3>1. e = d
      BY <1>2, <1>3, <1>5, <2>1, <2>3 DEF AreRuns, AreKeyed
    <3>. QED BY <1>1, <1>4, <3>1
  <2>4. CASE e.attempt < d.attempt
    BY <1>2, <1>3, <1>4, <1>5, <2>1, <2>2, <2>4 DEF AreRuns, OldAreDone
  <2>. QED BY <2>1, <2>2, <2>3, <2>4
<1>6. run \in Nat \ {0}
  BY <1>1, <1>3 DEF CiChecks
<1>7. \A c \in again : LET d == CheckOf(c.raw, run, top + 1)
                       IN d \in CiChecks /\ IsTimely(d, clock) /\ d.raw = c.raw /\ d.run = run /\ d.attempt = top + 1
  <2>. SUFFICES ASSUME NEW c \in again
                PROVE LET d == CheckOf(c.raw, run, top + 1)
                      IN d \in CiChecks /\ IsTimely(d, clock) /\ d.raw = c.raw /\ d.run = run /\ d.attempt = top + 1
    OBVIOUS
  <2>1. c.raw \in Jobs /\ top + 1 \in Nat \ {0} /\ clock \in Nat
    BY <1>2, <1>4 DEF Jobs
  <2>. QED BY <1>6, <2>1, NewAreTimely
<1>8. Ci' = Ci \cup new
  <2>1. \A c \in new : c.workflow = "CI"
    BY DEF CheckOf
  <2>. QED BY <1>1, <2>1 DEF Ci
<1>9. AreTimely(new, clock)
  BY <1>7 DEF AreTimely
<1>10. AreCounted(new)
  <2>1. run + top + 1 \in Nat /\ run <= run + top + 1 /\ top + 1 <= run + top + 1
    BY <1>4, <1>6
  <2>2. \A d \in new : d.run = run /\ d.attempt = top + 1
    BY <1>7
  <2>. HIDE DEF run, new
  <2>. QED BY <2>1, <2>2 DEF AreCounted
<1>11. \A d \in new : d.run = run /\ d.attempt = top + 1 /\ d.raw \in Shards
  BY <1>7
<1>12. \A c, d \in new : c.raw = d.raw => c = d
  BY <1>7
<1>13. \A c, d \in new : c.run = d.run /\ c.attempt = d.attempt /\ (c.raw = d.raw => c = d) /\ (c.raw = "ci" => c = d)
  BY <1>11, <1>12, CommitAssumption
<1>14. \A e \in Ci : e.attempt \in Nat
  BY <1>2 DEF AreRuns, AreTimely, CiChecks
<1>. HIDE DEF new, again
<1>15. \A e \in Ci, d \in new : e.run = d.run => e.attempt < d.attempt /\ Completed(e)
  BY <1>4, <1>5, <1>11, <1>14
<1>16. \A e \in Ci, d \in new : e.run = d.run =>
         e.attempt <= d.attempt /\ (e.raw = d.raw => e.attempt # d.attempt) /\ (e.attempt # d.attempt => Completed(e))
  BY <1>4, <1>11, <1>14, <1>15
<1>17. \A d \in new, s \in Shards : \E e \in Ci \cup new : e.run = d.run /\ e.raw = s
  <2>1. PICK c \in current : TRUE
    BY <1>1 DEF again
  <2>2. \A s \in Shards : \E e \in Ci : e.run = run /\ e.raw = s
    BY <1>2, <1>3, <2>1 DEF AreRuns, MatrixIsWhole
  <2>. QED BY <1>11, <2>2
<1>18. \A d \in new : d.raw # "ci"
  BY <1>11, CommitAssumption
<1>19. AreRuns(Ci \cup new, clock)
  BY <1>2, <1>9, <1>10, <1>13, <1>15, <1>16, <1>17, <1>18, RunsGrow
<1>20. AreQueued(Ci \cup new, queuedAt')
  <2>1. \A c \in Ci, d \in new : KeyOf(c) # KeyOf(d)
    BY <1>11, <1>14, <1>15, <1>4 DEF KeyOf
  <2>2. \A d \in new : d.attempt # 1 /\ d.raw # "ci"
    BY <1>4, <1>11, <1>18
  <2>3. \A c \in Ci \cup new, d \in new : c.raw = "ci" /\ c.attempt = 1 => d \notin FirstTests(new, c.run)
    BY <2>2 DEF FirstTests
  <2>. QED BY <1>1, <1>2, <2>1, <2>2, <2>3, QueueGrows
<1>. QED BY <1>1, <1>2, <1>8, <1>19, <1>20 DEF CommitInv

\* No step breaks the invariant.
LEMMA CommitStep == CommitInv /\ [CommitNext]_commitVars => CommitInv'
<1>. SUFFICES ASSUME CommitInv, [CommitNext]_commitVars PROVE CommitInv'
  OBVIOUS
<1>1. CASE UNCHANGED commitVars
  BY <1>1 DEF commitVars, CommitInv, Ci
<1>2. CASE \E c \in Current(LatestRun), k \in {"SUCCESS", "FAILURE", "CANCELLED"} : Completes(c, k)
  BY <1>2, CompletesStep DEF Conclusions
<1>. QED BY <1>1, <1>2, TriggerStep, StartsStep, RerunStep, TickStep DEF CommitNext

\* The invariant holds throughout.
LEMMA RunsAreSound == CommitSpec => []CommitInv
<1>1. CommitInit => CommitInv
  BY CommitStart
<1>. QED BY <1>1, CommitStep, PTL DEF CommitSpec

\* The worst conclusion of a family is a failure if there is one, and else a cancellation.
LEMMA Worst ==
  ASSUME NEW S, S \subseteq Conclusions, S # {}
  PROVE  /\ WorstConclusion(S) \in S
         /\ "FAILURE" \in S => WorstConclusion(S) = "FAILURE"
         /\ "CANCELLED" \in S => WorstConclusion(S) # "SUCCESS"
<1>1. Severity("FAILURE") = 6 /\ Severity("CANCELLED") = 5 /\ Severity("SUCCESS") = 2
  BY DEF Severity
<1>2. S \ {NoConclusion} = S
  BY DEF Conclusions, NoConclusion
<1>3. WorstConclusion(S) = CHOOSE k \in S : \A l \in S : Severity(l) <= Severity(k)
  BY <1>2 DEF WorstConclusion
<1>4. \E k \in S : \A l \in S : Severity(l) <= Severity(k)
  <2>1. CASE "FAILURE" \in S
    BY <1>1, <2>1 DEF Conclusions
  <2>2. CASE "FAILURE" \notin S /\ "CANCELLED" \in S
    BY <1>1, <2>2 DEF Conclusions
  <2>3. CASE "FAILURE" \notin S /\ "CANCELLED" \notin S
    <3>1. \A l \in S : l = "SUCCESS"
      BY <2>3 DEF Conclusions
    <3>2. PICK k \in S : TRUE
      OBVIOUS
    <3>3. \A l \in S : Severity(l) <= Severity(k)
      BY <1>1, <3>1, <3>2
    <3>. QED BY <3>2, <3>3
  <2>. QED BY <2>1, <2>2, <2>3
<1>. DEFINE w == CHOOSE k \in S : \A l \in S : Severity(l) <= Severity(k)
<1>5. w \in S /\ \A l \in S : Severity(l) <= Severity(w)
  BY <1>4
<1>. HIDE DEF w
<1>6. w \in Conclusions
  BY <1>5
<1>. QED BY <1>1, <1>3, <1>5, <1>6 DEF w, Conclusions

\* One check run speaks for a family: done when all are, with the worst of them.
LEMMA Aggregates ==
  ASSUME NEW F, F # {}, IsFiniteSet(F), NEW now \in Nat, \A c \in F : c \in CiChecks /\ IsTimely(c, now)
  PROVE  LET a == AggregateFamily(F)
         IN /\ \E c \in F : a.raw = c.raw /\ a.name = c.name
            /\ a.workflow = "CI" /\ a.event = "pull_request" /\ a.required = FALSE
            /\ Completed(a) <=> \A c \in F : Completed(c)
            /\ ~Completed(a) => a.conclusion = NoConclusion /\ a.completed = 0
            /\ Completed(a) => a.conclusion \in {c.conclusion : c \in F} /\ a.conclusion \in Conclusions
            /\ Completed(a) /\ (\E c \in F : c.conclusion = "FAILURE") => a.conclusion = "FAILURE"
            /\ Completed(a) /\ (\E c \in F : c.conclusion = "CANCELLED") => a.conclusion # "SUCCESS"
            /\ Completed(a) => a.completed # 0 /\ a.completed \in {c.completed : c \in F}
            /\ Completed(a) => \A c \in F : c.completed <= a.completed
            /\ \A c : F = {c} => a = c
<1>. DEFINE survivor == CHOOSE c \in F : \A d \in F : d.started <= c.started
            live     == {c \in F : c.conclusion # "SKIPPED"}
            pool     == IF live = {} THEN F ELSE live
            started  == {c.started : c \in pool} \ {0}
            done     == \A c \in pool : Completed(c)
<1>1. \A c \in F : /\ c.started \in Nat /\ c.started <= now /\ c.completed \in Nat /\ c.completed <= now
                   /\ c.conclusion \in Conclusions \cup {NoConclusion}
                   /\ Completed(c) <=> c.conclusion \in Conclusions
                   /\ Completed(c) <=> c.completed # 0
  BY DEF CiChecks, IsTimely, Completed
<1>2. survivor \in F /\ \A d \in F : d.started <= survivor.started
  <2>. DEFINE S == {c.started : c \in F}
  <2>1. S \subseteq Nat /\ S # {} /\ \A x \in S : x <= now
    BY <1>1
  <2>. HIDE DEF S
  <2>2. Max(S) \in S /\ \A x \in S : x <= Max(S)
    BY <2>1, HasMax
  <2>3. \E c \in F : \A d \in F : d.started <= c.started
    BY <2>2 DEF S
  <2>. QED BY <2>3
<1>3. pool = F
  BY <1>1 DEF Conclusions, NoConclusion
<1>. HIDE DEF survivor, live
<1>4. CASE Cardinality(F) = 1
  <2>1. PICK c : F = {c}
    BY <1>4, FS_Singleton
  <2>2. AggregateFamily(F) = c
    BY <1>2, <1>4, <2>1 DEF AggregateFamily, survivor
  <2>3. c \in CiChecks
    BY <2>1
  <2>4. /\ c.workflow = "CI" /\ c.event = "pull_request" /\ c.required = FALSE
        /\ Completed(c) => c.conclusion \in Conclusions /\ c.completed # 0
        /\ ~Completed(c) => c.conclusion = NoConclusion /\ c.completed = 0
        /\ c.completed \in Nat /\ c.completed <= c.completed
    <3>1. c.workflow = "CI" /\ c.event = "pull_request" /\ c.required = FALSE
      BY <2>3 DEF CiChecks
    <3>2. c \in F
      BY <2>1
    <3>. HIDE DEF pool, started, done
    <3>3. /\ c.completed \in Nat /\ c.conclusion \in Conclusions \cup {NoConclusion}
          /\ Completed(c) <=> c.conclusion \in Conclusions
          /\ Completed(c) <=> c.completed # 0
      BY <1>1, <3>2
    <3>. QED BY <3>1, <3>3
  <2>5. "CANCELLED" # "SUCCESS" /\ \A d : F = {d} => d = c
    BY <2>1
  <2>. QED BY <2>1, <2>2, <2>4, <2>5
<1>5. CASE Cardinality(F) # 1
  <2>. DEFINE a == [survivor EXCEPT
             !.started    = Minimum(started, 0),
             !.completed  = IF done /\ \A c \in pool : c.completed # 0
                            THEN Max({c.completed : c \in pool}) ELSE 0,
             !.status     = IF done THEN "COMPLETED"
                            ELSE IF started # {} THEN "IN_PROGRESS" ELSE @,
             !.conclusion = IF done THEN WorstConclusion({c.conclusion : c \in pool})
                            ELSE NoConclusion,
             !.created    = Minimum({c.created : c \in F} \ {0}, 0)]
  <2>1. AggregateFamily(F) = a
    BY <1>5 DEF AggregateFamily, survivor, live
  <2>2. survivor \in CiChecks
    BY <1>2
  <2>3. /\ a.raw = survivor.raw /\ a.name = survivor.name /\ a.workflow = "CI"
        /\ a.event = "pull_request" /\ a.required = FALSE
        /\ a.completed = IF done /\ (\A c \in pool : c.completed # 0) THEN Max({c.completed : c \in pool}) ELSE 0
        /\ a.status = IF done THEN "COMPLETED" ELSE IF started # {} THEN "IN_PROGRESS" ELSE survivor.status
        /\ a.conclusion = IF done THEN WorstConclusion({c.conclusion : c \in pool}) ELSE NoConclusion
    BY <2>2 DEF CiChecks
  <2>. HIDE DEF a
  <2>4. done <=> \A c \in F : Completed(c)
    BY <1>3
  <2>5. Completed(a) <=> done
    <3>1. CASE done
      BY <2>3, <3>1 DEF Completed
    <3>2. CASE ~done /\ started # {}
      BY <2>3, <3>2 DEF Completed
    <3>3. CASE ~done /\ started = {}
      <4>1. survivor.started = 0
        BY <1>2, <1>3, <3>3
      <4>2. survivor.status = "QUEUED"
        BY <1>2, <4>1 DEF IsTimely
      <4>. QED BY <2>3, <3>3, <4>2 DEF Completed
    <3>. QED BY <3>1, <3>2, <3>3
  <2>6. \A c : F # {c}
    BY <1>5, FS_Singleton
  <2>7. CASE ~done
    BY <1>2, <2>1, <2>3, <2>4, <2>5, <2>6, <2>7
  <2>8. CASE done
    <3>. DEFINE ends == {c.completed : c \in F}
                verdicts == {c.conclusion : c \in F}
    <3>1. a.completed = Max(ends) /\ a.conclusion = WorstConclusion(verdicts)
      BY <1>1, <1>3, <2>3, <2>8
    <3>2. ends \subseteq Nat /\ ends # {} /\ \A x \in ends : x <= now
      BY <1>1
    <3>3. verdicts \subseteq Conclusions /\ verdicts # {}
      BY <1>1, <2>4, <2>8
    <3>. HIDE DEF ends, verdicts
    <3>4. Max(ends) \in ends /\ \A x \in ends : x <= Max(ends)
      BY <3>2, HasMax
    <3>5. /\ WorstConclusion(verdicts) \in verdicts
          /\ "FAILURE" \in verdicts => WorstConclusion(verdicts) = "FAILURE"
          /\ "CANCELLED" \in verdicts => WorstConclusion(verdicts) # "SUCCESS"
      BY <3>3, Worst
    <3>6. a.completed # 0 /\ \A c \in F : c.completed <= a.completed
      BY <1>1, <2>4, <2>8, <3>1, <3>4 DEF ends
    <3>. QED BY <1>2, <2>1, <2>3, <2>4, <2>5, <2>6, <2>8, <3>1, <3>3, <3>4, <3>5, <3>6 DEF ends, verdicts
  <2>. QED BY <2>7, <2>8
<1>. QED BY <1>4, <1>5

\* The check runs of one name that count.
Family(n) == {c \in Current(LatestRun) : c.name = n}
Shows     == {n \in {TestName, CiName} : Family(n) # {}}

\* The current check runs of one name: finitely many, each timely.
LEMMA FamilyIsSound ==
  ASSUME CommitInv, NEW n
  PROVE  /\ IsFiniteSet(Family(n)) /\ clock \in Nat
         /\ \A c \in Family(n) : c \in CiChecks /\ IsTimely(c, clock)
<1>1. \A c \in Family(n) : c \in Ci /\ c \in CiChecks /\ IsTimely(c, clock) /\ c.run = LatestRun /\ c \in Current(LatestRun)
  BY CurrentIsListed DEF Family
<1>2. IsFiniteSet(Jobs)
  BY CommitAssumption, FS_AddElement DEF Jobs
<1>. DEFINE f == [c \in Family(n) |-> c.raw]
<1>3. f \in [Family(n) -> Jobs]
  BY <1>1 DEF CiChecks
<1>4. \A c, d \in Family(n) : c.raw = d.raw => c = d
  <2>. SUFFICES ASSUME NEW c \in Family(n), NEW d \in Family(n), c.raw = d.raw PROVE c = d
    OBVIOUS
  <2>1. c.attempt <= d.attempt /\ d.attempt <= c.attempt
    BY <1>1, CurrentIsListed
  <2>2. c.attempt \in Nat /\ d.attempt \in Nat
    BY <1>1 DEF CiChecks
  <2>3. c.attempt = d.attempt
    BY <2>1, <2>2
  <2>. QED BY <1>1, <2>3 DEF CommitInv, AreRuns, AreKeyed
<1>5. f \in Injection(Family(n), Jobs)
  BY <1>3, <1>4 DEF Injection, IsInjective
<1>6. IsFiniteSet(Family(n))
  BY <1>2, <1>5, FS_Injection
<1>. QED BY <1>1, <1>6 DEF CommitInv

\* Another workflow's check stands for itself.
LEMMA GateIsAlone ==
  /\ GateFailed.workflow = "Auto-merge" /\ GateFailed.event = "pull_request"
  /\ GateFailed.run = 1 /\ Identified(GateFailed)
  /\ AggregateFamily(LatestRunMembers({GateFailed})) = GateFailed
<1>1. /\ GateFailed.workflow = "Auto-merge" /\ GateFailed.event = "pull_request"
      /\ GateFailed.run = 1 /\ GateFailed.attempt = 1 /\ GateFailed.started = 1 /\ Identified(GateFailed)
  BY DEF GateFailed, CheckOf, Identified, NoWorkflow
<1>2. Max({c.run : c \in {GateFailed}}) = 1
  <2>1. {c.run : c \in {GateFailed}} = {1}
    BY <1>1
  <2>2. Max({1}) \in {1}
    BY HasMax
  <2>. QED BY <2>1, <2>2
<1>3. LatestRunMembers({GateFailed}) = {GateFailed}
  BY <1>1, <1>2 DEF LatestRunMembers, Newer
<1>4. Cardinality({GateFailed}) = 1
  BY FS_Singleton
<1>5. AggregateFamily({GateFailed}) = GateFailed
  BY <1>1, <1>4 DEF AggregateFamily
<1>. QED BY <1>1, <1>3, <1>5

\* Of the runs of the workflow only the latest is kept.
LEMMA LatestIsKept ==
  ASSUME CommitInv
  PROVE  DropSupersededRuns(listed) = {c \in Ci : c.run = LatestRun} \cup (listed \cap {GateFailed})
<1>1. listed \subseteq Ci \cup {GateFailed} /\ Ci \subseteq listed
  BY DEF CommitInv, Ci
<1>2. \A c \in Ci : Identified(c) /\ c.workflow = "CI" /\ c.event = "pull_request" /\ c.run \in Nat
  BY DEF CommitInv, AreRuns, AreTimely, CiChecks, Identified, NoWorkflow
<1>3. GateFailed.workflow = "Auto-merge" /\ GateFailed.run = 1
  BY GateIsAlone
<1>4. /\ LatestRun \in Nat
      /\ \A c \in Ci : c.run <= LatestRun
      /\ Ci # {} => \E c \in Ci : c.run = LatestRun
  BY LatestIsLast
<1>5. \A c \in Ci : c \in DropSupersededRuns(listed) <=> c.run = LatestRun
  <2>. TAKE c \in Ci
  <2>1. CASE c.run = LatestRun
    <3>1. \A d \in listed : d.workflow = "CI" => d \in Ci
      BY DEF Ci
    <3>. QED BY <1>1, <1>2, <1>4, <2>1, <3>1 DEF DropSupersededRuns
  <2>2. CASE c.run # LatestRun
    <3>1. PICK d \in Ci : d.run = LatestRun
      BY <1>4
    <3>2. ~(d.run <= c.run)
      BY <1>2, <1>4, <2>2, <3>1
    <3>. QED BY <1>1, <1>2, <2>2, <3>1, <3>2 DEF DropSupersededRuns
  <2>. QED BY <2>1, <2>2
<1>6. GateFailed \in listed => GateFailed \in DropSupersededRuns(listed)
  BY <1>1, <1>2, <1>3 DEF DropSupersededRuns
<1>7. DropSupersededRuns(listed) \subseteq listed
  BY DEF DropSupersededRuns
<1>. QED BY <1>1, <1>5, <1>6, <1>7

\* What is read of a commit: one check for each name of its latest run, and the other workflow's.
LEMMA FamiliesAreRead ==
  ASSUME CommitInv
  PROVE  Read = {AggregateFamily(Family(n)) : n \in Shows} \cup (listed \cap {GateFailed})
<1>. DEFINE kept == DropSupersededRuns(listed)
            family(c) == {d \in kept : SameFamily(c, d)}
<1>1. kept = {c \in Ci : c.run = LatestRun} \cup (listed \cap {GateFailed})
  BY LatestIsKept
<1>2. Read = {AggregateFamily(LatestRunMembers(family(c))) : c \in kept}
  BY DEF Read, DedupeChecks
<1>3. \A c \in Ci : c \in CiChecks /\ IsTimely(c, clock) /\ c.workflow = "CI" /\ c.event = "pull_request" /\ c.run \in Nat \ {0}
                    /\ c.attempt \in Nat /\ c.name \in {TestName, CiName}
  BY DEF CommitInv, AreRuns, AreTimely, CiChecks
<1>4. GateFailed.workflow = "Auto-merge"
  BY GateIsAlone
<1>. HIDE DEF kept
<1>5. ASSUME NEW c \in Ci, c.run = LatestRun
      PROVE  c.name \in Shows /\ LatestRunMembers(family(c)) = Family(c.name)
  <2>. DEFINE F == family(c)
  <2>1. F = {d \in Ci : d.run = LatestRun /\ d.name = c.name}
    BY <1>1, <1>3, <1>4 DEF SameFamily
  <2>2. c \in F /\ {d.run : d \in F} = {LatestRun}
    BY <1>5, <2>1
  <2>3. Max({LatestRun}) = LatestRun
    <3>1. LatestRun \in Nat /\ LatestRun <= LatestRun
      BY LatestIsLast
    <3>2. Max({LatestRun}) \in {LatestRun}
      BY <3>1, HasMax
    <3>. QED BY <3>2
  <2>. HIDE DEF F
  <2>4. LatestRunMembers(F) = {d \in F : \A e \in F : e.raw = d.raw => ~Newer(e, d)}
    <3>1. LatestRun # 0
      BY <1>3, <1>5
    <3>2. {d \in F : d.run = LatestRun} = F
      BY <2>1
    <3>. QED BY <2>2, <2>3, <3>1, <3>2 DEF LatestRunMembers
  <2>5. \A d, e \in F : e.raw = d.raw => (~Newer(e, d) <=> e.attempt <= d.attempt)
    <3>. SUFFICES ASSUME NEW d \in F, NEW e \in F, e.raw = d.raw
                  PROVE  ~Newer(e, d) <=> e.attempt <= d.attempt
      OBVIOUS
    <3>1. d \in Ci /\ e \in Ci /\ d.run = e.run
      BY <2>1
    <3>2. d.attempt \in Nat /\ e.attempt \in Nat /\ d.started \in Nat /\ e.started \in Nat
      BY <1>3, <3>1 DEF CiChecks
    <3>3. d.attempt = e.attempt => d = e
      BY <3>1 DEF CommitInv, AreRuns, AreKeyed
    <3>. QED BY <3>2, <3>3 DEF Newer
  <2>6. \A d \in Ci : d \in Current(LatestRun) <=>
                        d.run = LatestRun /\ \A e \in Ci : e.raw = d.raw /\ e.run = LatestRun => e.attempt <= d.attempt
    <3>1. GateFailed.raw = "gate" /\ \A d \in Ci : d.raw # "gate"
      BY <1>3, CommitAssumption DEF CiChecks, Jobs, GateFailed, CheckOf
    <3>2. listed \subseteq Ci \cup {GateFailed} /\ Ci \subseteq listed
      BY DEF CommitInv, Ci
    <3>3. \A d \in Ci : d.workflow = "CI"
      BY DEF Ci
    <3>. QED BY <3>1, <3>2, <3>3 DEF Current
  <2>7. \A d, e \in Ci : e.raw = d.raw => e.name = d.name
    BY <1>3 DEF IsTimely
  <2>8. Current(LatestRun) \subseteq Ci
    BY DEF Current, Ci
  <2>9. \A d : d \in LatestRunMembers(F) <=> d \in Family(c.name)
    BY <2>1, <2>4, <2>5, <2>6, <2>7, <2>8 DEF Family
  <2>10. Family(c.name) # {}
    <3>1. PICK d \in Current(c.run) : d.raw = c.raw
      BY LastAttempt
    <3>2. d.name = c.name
      BY <1>5, <2>7, <2>8, <3>1
    <3>. QED BY <1>5, <3>1, <3>2 DEF Family
  <2>. QED BY <1>3, <2>9, <2>10 DEF Shows, F
<1>6. ASSUME NEW n \in Shows PROVE \E c \in kept : AggregateFamily(LatestRunMembers(family(c))) = AggregateFamily(Family(n))
  <2>1. PICK c \in Family(n) : TRUE
    BY DEF Shows
  <2>2. c \in Ci /\ c.run = LatestRun /\ c.name = n
    BY <2>1, CurrentIsListed DEF Family
  <2>. QED BY <1>1, <1>5, <2>2
<1>7. GateFailed \in listed => family(GateFailed) = {GateFailed}
  BY <1>1, <1>3, <1>4 DEF SameFamily
<1>8. GateFailed \in listed => AggregateFamily(LatestRunMembers(family(GateFailed))) = GateFailed
  BY <1>7, GateIsAlone
<1>. HIDE DEF family
<1>. QED BY <1>1, <1>2, <1>5, <1>6, <1>8

\* The two names of the workflow match no prefix but their own.
LEMMA NamesMatch ==
  /\ Gates = {TestName, CiName} /\ TestName # CiName
  /\ \A n \in Gates : MatchingPrefix(n, Gates) = {n}
<1>1. Gates = {TestName, CiName}
  BY DEF Gates, CommitGraph
<1>2. /\ Len(TestName) = 1 /\ Len(CiName) = 1 /\ TestName[1] # CiName[1]
      /\ TestName \in Seq({"test", "ci"}) /\ CiName \in Seq({"test", "ci"})
  <2>1. Len(TestName) = 1 /\ Len(CiName) = 1
    BY DEF TestName, CiName
  <2>2. TestName[1] = "test" /\ CiName[1] = "ci"
    BY DEF TestName, CiName
  <2>3. TestName \in Seq({"test", "ci"}) /\ CiName \in Seq({"test", "ci"})
    BY DEF TestName, CiName
  <2>. QED BY <2>1, <2>2, <2>3
<1>3. \A n, p \in Gates : IsPrefix(p, n) <=> p = n
  <2>. SUFFICES ASSUME NEW n \in Gates, NEW p \in Gates PROVE IsPrefix(p, n) <=> p = n
    OBVIOUS
  <2>1. Len(n) = 1 /\ Len(p) = 1 /\ n \in Seq({"test", "ci"}) /\ p \in Seq({"test", "ci"}) /\ (n[1] = p[1] <=> n = p)
    BY <1>1, <1>2
  <2>2. SubSeq(n, 1, 1)[1] = n[1] /\ SubSeq(p, 1, 1)[1] = p[1]
    BY <2>1
  <2>. QED BY <2>1, <2>2 DEF IsPrefix
<1>. QED BY <1>1, <1>2, <1>3 DEF MatchingPrefix

\* What the check of a name tells of the check runs it stands for.
LEMMA FamilyIsAggregated ==
  ASSUME CommitInv, NEW n \in Shows
  PROVE  LET a == AggregateFamily(Family(n))
         IN /\ a.name = n /\ a.workflow = "CI" /\ a.event = "pull_request" /\ a.required = FALSE
            /\ \E c \in Family(n) : a.raw = c.raw
            /\ Completed(a) <=> \A c \in Family(n) : Completed(c)
            /\ ~Completed(a) => a.conclusion = NoConclusion /\ a.completed = 0
            /\ Completed(a) => a.conclusion \in {c.conclusion : c \in Family(n)} /\ a.conclusion \in Conclusions
            /\ Completed(a) /\ (\E c \in Family(n) : c.conclusion = "FAILURE") => a.conclusion = "FAILURE"
            /\ Completed(a) /\ (\E c \in Family(n) : c.conclusion = "CANCELLED") => a.conclusion # "SUCCESS"
            /\ Completed(a) => a.completed # 0 /\ a.completed \in {c.completed : c \in Family(n)}
            /\ Completed(a) => \A c \in Family(n) : c.completed <= a.completed
            /\ \A c : Family(n) = {c} => a = c
<1>1. Family(n) # {} /\ \A c \in Family(n) : c.name = n
  BY DEF Shows, Family
<1>2. IsFiniteSet(Family(n)) /\ clock \in Nat /\ \A c \in Family(n) : c \in CiChecks /\ IsTimely(c, clock)
  BY FamilyIsSound
<1>. HIDE DEF Family
<1>. QED BY <1>1, <1>2, Aggregates

\* The required checks are those of the workflow; the other workflow's is not among them.
LEMMA RequiredIs ==
  ASSUME CommitInv
  PROVE  Required = {AggregateFamily(Family(n)) : n \in Shows}
<1>. DEFINE F == {AggregateFamily(Family(n)) : n \in Shows}
<1>1. Read = F \cup (listed \cap {GateFailed})
  BY FamiliesAreRead
<1>2. \A a \in F : a.name \in Gates /\ a.workflow = "CI" /\ a.event = "pull_request"
  <2>1. \A n \in Shows : n \in Gates
    BY NamesMatch DEF Shows
  <2>2. \A n \in Shows : LET a == AggregateFamily(Family(n))
                         IN a.name = n /\ a.workflow = "CI" /\ a.event = "pull_request"
    BY FamilyIsAggregated
  <2>. QED BY <2>1, <2>2
<1>3. GateFailed.workflow = "Auto-merge" /\ GateFailed.event = "pull_request" /\ GateFailed.required = FALSE
  BY DEF GateFailed, CheckOf
<1>4. CommitGraph.workflow = "CI"
  BY DEF CommitGraph
<1>5. \A a \in F : IsRequired(a, Gates, "CI")
  BY <1>2, NamesMatch DEF IsRequired, MatchesRequiredPrefix, WorkflowScopeAllows
<1>6. ~IsRequired(GateFailed, Gates, "CI")
  BY <1>3 DEF IsRequired, WorkflowScopeAllows, NoWorkflow
<1>7. Gates # NoPrefixes
  BY NamesMatch DEF NoPrefixes
<1>. HIDE DEF F
<1>8. {c \in Read : c.event # "merge_group"} = Read
  BY <1>1, <1>2, <1>3
<1>9. {c \in Read : IsRequired(c, Gates, "CI")} = F
  BY <1>1, <1>5, <1>6
<1>10. RequiredChecks(Read, Gates, "CI") = F
  BY <1>7, <1>8, <1>9 DEF RequiredChecks
<1>. QED BY <1>4, <1>10 DEF Required, F

\* What the two verdicts of an open pull request ask of its required checks (classify).
LEMMA StagesTell ==
  /\ Shown.stage = "parked" <=> \E c \in Required : Failed(c)
  /\ Shown.stage = "ready" =>
       /\ \A c \in Required : Completed(c) /\ c.conclusion # "CANCELLED" /\ ~Failed(c)
       /\ ~(CiProgress.percent < 100)
<1>1. ~Snapshot.draft /\ Snapshot.mergeState = "CLEAN"
  BY DEF Snapshot
<1>. QED BY <1>1 DEF Shown, ClassifyOpen, Bare, WithProgress, NoStage

\* A required check has failed when a job of its name has and all of them are done.
LEMMA FailuresAreCurrent ==
  ASSUME CommitInv
  PROVE  (\E a \in Required : Failed(a)) <=>
         \E c \in Current(LatestRun) : Failed(c) /\ \A d \in Current(LatestRun) : d.name = c.name => Completed(d)
<1>1. \A k \in Conclusions : k \in Failing <=> k = "FAILURE"
  BY DEF Conclusions, Failing
<1>2. \A n \in Shows : \A c \in Family(n) : Completed(c) <=> c.conclusion \in Conclusions
  BY FamilyIsSound DEF IsTimely, Completed
<1>3. \A n \in Shows : Failed(AggregateFamily(Family(n))) <=>
        (\A c \in Family(n) : Completed(c)) /\ \E c \in Family(n) : Failed(c)
  <2>. SUFFICES ASSUME NEW n \in Shows
                PROVE  Failed(AggregateFamily(Family(n))) <=>
                         (\A c \in Family(n) : Completed(c)) /\ \E c \in Family(n) : Failed(c)
    OBVIOUS
  <2>. DEFINE a == AggregateFamily(Family(n))
  <2>1. /\ Completed(a) <=> \A c \in Family(n) : Completed(c)
        /\ Completed(a) => a.conclusion \in {c.conclusion : c \in Family(n)} /\ a.conclusion \in Conclusions
        /\ Completed(a) /\ (\E c \in Family(n) : c.conclusion = "FAILURE") => a.conclusion = "FAILURE"
    BY FamilyIsAggregated
  <2>. HIDE DEF a
  <2>2. ASSUME Failed(a) PROVE \E c \in Family(n) : Failed(c)
    <3>1. PICK c \in Family(n) : a.conclusion = c.conclusion
      BY <2>1, <2>2 DEF Failed
    <3>. QED BY <2>1, <2>2, <3>1 DEF Failed
  <2>3. ASSUME NEW c \in Family(n), Failed(c), Completed(a) PROVE Failed(a)
    <3>1. c.conclusion = "FAILURE"
      BY <1>1, <1>2, <2>3 DEF Failed
    <3>. QED BY <1>1, <2>1, <2>3, <3>1 DEF Failed
  <2>4. Failed(a) => Completed(a)
    BY DEF Failed
  <2>. QED BY <2>1, <2>2, <2>3, <2>4 DEF a
<1>4. \A c \in Current(LatestRun) : c.name \in Shows /\ c \in Family(c.name)
  BY CurrentIsListed DEF CiChecks, Shows, Family
<1>5. \A n, c : c \in Family(n) <=> c \in Current(LatestRun) /\ c.name = n
  BY DEF Family
<1>6. Required = {AggregateFamily(Family(n)) : n \in Shows}
  BY RequiredIs
<1>. QED BY <1>3, <1>4, <1>5, <1>6

\* The board reads a commit as failed exactly when a job of its latest run has failed in its
\* last attempt and its family is done, whatever ran before it and whatever other workflows
\* report (dropSupersededRuns, latestRunMembers, aggregateFamily, requiredChecks, classify).
THEOREM BoardIsUpToDate == CommitSpec => []NoStaleVerdict
<1>1. CommitInv => NoStaleVerdict
  BY StagesTell, FailuresAreCurrent DEF NoStaleVerdict
<1>. QED BY <1>1, RunsAreSound, PTL

\* The sum of a function that is k on some places and nothing on the others.
LEMMA SumOfEqual ==
  ASSUME NEW S, IsFiniteSet(S), NEW T, T \subseteq S, NEW k \in Nat,
         NEW f, \A x \in S : f[x] = IF x \in T THEN k ELSE 0
  PROVE  SumOver(f, S) = k * Cardinality(T)
<1>. DEFINE pick(s) == CHOOSE x \in s : TRUE
            Body(g) == [s \in SUBSET S |-> IF s = {} THEN 0 ELSE f[pick(s)] + g[s \ {pick(s)}]]
            sum == [s \in SUBSET S |-> k * Cardinality(s \cap T)]
            iter == CHOOSE g : g = Body(g)
<1>1. SumOver(f, S) = iter[S]
  BY DEF SumOver, MapThenSumSet, MapThenFoldSet
<1>2. \A s \in SUBSET S : IsFiniteSet(s \cap T) /\ Cardinality(s \cap T) \in Nat
  BY FS_Subset, FS_CardinalityType
<1>3. sum = Body(sum)
  <2>. SUFFICES ASSUME NEW s \in SUBSET S PROVE sum[s] = Body(sum)[s]
    OBVIOUS
  <2>1. CASE s = {}
    BY <2>1, FS_EmptySet
  <2>2. CASE s # {}
    <3>. DEFINE x == pick(s)
    <3>1. x \in s /\ s \ {x} \in SUBSET S /\ x \in S
      BY <2>2
    <3>. HIDE DEF x
    <3>2. Body(sum)[s] = f[x] + k * Cardinality((s \ {x}) \cap T)
      BY <2>2, <3>1 DEF x
    <3>3. CASE x \in T
      <4>1. (s \ {x}) \cap T = (s \cap T) \ {x} /\ x \in s \cap T
        BY <3>1, <3>3
      <4>2. Cardinality((s \cap T) \ {x}) = Cardinality(s \cap T) - 1
        BY <1>2, <4>1, FS_RemoveElement
      <4>3. f[x] = k
        BY <3>1, <3>3
      <4>4. \A n \in Nat : k + k * (n - 1) = k * n
        OBVIOUS
      <4>. QED BY <1>2, <3>2, <4>1, <4>2, <4>3, <4>4
    <3>4. CASE x \notin T
      <4>1. (s \ {x}) \cap T = s \cap T /\ f[x] = 0
        BY <3>1, <3>4
      <4>2. \A n \in Nat : 0 + k * n = k * n
        OBVIOUS
      <4>. QED BY <1>2, <3>2, <4>1, <4>2
    <3>. QED BY <3>3, <3>4
  <2>. QED BY <2>1, <2>2
<1>4. iter = Body(iter)
  BY <1>3
<1>. HIDE DEF iter
<1>5. \A s \in SUBSET S : iter[s] = sum[s]
  <2>. DEFINE wrong == {s \in SUBSET S : iter[s] # sum[s]}
              sizes == {Cardinality(s) : s \in wrong}
  <2>. SUFFICES ASSUME wrong # {} PROVE FALSE
    OBVIOUS
  <2>1. \A s \in SUBSET S : IsFiniteSet(s) /\ Cardinality(s) \in Nat
    BY FS_Subset, FS_CardinalityType
  <2>2. sizes \subseteq Nat /\ sizes # {}
    BY <2>1
  <2>. HIDE DEF sizes, sum
  <2>3. Min(sizes) \in sizes /\ \A x \in sizes : Min(sizes) <= x
    BY <2>2, HasMin
  <2>4. PICK s \in wrong : Cardinality(s) = Min(sizes)
    BY <2>3 DEF sizes
  <2>5. \A r \in wrong : Cardinality(s) <= Cardinality(r)
    BY <2>3, <2>4 DEF sizes
  <2>6. iter[s] = IF s = {} THEN 0 ELSE f[pick(s)] + iter[s \ {pick(s)}]
    BY <1>4, <2>4
  <2>7. sum[s] = IF s = {} THEN 0 ELSE f[pick(s)] + sum[s \ {pick(s)}]
    BY <1>3, <2>4
  <2>8. CASE s = {}
    BY <2>4, <2>6, <2>7, <2>8
  <2>9. CASE s # {}
    <3>. DEFINE x == pick(s)
    <3>1. x \in s
      BY <2>9
    <3>. HIDE DEF x, pick
    <3>2. Cardinality(s \ {x}) = Cardinality(s) - 1
      BY <2>1, <2>4, <3>1, FS_RemoveElement
    <3>3. s \ {x} \in SUBSET S
      BY <2>4
    <3>4. s \ {x} \notin wrong
      BY <2>1, <2>4, <2>5, <3>2, <3>3
    <3>5. iter[s \ {x}] = sum[s \ {x}]
      BY <3>3, <3>4
    <3>. QED BY <2>4, <2>6, <2>7, <2>9, <3>5 DEF x
  <2>. QED BY <2>8, <2>9
<1>6. sum[S] = k * Cardinality(T)
  <2>1. S \cap T = T
    OBVIOUS
  <2>. QED BY <2>1
<1>. QED BY <1>1, <1>5, <1>6

\* A check that has ended counts in full.
LEMMA DoneEstimate ==
  ASSUME NEW H, NEW n \in DOMAIN H, H[n].p50 = 2, NEW a, NEW live, live = {a}, a.status = "COMPLETED", NEW delay, NEW now, NEW fallback
  PROVE  EstimateFor(n, live, H, delay, now, fallback) = Estimate(2, 200, 0, 0, FALSE, FALSE)
<1>1. live # {} /\ (CHOOSE d \in live : TRUE) = a
  OBVIOUS
<1>2. EstimateFor(n, live, H, delay, now, fallback) = Estimate(H[n].p50, 100 * H[n].p50, 0, 0, FALSE, FALSE)
  BY <1>1, Zenon DEF EstimateFor, Completed
<1>3. 100 * H[n].p50 = 200
  OBVIOUS
<1>. QED BY <1>2, <1>3

\* An expected name that is not listed counts for nothing yet.
LEMMA MissingEstimate ==
  ASSUME NEW H, NEW n \in DOMAIN H, NEW delay, NEW now, NEW fallback
  PROVE  EstimateFor(n, {}, H, delay, now, fallback)
           = Estimate(H[n].p50, 0, H[n].p50 + delay[n], H[n].p90 + delay[n], TRUE, FALSE)
  BY Zenon DEF EstimateFor

\* While something is open the percentage is the finished share of the weight.
LEMMA PercentIs ==
  ASSUME NEW C, NEW expected, NEW H, NEW delay, NEW now, NEW est, est = Estimates(C, expected, H, delay, now),
         NEW weights, weights = [n \in DOMAIN est |-> est[n].weight], SumOver(weights, DOMAIN est) # 0,
         NEW finished, finished = [n \in DOMAIN est |-> est[n].finished], \E n \in DOMAIN est : est[n].open
  PROVE  ComputeProgress(C, expected, H, delay, now).percent
           = Rounded(SumOver(finished, DOMAIN est), SumOver(weights, DOMAIN est))
<1>. DEFINE names  == DOMAIN est
            weight == SumOver([n \in names |-> est[n].weight], names)
            done   == SumOver([n \in names |-> est[n].finished], names)
            percent == IF weight = 0 THEN 100 ELSE Rounded(done, weight)
            failed == \E c \in C : Failed(c)
            wide   == \E n \in names \cap DOMAIN H :
                        H[n].p50 > 0 /\ H[n].p90 > 2 * H[n].p50 /\ est[n].open
            eta    == Maximum({est[n].rem50 : n \in names}, 0)
            high   == IF wide THEN Maximum({est[n].rem90 : n \in names}, 0) ELSE Null
            closed == \A n \in names : ~est[n].open
            late   == \E n \in names : est[n].overdue
            p      == ComputeProgress(C, expected, H, delay, now)
<1>1. p = CASE closed -> Progress(100, 0, Null, FALSE, failed)
            [] late   -> Progress(percent, Null, Null, TRUE, failed)
            [] OTHER  -> Progress(percent, eta, high, FALSE, failed)
  BY DEF ComputeProgress
<1>2. ~closed
  OBVIOUS
<1>3. percent = Rounded(SumOver(finished, DOMAIN est), SumOver(weights, DOMAIN est))
  OBVIOUS
<1>. HIDE DEF percent, failed, wide, eta, high, closed, late, p
<1>4. late => p = Progress(percent, Null, Null, TRUE, failed)
  BY <1>1, <1>2, Zenon
<1>5. ~late => p = Progress(percent, eta, high, FALSE, failed)
  BY <1>1, <1>2, Zenon
<1>6. /\ Progress(percent, Null, Null, TRUE, failed).percent = percent
      /\ Progress(percent, eta, high, FALSE, failed).percent = percent
  BY DEF Progress
<1>7. p.percent = percent
  BY <1>4, <1>5, <1>6, Zenon
<1>. QED BY <1>3, <1>7 DEF p

\* A run that does not list every job yet is half done at most.
LEMMA MissingIsUnfinished ==
  ASSUME CommitInv, \A a \in Required : Completed(a), NEW n \in Gates, n \notin Shows
  PROVE  CiProgress.percent < 100
<1>. DEFINE live(m) == {a \in Required : a.name = m}
            delay == [m \in Gates |-> 0]
            est == [m \in Gates |-> EstimateFor(m, live(m), Median, delay, clock, Fallback(Median, Gates))]
            weights == [m \in Gates |-> est[m].weight]
            finished == [m \in Gates |-> est[m].finished]
<1>1. Required = {AggregateFamily(Family(m)) : m \in Shows} /\ Shows \subseteq Gates
  BY RequiredIs, NamesMatch DEF Shows
<1>2. \A m \in Shows : LET a == AggregateFamily(Family(m))
                       IN /\ a.name = m /\ a.workflow = "CI"
                          /\ Completed(a) => a.conclusion \in Conclusions
  BY FamilyIsAggregated
<1>3. \A m \in Gates : live(m) = IF m \in Shows THEN {AggregateFamily(Family(m))} ELSE {}
  BY <1>1, <1>2
<1>4. DOMAIN Median = Gates /\ \A m \in Gates : Median[m].p50 = 2 /\ Median[m].p90 = 2
  BY DEF Median
<1>5. \A m \in Shows : est[m] = Estimate(2, 200, 0, 0, FALSE, FALSE)
  <2>. SUFFICES ASSUME NEW m \in Shows PROVE est[m] = Estimate(2, 200, 0, 0, FALSE, FALSE)
    OBVIOUS
  <2>. DEFINE a == AggregateFamily(Family(m))
              fallback == Fallback(Median, Gates)
  <2>1. live(m) = {a} /\ Completed(a) /\ m \in Gates /\ m \in DOMAIN Median
    BY <1>1, <1>3, <1>4
  <2>2. est[m] = EstimateFor(m, live(m), Median, delay, clock, fallback)
    BY <2>1
  <2>. HIDE DEF a, fallback, delay, live
  <2>3. Median[m].p50 = 2
    BY <1>4, <2>1
  <2>4. EstimateFor(m, live(m), Median, delay, clock, fallback) = Estimate(2, 200, 0, 0, FALSE, FALSE)
    BY <2>1, <2>3, DoneEstimate DEF Completed
  <2>. QED BY <2>2, <2>4
<1>6. \A m \in Gates \ Shows : est[m] = Estimate(2, 0, 2, 2, TRUE, FALSE)
  <2>. SUFFICES ASSUME NEW m \in Gates \ Shows PROVE est[m] = Estimate(2, 0, 2, 2, TRUE, FALSE)
    OBVIOUS
  <2>. DEFINE fallback == Fallback(Median, Gates)
  <2>1. est[m] = EstimateFor(m, {}, Median, delay, clock, fallback)
    BY <1>3
  <2>2. delay[m] = 0 /\ m \in DOMAIN Median
    BY <1>4
  <2>. HIDE DEF fallback, delay
  <2>3. EstimateFor(m, {}, Median, delay, clock, fallback)
          = Estimate(Median[m].p50, 0, Median[m].p50 + delay[m], Median[m].p90 + delay[m], TRUE, FALSE)
    BY <2>2, MissingEstimate, Zenon
  <2>4. Median[m].p50 = 2 /\ Median[m].p90 = 2 /\ 2 + 0 = 2
    BY <1>4
  <2>. QED BY <2>1, <2>2, <2>3, <2>4
<1>. HIDE DEF est
<1>7. Expected = Gates
  <2>1. Foreign(Read, "CI") \cap Gates = {}
    <3>. SUFFICES ASSUME NEW c \in Read, ~WorkflowScopeAllows(c.workflow, "CI") PROVE c.name \notin Gates
      BY DEF Foreign, NamesOf
    <3>1. c.workflow # "CI"
      BY DEF WorkflowScopeAllows
    <3>2. c = GateFailed
      BY <1>2, <3>1, FamiliesAreRead
    <3>3. GateFailed.name = <<"ci", "gate">>
      BY DEF GateFailed, CheckOf, Gate
    <3>4. Len(GateFailed.name) = 2
      BY <3>3
    <3>5. Len(TestName) = 1 /\ Len(CiName) = 1
      BY DEF TestName, CiName
    <3>. QED BY <3>2, <3>4, <3>5, NamesMatch
  <2>2. \A m \in Gates : MatchesRequiredPrefix(m, Gates)
    BY NamesMatch DEF MatchesRequiredPrefix
  <2>3. Gates # NoPrefixes /\ CommitGraph.workflow = "CI"
    BY NamesMatch DEF NoPrefixes, CommitGraph
  <2>. QED BY <1>4, <2>1, <2>2, <2>3 DEF Expected, ExpectedNames
<1>8. NamesOf(Required) = Shows
  BY <1>1, <1>2 DEF NamesOf
<1>9. \A m \in Gates : \A a \in live(m) : a.conclusion # "SKIPPED"
  BY <1>1, <1>2, <1>3 DEF Conclusions
<1>10. SumOver(weights, Gates) = 4 /\ SumOver(finished, Gates) \in {0, 200}
  <2>1. IsFiniteSet(Gates) /\ Cardinality(Gates) = 2
    <3>1. IsFiniteSet({TestName}) /\ Cardinality({TestName}) = 1
      BY FS_Singleton
    <3>2. {TestName} \cup {CiName} = Gates /\ CiName \notin {TestName}
      BY NamesMatch
    <3>3. IsFiniteSet({TestName} \cup {CiName}) /\ Cardinality({TestName} \cup {CiName}) = 1 + 1
      BY <3>1, <3>2, FS_AddElement
    <3>. QED BY <3>2, <3>3
  <2>2. \A m \in Gates : weights[m] = IF m \in Gates THEN 2 ELSE 0
    BY <1>5, <1>6 DEF Estimate
  <2>3. \A m \in Gates : finished[m] = IF m \in Shows THEN 200 ELSE 0
    BY <1>5, <1>6 DEF Estimate
  <2>. HIDE DEF weights, finished
  <2>4. SumOver(weights, Gates) = 2 * Cardinality(Gates)
    BY <2>1, <2>2, SumOfEqual
  <2>5. SumOver(finished, Gates) = 200 * Cardinality(Shows)
    BY <1>1, <2>1, <2>3, SumOfEqual
  <2>6. Cardinality(Shows) \in {0, 1}
    <3>1. IsFiniteSet(Gates \ {n}) /\ Cardinality(Gates \ {n}) = 1
      BY <2>1, FS_RemoveElement
    <3>2. Shows \subseteq Gates \ {n}
      BY <1>1
    <3>3. Cardinality(Shows) <= 1 /\ Cardinality(Shows) \in Nat
      BY <3>1, <3>2, FS_Subset, FS_CardinalityType
    <3>. QED BY <3>3
  <2>. QED BY <2>1, <2>4, <2>5, <2>6
<1>11. est[n].open /\ \A m \in Gates : ~est[m].overdue
  BY <1>5, <1>6 DEF Estimate
<1>. HIDE DEF weights, finished, delay
<1>12. Estimates(Required, Expected, Median, delay, clock) = est
  <2>. DEFINE all == Expected \cup NamesOf(Required)
              names == {m \in all : \A a \in live(m) : a.conclusion # "SKIPPED"}
  <2>1. all = Gates /\ names = Gates
    BY <1>1, <1>7, <1>8, <1>9
  <2>2. Estimates(Required, Expected, Median, delay, clock)
          = [m \in names |-> EstimateFor(m, live(m), Median, delay, clock, Fallback(Median, all))]
    BY DEF Estimates
  <2>. HIDE DEF all, names
  <2>. QED BY <2>1, <2>2 DEF est
<1>13. CiProgress.percent = Rounded(SumOver(finished, Gates), SumOver(weights, Gates))
  <2>1. DOMAIN est = Gates
    BY DEF est
  <2>2. weights = [m \in DOMAIN est |-> est[m].weight] /\ finished = [m \in DOMAIN est |-> est[m].finished]
    BY <2>1 DEF weights, finished
  <2>3. ComputeProgress(Required, Expected, Median, delay, clock).percent
          = Rounded(SumOver(finished, DOMAIN est), SumOver(weights, DOMAIN est))
    BY <1>10, <1>11, <1>12, <2>1, <2>2, PercentIs
  <2>. QED BY <2>1, <2>3 DEF CiProgress, delay
<1>14. Rounded(0, 4) = 0 /\ Rounded(200, 4) = 50
  BY DEF Rounded
<1>. QED BY <1>10, <1>13, <1>14

\* With both names listed, the rollup job and the whole matrix are.
LEMMA ShownIsWhole ==
  ASSUME CommitInv, Shows = Gates
  PROVE  {c.raw : c \in Current(LatestRun)} = Jobs
<1>1. \A c \in Current(LatestRun) : c \in Ci /\ c.run = LatestRun /\ c.raw \in Jobs /\ c.name = NameOf(c.raw)
  BY CurrentIsListed DEF CiChecks, IsTimely
<1>2. PICK c \in Current(LatestRun) : c.name = CiName
  BY NamesMatch DEF Shows, Family
<1>3. c.raw = "ci"
  BY <1>1, <1>2, NamesMatch DEF NameOf
<1>4. ASSUME NEW s \in Shards PROVE \E d \in Current(LatestRun) : d.raw = s
  <2>1. PICK d \in Ci : d.run = LatestRun /\ d.raw = s
    BY <1>1, <1>2 DEF CommitInv, AreRuns, MatrixIsWhole
  <2>. QED BY <2>1, LastAttempt
<1>. QED BY <1>1, <1>2, <1>3, <1>4 DEF Jobs

\* A commit is ready only when every job of its latest run has succeeded, the rollup job
\* included: while it is missing, what the history expects keeps the progress below 100
\* (classify, computeProgress), whatever the shards and however often the jobs are re-run.
THEOREM GreenIsComplete == CommitSpec => []ReadyIsGreen
<1>1. CommitInv => ReadyIsGreen
  <2>. SUFFICES ASSUME CommitInv, Shown.stage = "ready"
                PROVE  /\ {c.raw : c \in Current(LatestRun)} = Jobs
                       /\ \A c \in Current(LatestRun) : c.conclusion = "SUCCESS"
    BY DEF ReadyIsGreen
  <2>1. /\ \A a \in Required : Completed(a) /\ a.conclusion # "CANCELLED" /\ ~Failed(a)
        /\ ~(CiProgress.percent < 100)
    BY StagesTell
  <2>2. Shows = Gates
    BY <2>1, MissingIsUnfinished, NamesMatch DEF Shows
  <2>3. ASSUME NEW c \in Current(LatestRun) PROVE c.conclusion = "SUCCESS"
    <3>. DEFINE a == AggregateFamily(Family(c.name))
    <3>1. c.name \in Shows /\ c \in Family(c.name) /\ IsTimely(c, clock)
      BY <2>3, CurrentIsListed DEF CiChecks, Shows, Family
    <3>2. a \in Required
      BY <3>1, RequiredIs
    <3>3. /\ Completed(a) => \A d \in Family(c.name) : Completed(d)
          /\ Completed(a) => a.conclusion \in Conclusions
          /\ Completed(a) /\ c.conclusion = "FAILURE" => a.conclusion = "FAILURE"
          /\ Completed(a) /\ c.conclusion = "CANCELLED" => a.conclusion # "SUCCESS"
      BY <3>1, FamilyIsAggregated
    <3>. HIDE DEF a
    <3>4. c.conclusion \in Conclusions
      BY <2>1, <3>1, <3>2, <3>3 DEF IsTimely, Completed
    <3>. QED BY <2>1, <3>2, <3>3, <3>4 DEF Failed, Failing, Conclusions
  <2>. QED BY <2>2, <2>3, ShownIsWhole
<1>. QED BY <1>1, RunsAreSound, PTL

\* What the graph of the workflow says of its two names.
LEMMA CiNeedsTests ==
  /\ \A n \in Gates : Known(CommitGraph, n)
  /\ NeedsFor(CommitGraph, TestName) = {} /\ NeedsFor(CommitGraph, CiName) = {TestName}
  /\ \A e : NeedActiveFor(CommitGraph, TestName, e)
  /\ CommitGraph.workflow = "CI" /\ DOMAIN CommitGraph.nodes = Gates
<1>1. CommitGraph.workflow = "CI" /\ DOMAIN CommitGraph.nodes = Gates
  BY DEF CommitGraph, Gates
<1>2. \A n \in Gates : NodeFor(CommitGraph, n) = {n}
  BY <1>1, NamesMatch DEF NodeFor
<1>3. \A n \in Gates : Known(CommitGraph, n) /\ TheNode(CommitGraph, n) = CommitGraph.nodes[n]
  BY <1>2 DEF Known, TheNode
<1>4. /\ CommitGraph.nodes[TestName].needs = {} /\ CommitGraph.nodes[CiName].needs = {TestName}
      /\ CommitGraph.nodes[TestName].activity = Always
  BY NamesMatch DEF CommitGraph
<1>5. NeedsFor(CommitGraph, TestName) = {} /\ NeedsFor(CommitGraph, CiName) = {TestName}
  BY <1>3, <1>4, NamesMatch DEF NeedsFor
<1>6. \A e : NeedActiveFor(CommitGraph, TestName, e)
  BY <1>4 DEF NeedActiveFor, ActiveForEvent, Always
<1>. QED BY <1>1, <1>3, <1>5, <1>6

\* The aggregated checks of the workflow's own run.
Own == {AggregateFamily(Family(n)) : n \in Shows}

\* They are named, and belong to the workflow.
LEMMA OwnAre ==
  ASSUME CommitInv
  PROVE  \A d \in Own : /\ d.name \in Shows /\ d.name \in Gates /\ d = AggregateFamily(Family(d.name))
                       /\ d.workflow = "CI" /\ d.event = "pull_request"
<1>1. \A n \in Shows : LET a == AggregateFamily(Family(n))
                       IN a.name = n /\ a.workflow = "CI" /\ a.event = "pull_request"
  BY FamilyIsAggregated
<1>. QED BY <1>1, NamesMatch DEF Own, Shows

\* What the rollup check waits for is the one check of the tests.
LEMMA TestsAreAwaited ==
  ASSUME CommitInv, NEW c \in Own, c.name = CiName, NEW C, Own \subseteq C, C \subseteq Own \cup {GateFailed}
  PROVE  /\ ActiveNeeds(c, CommitGraph) = {TestName}
         /\ MatchingNeeded(TestName, c, C, CommitGraph)
              = IF TestName \in Shows THEN {AggregateFamily(Family(TestName))} ELSE {}
<1>1. ActiveNeeds(c, CommitGraph) = {TestName}
  BY CiNeedsTests DEF ActiveNeeds
<1>2. \A n \in Shows : LET a == AggregateFamily(Family(n))
                       IN a.name = n /\ a.workflow = "CI" /\ a.event = "pull_request"
  BY FamilyIsAggregated
<1>3. \A d \in Own : d.name \in Gates /\ d.name \in Shows /\ d.workflow = "CI" /\ d.event = "pull_request"
                    /\ d = AggregateFamily(Family(d.name))
  BY OwnAre
<1>4. GateFailed.workflow = "Auto-merge"
  BY GateIsAlone
<1>5. ~WorkflowScopeAllows("Auto-merge", "CI") /\ WorkflowScopeAllows("CI", "CI")
  BY DEF WorkflowScopeAllows, NoWorkflow
<1>6. MatchingNeeded(TestName, c, C, CommitGraph) = {d \in Own \ {c} : MatchingPrefix(d.name, Gates) = {TestName}}
  BY <1>3, <1>4, <1>5, CiNeedsTests DEF MatchingNeeded
<1>7. \A d \in Own : MatchingPrefix(d.name, Gates) = {d.name}
  BY <1>3, NamesMatch
<1>8. {d \in Own \ {c} : MatchingPrefix(d.name, Gates) = {TestName}} = {d \in Own : d.name = TestName}
  BY <1>7, NamesMatch
<1>9. {d \in Own : d.name = TestName} = IF TestName \in Shows THEN {AggregateFamily(Family(TestName))} ELSE {}
  <2>1. TestName \in Shows => AggregateFamily(Family(TestName)) \in Own /\ AggregateFamily(Family(TestName)).name = TestName
    BY <1>2 DEF Own
  <2>. QED BY <1>3, <2>1
<1>. QED BY <1>1, <1>6, <1>8, <1>9

\* The wait of the rollup job is anchored at the completion of the tests.
LEMMA AnchorsAre ==
  ASSUME CommitInv, NEW c \in Own, c.name = CiName, NEW C, Own \subseteq C, C \subseteq Own \cup {GateFailed}, TestName \in Shows
  PROVE  Anchors(c, C, CommitGraph) = {AggregateFamily(Family(TestName)).completed}
<1>. DEFINE t == AggregateFamily(Family(TestName))
<1>1. UNION {MatchingNeeded(p, c, C, CommitGraph) : p \in ActiveNeeds(c, CommitGraph)} = {t}
  BY TestsAreAwaited
<1>2. t.conclusion # "SKIPPED"
  BY FamilyIsAggregated DEF Conclusions, NoConclusion
<1>. HIDE DEF t
<1>3. {d \in {t} : d.conclusion # "SKIPPED"} = {t}
  BY <1>2
<1>. QED BY <1>1, <1>3 DEF Anchors, t

\* The rollup check is the rollup job of the latest run; without re-runs it was queued
\* when the last of the tests ended.
LEMMA RollupIsQueued ==
  ASSUME CommitInv, \A c \in Current(LatestRun) : c.attempt = 1, NEW c \in Own, c.name = CiName
  PROVE  /\ c \in Current(LatestRun) /\ c.raw = "ci"
         /\ TestName \in Shows => LET t == AggregateFamily(Family(TestName))
                                  IN Completed(t) => t.completed = queuedAt[KeyOf(c)] /\ t.completed \in Nat \ {0}
<1>1. CiName \in Shows /\ c = AggregateFamily(Family(CiName))
  BY OwnAre
<1>2. PICK e \in Family(CiName) : TRUE
  BY <1>1 DEF Shows
<1>3. \A d \in Current(LatestRun) : /\ d \in Ci /\ d \in CiChecks /\ d.run = LatestRun
                                   /\ d.name = NameOf(d.raw) /\ d.raw \in Jobs /\ d.completed \in Nat
  BY CurrentIsListed, CheckFields DEF IsTimely
<1>4. \A d \in Family(CiName) : d.raw = "ci"
  BY <1>3, NamesMatch DEF Family, NameOf
<1>5. Family(CiName) = {e}
  <2>. SUFFICES ASSUME NEW d \in Family(CiName) PROVE d = e
    BY <1>2
  <2>1. d \in Current(LatestRun) /\ e \in Current(LatestRun)
    BY <1>2 DEF Family
  <2>2. d.attempt = e.attempt /\ d.raw = e.raw /\ d.run = e.run
    BY <1>2, <1>3, <1>4, <2>1
  <2>. QED BY <1>3, <2>1, <2>2 DEF CommitInv, AreRuns, AreKeyed
<1>6. c = e
  BY <1>1, <1>5, FamilyIsAggregated
<1>7. c \in Current(LatestRun) /\ c.raw = "ci"
  BY <1>2, <1>4, <1>6 DEF Family
<1>8. FirstTests(Ci, LatestRun) = Family(TestName)
  <2>1. ASSUME NEW d \in FirstTests(Ci, LatestRun) PROVE d \in Family(TestName)
    <3>1. d \in Ci /\ d.run = LatestRun /\ d.raw \in Shards /\ d.attempt = 1
      BY <2>1 DEF FirstTests
    <3>2. PICK x \in Current(LatestRun) : x.raw = d.raw
      BY <3>1, LastAttempt
    <3>3. x = d
      BY <1>3, <3>1, <3>2 DEF CommitInv, AreRuns, AreKeyed
    <3>4. d.name = TestName
      BY <1>3, <3>1, <3>2, <3>3, CommitAssumption DEF NameOf
    <3>. QED BY <3>2, <3>3, <3>4 DEF Family
  <2>2. ASSUME NEW d \in Family(TestName) PROVE d \in FirstTests(Ci, LatestRun)
    <3>1. d \in Current(LatestRun) /\ d.name = TestName
      BY <2>2 DEF Family
    <3>2. d.raw # "ci"
      BY <1>3, <3>1, NamesMatch DEF NameOf
    <3>. QED BY <1>3, <3>1, <3>2 DEF FirstTests, Jobs
  <2>. QED BY <2>1, <2>2
<1>9. ASSUME TestName \in Shows, Completed(AggregateFamily(Family(TestName)))
      PROVE  LET t == AggregateFamily(Family(TestName))
             IN t.completed = queuedAt[KeyOf(c)] /\ t.completed \in Nat \ {0}
  <2>. DEFINE t == AggregateFamily(Family(TestName))
  <2>1. t.completed # 0 /\ t.completed \in {d.completed : d \in Family(TestName)}
        /\ \A d \in Family(TestName) : d.completed <= t.completed
    BY <1>9, FamilyIsAggregated
  <2>. HIDE DEF t
  <2>2. /\ \E d \in Family(TestName) : d.completed = queuedAt[KeyOf(c)]
        /\ \A d \in Family(TestName) : d.completed <= queuedAt[KeyOf(c)]
    BY <1>3, <1>7, <1>8 DEF CommitInv, AreQueued
  <2>3. \A d \in Family(TestName) : d.completed \in Nat
    BY <1>3 DEF Family
  <2>4. PICK x \in Family(TestName) : t.completed = x.completed
    BY <2>1
  <2>5. PICK y \in Family(TestName) : y.completed = queuedAt[KeyOf(c)]
    BY <2>2
  <2>6. x.completed <= y.completed /\ y.completed <= x.completed
    BY <2>1, <2>2, <2>4, <2>5
  <2>. QED BY <2>1, <2>3, <2>4, <2>5, <2>6 DEF t
<1>. QED BY <1>7, <1>9

\* A learned wait is measured from the last completion of what the check needs.
LEMMA SampleIsMeasured ==
  ASSUME NEW C, NEW graph, NEW maxWait, NEW s \in RunnerWaitSamples(C, graph, maxWait)
  PROVE  \E c \in C : /\ NeedsFor(graph, c.name) # {}
                      /\ \A p \in ActiveNeeds(c, graph) : MatchingNeeded(p, c, C, graph) # {}
                      /\ 0 \notin Anchors(c, C, graph)
                      /\ s = [name |-> c.name, event |-> c.event, at |-> c.started,
                              wait |-> c.started - Max(Anchors(c, C, graph))]
  BY DEF RunnerWaitSamples

\* A check that has not ended has no completion.
LEMMA OpenHasNoEnd ==
  ASSUME CommitInv, NEW n \in Shows, ~Completed(AggregateFamily(Family(n)))
  PROVE  AggregateFamily(Family(n)).completed = 0
  BY FamilyIsAggregated

\* In a run without re-runs the wait of the rollup job, live or learned, is the time it sat
\* in the queue: the latest completion of a test is when it was queued (classifyWait,
\* extractRunnerWaits).
THEOREM WaitsAreMeasured == CommitSpec => []WaitsAreReal
<1>1. CommitInv => WaitsAreReal
  <2>. DEFINE live(c) == ClassifyWait(c, Read, CommitGraph, clock)
              samples == RunnerWaitSamples(Own, CommitGraph, 7200)
              own == {c \in Read : c.workflow = "CI"}
  <2>0. ASSUME CommitInv PROVE own = Own
    <3>1. Read = Own \cup (listed \cap {GateFailed})
      BY <2>0, FamiliesAreRead DEF Own
    <3>2. \A c \in Own : c.workflow = "CI"
      BY <2>0, OwnAre
    <3>. QED BY <3>1, <3>2, GateIsAlone
  <2>. SUFFICES ASSUME CommitInv, \A c \in Current(LatestRun) : c.attempt = 1
                PROVE  /\ \A c \in Own : c.raw = "ci" /\ live(c).kind = "runner" => live(c).secs = clock - queuedAt[KeyOf(c)]
                       /\ \A s \in samples : \E c \in Current(LatestRun) :
                            c.name = s.name /\ c.started = s.at /\ s.wait = s.at - queuedAt[KeyOf(c)]
    <3>1. WaitsAreReal <=> 
            LET jobs == Current(LatestRun)
            IN (\A c \in jobs : c.attempt = 1) =>
                /\ \A c \in own : c.raw = "ci" /\ live(c).kind = "runner" => live(c).secs = clock - queuedAt[KeyOf(c)]
                /\ \A s \in RunnerWaitSamples(own, CommitGraph, 7200) : \E c \in jobs :
                     c.name = s.name /\ c.started = s.at /\ s.wait = s.at - queuedAt[KeyOf(c)]
      BY DEF WaitsAreReal
    <3>. HIDE DEF own, live
    <3>. QED BY <2>0, <3>1
  <2>1. Own \subseteq Read /\ Read \subseteq Own \cup {GateFailed}
    BY FamiliesAreRead DEF Own
  <2>2. \A c \in Own : c.name \in Gates
    BY OwnAre
  <2>. DEFINE t == AggregateFamily(Family(TestName))
  <2>3. ASSUME NEW c \in Own, c.raw = "ci", live(c).kind = "runner"
        PROVE  live(c).secs = clock - queuedAt[KeyOf(c)]
    <3>. DEFINE needed == [p \in ActiveNeeds(c, CommitGraph) |-> MatchingNeeded(p, c, Read, CommitGraph)]
                blocked == \E p \in DOMAIN needed : needed[p] = {} \/ \E d \in needed[p] : ~SatisfiesNeed(d)
                anchors == Anchors(c, Read, CommitGraph) \ {0}
    <3>1. c.name = CiName
      <4>1. PICK n \in Shows : c = AggregateFamily(Family(n))
        BY DEF Own
      <4>2. PICK e \in Family(n) : c.raw = e.raw /\ c.name = n
        BY <4>1, FamilyIsAggregated
      <4>3. e.name = n /\ e.name = NameOf(e.raw)
        BY CurrentIsListed DEF Family, IsTimely
      <4>. QED BY <2>3, <4>2, <4>3 DEF NameOf
    <3>2. ~blocked /\ live(c).secs = IF anchors = {} THEN Null ELSE clock - Max(anchors)
      BY <2>3, Zenon DEF ClassifyWait
    <3>3. ActiveNeeds(c, CommitGraph) = {TestName}
          /\ MatchingNeeded(TestName, c, Read, CommitGraph) = IF TestName \in Shows THEN {t} ELSE {}
      BY <2>1, <3>1, TestsAreAwaited
    <3>. HIDE DEF t, anchors
    <3>4. TestName \in Shows /\ SatisfiesNeed(t)
      BY <3>2, <3>3
    <3>5. Completed(t)
      BY <3>4 DEF SatisfiesNeed
    <3>6. t.completed = queuedAt[KeyOf(c)] /\ t.completed \in Nat \ {0}
      BY <3>1, <3>4, <3>5, RollupIsQueued DEF t
    <3>7. anchors = {t.completed}
      BY <2>1, <3>1, <3>4, <3>6, AnchorsAre DEF t, anchors
    <3>8. Max({t.completed}) = t.completed
      <4>1. t.completed <= t.completed /\ t.completed \in Nat
        BY <3>6
      <4>2. Max({t.completed}) \in {t.completed}
        BY <4>1, HasMax
      <4>. QED BY <4>2
    <3>. QED BY <3>2, <3>6, <3>7, <3>8
  <2>4. ASSUME NEW s \in samples
        PROVE  \E c \in Current(LatestRun) :
                 c.name = s.name /\ c.started = s.at /\ s.wait = s.at - queuedAt[KeyOf(c)]
    <3>1. PICK c \in Own :
            /\ NeedsFor(CommitGraph, c.name) # {}
            /\ \A p \in ActiveNeeds(c, CommitGraph) : MatchingNeeded(p, c, Own, CommitGraph) # {}
            /\ 0 \notin Anchors(c, Own, CommitGraph)
            /\ s = [name |-> c.name, event |-> c.event, at |-> c.started,
                    wait |-> c.started - Max(Anchors(c, Own, CommitGraph))]
      BY SampleIsMeasured
    <3>2. c.name = CiName
      BY <2>2, <3>1, NamesMatch, CiNeedsTests
    <3>3. TestName \in Shows
      BY <3>1, <3>2, TestsAreAwaited
    <3>4. Anchors(c, Own, CommitGraph) = {t.completed}
      BY <3>2, <3>3, AnchorsAre
    <3>5. t.completed # 0
      BY <3>1, <3>4
    <3>6. Completed(t)
      BY <3>3, <3>5, OpenHasNoEnd
    <3>. HIDE DEF t
    <3>7. c \in Current(LatestRun) /\ t.completed = queuedAt[KeyOf(c)] /\ t.completed \in Nat \ {0}
      BY <3>2, <3>3, <3>6, RollupIsQueued DEF t
    <3>8. Max({t.completed}) = t.completed
      <4>1. t.completed <= t.completed /\ t.completed \in Nat
        BY <3>7
      <4>2. Max({t.completed}) \in {t.completed}
        BY <4>1, HasMax
      <4>. QED BY <4>2
    <3>9. s.name = c.name /\ s.at = c.started /\ s.wait = c.started - queuedAt[KeyOf(c)]
      BY <3>1, <3>4, <3>7, <3>8
    <3>. QED BY <3>7, <3>9
  <2>. QED BY <2>3, <2>4
<1>. QED BY <1>1, RunsAreSound, PTL

(***************************************************************************)
(* Workflow files: jobs that share a display name.                         *)
(***************************************************************************)
\* Any workflow file that has its rollup job, and any job that calls itself differently by event.
WorkflowFile(W) == W.parses /\ "roll" \in DOMAIN W.jobs

\* Of activities merged, the result is active wherever one of them is.
LEMMA MergedIsActive ==
  ASSUME NEW jobs, NEW job \in jobs, NEW e,
         ActiveForEvent(ExtractActivity(job), e)
  PROVE  ActiveForEvent(MergeActivity({ExtractActivity(j) : j \in jobs}), e)
<1>. DEFINE A == {ExtractActivity(j) : j \in jobs}
            a == ExtractActivity(job)
            events == UNION {x.events : x \in A}
<1>1. a \in A
  OBVIOUS
<1>2. ActiveForEvent(a, e)
  OBVIOUS
<1>. HIDE DEF A, a
<1>3. CASE \A x \in A : x.mode = "only"
  <2>1. a.mode = "only" /\ e \in a.events
    BY <1>1, <1>2, <1>3 DEF ActiveForEvent
  <2>0. \E x \in A : x.mode # "except"
    BY <1>1, <2>1
  <2>2. MergeActivity(A) = [mode |-> "only", events |-> events]
    BY <1>3, <2>0 DEF MergeActivity
  <2>3. e \in events
    BY <2>1, <1>1
  <2>. HIDE DEF events
  <2>4. ActiveForEvent(MergeActivity(A), e)
    BY <2>2, <2>3 DEF ActiveForEvent
  <2>. QED BY <2>4 DEF A
<1>4. CASE (\E x \in A : x.mode # "only") /\ \A x \in A : x.mode = "except"
  <2>. DEFINE kept == {x \in events : \A y \in A : x \in y.events}
  <2>1. a.mode = "except" /\ e \notin a.events
    BY <1>1, <1>2, <1>4 DEF ActiveForEvent
  <2>2. MergeActivity(A) = [mode |-> "except", events |-> kept]
    BY <1>4 DEF MergeActivity
  <2>3. e \notin kept
    BY <2>1, <1>1
  <2>. HIDE DEF kept
  <2>4. ActiveForEvent(MergeActivity(A), e)
    BY <2>2, <2>3 DEF ActiveForEvent
  <2>. QED BY <2>4 DEF A
<1>5. CASE (\E x \in A : x.mode # "only") /\ (\E x \in A : x.mode # "except")
  <2>1. MergeActivity(A) = Always
    BY <1>5 DEF MergeActivity
  <2>2. ActiveForEvent(MergeActivity(A), e)
    BY <2>1 DEF ActiveForEvent, Always
  <2>. QED BY <2>2 DEF A
<1>. QED BY <1>3, <1>4, <1>5

\* In the graph of any workflow file that has its rollup job, a node is active for an event
\* whenever one of the jobs of its name is (mergeActivity).
THEOREM NoJobIsHidden ==
  ASSUME WorkflowFile(input)
  PROVE  ActivityNeverHidesAJob
<1>. DEFINE keys == Closure(input, "roll")
            G == [nodes |-> [p \in {PrefixOf(input.jobs[k]) : k \in keys} |->
                              NodeOf(input, {k \in keys : PrefixOf(input.jobs[k]) = p})],
                  workflow |-> input.name]
<1>1. DeriveCiGraph(input, "roll") = {G}
  BY DEF WorkflowFile, DeriveCiGraph
<1>. SUFFICES ASSUME NEW k \in keys, NEW e \in Events,
                     ActiveForEvent(ExtractActivity(input.jobs[k]), e)
              PROVE  NeedActiveFor(G, PrefixOf(input.jobs[k]), e)
  BY <1>1 DEF ActivityNeverHidesAJob
<1>. DEFINE p == PrefixOf(input.jobs[k])
            same == {m \in keys : PrefixOf(input.jobs[m]) = p}
            jobs == {input.jobs[m] : m \in same}
<1>2. k \in same /\ input.jobs[k] \in jobs
  OBVIOUS
<1>3. {ExtractActivity(input.jobs[m]) : m \in same} = {ExtractActivity(j) : j \in jobs}
  OBVIOUS
<1>4. G.nodes[p] = NodeOf(input, same)
  OBVIOUS
<1>5. NodeOf(input, same).activity = MergeActivity({ExtractActivity(j) : j \in jobs})
  BY <1>3 DEF NodeOf
<1>. HIDE DEF jobs
<1>6. ActiveForEvent(MergeActivity({ExtractActivity(j) : j \in jobs}), e)
  BY <1>2, MergedIsActive
<1>. QED BY <1>4, <1>5, <1>6 DEF NeedActiveFor

(***************************************************************************)
(* Suggestions.                                                            *)
(***************************************************************************)
\* What the metrics count of the checks of a window: any checks, under any event.
CheckCounts(stats) ==
  \A c \in DOMAIN stats : {stats[c].total, stats[c].failing, stats[c].flaky} \subseteq Nat

\* A demoted check is green, and what is demoted off the pull requests runs in the queue.
LEMMA DemotedAre ==
  ASSUME NEW stats, NEW nodeNeeds, NEW c \in ComputeDemotionCandidates(stats, nodeNeeds)
  PROVE  /\ c \in DOMAIN stats /\ GreenEnough(stats[c])
         /\ c[2] = "pull_request" => c[1] \in NamesOn(stats, "merge_group")
         /\ c[2] # "merge_group"
<1>1. c \in DOMAIN stats /\ GreenEnough(stats[c]) /\ DemotionTarget(c, NamesOn(stats, "merge_group")) # {}
  BY DEF ComputeDemotionCandidates, TopOf
<1>2. ASSUME c[2] = "merge_group" PROVE FALSE
  BY <1>1, <1>2 DEF DemotionTarget
<1>3. ASSUME c[2] = "pull_request", c[1] \notin NamesOn(stats, "merge_group") PROVE FALSE
  BY <1>1, <1>3 DEF DemotionTarget
<1>. QED BY <1>1, <1>2, <1>3

\* A promoted check has really failed three times.
LEMMA PromotedAre ==
  ASSUME NEW stats, NEW c \in ComputePromotionCandidates(stats)
  PROVE  c \in DOMAIN stats /\ RealFailures(stats[c]) >= 3
BY DEF ComputePromotionCandidates, TopOf, PromotionMinFailures

\* Whatever the counts of the window, taking all suggestions leaves every check that ran
\* before a merge running there, and none is both promoted and demoted below three hundred
\* runs (computeDemotionCandidates, computePromotionCandidates).
THEOREM SuggestionsAreSafe ==
  ASSUME CheckCounts(input.stats)
  PROVE  SuggestionsKeepGates
<1>. DEFINE stats == input.stats
            demoted == ComputeDemotionCandidates(stats, input.nodeNeeds)
            promoted == ComputePromotionCandidates(stats)
            staying == {c \in DOMAIN stats \ demoted : stats[c].total > 0}
            runs(event) == {d \in DOMAIN stats : d[2] = event /\ stats[d].total > 0}
<1>1. \A n, event : n \in NamesOn(stats, event) <=> \E d \in runs(event) : d[1] = n
  BY DEF NamesOn
<1>2. \A c \in runs("merge_group") : c \in staying
  BY DemotedAre
<1>3. \A c \in runs("pull_request") : c \in staying \/ c[1] \in NamesOn(stats, "merge_group")
  BY DemotedAre
<1>4. \A n \in NamesOn(stats, "merge_group") : \E c \in staying : c[1] = n /\ c[2] = "merge_group"
  BY <1>1, <1>2
<1>5. \A n \in NamesOn(stats, "pull_request") :
        \E c \in staying : c[1] = n /\ c[2] \in {"pull_request", "merge_group"}
  <2>. SUFFICES ASSUME NEW c \in runs("pull_request")
                PROVE \E d \in staying : d[1] = c[1] /\ d[2] \in {"pull_request", "merge_group"}
    BY <1>1
  <2>1. CASE c \in staying
    BY <2>1
  <2>2. CASE c[1] \in NamesOn(stats, "merge_group")
    BY <2>2, <1>4
  <2>. QED BY <2>1, <2>2, <1>3
<1>6. ASSUME NEW c \in demoted \cap promoted PROVE stats[c].total >= 300
  <2>1. GreenEnough(stats[c]) /\ RealFailures(stats[c]) >= 3 /\ c \in DOMAIN stats
    BY DemotedAre, PromotedAre
  <2>. DEFINE total == stats[c].total  failing == stats[c].failing  flaky == stats[c].flaky
  <2>2. total \in Nat /\ failing \in Nat /\ flaky \in Nat
    BY <2>1 DEF CheckCounts
  <2>3. 100 * (total - failing) >= 99 * total
    BY <2>1 DEF GreenEnough, DemotionMinSuccess
  <2>4. (IF failing > flaky THEN failing - flaky ELSE 0) >= 3
    BY <2>1 DEF RealFailures
  <2>. HIDE DEF total, failing, flaky
  <2>5. total >= 300
    BY <2>2, <2>3, <2>4
  <2>. QED BY <2>5 DEF total
<1>. HIDE DEF demoted, promoted, stats
<1>7. \A n \in NamesOn(stats, "pull_request") \cup NamesOn(stats, "merge_group") :
        \E c \in staying : c[1] = n /\ c[2] \in {"pull_request", "merge_group"}
  BY <1>4, <1>5
<1>. QED BY <1>6, <1>7 DEF SuggestionsKeepGates, demoted, promoted, stats

(***************************************************************************)
(* The merge queue.                                                        *)
(***************************************************************************)
\* A merge queue as GitHub lists it: entries at distinct positions from 1, a pull request once,
\* and the building entries of one commit next to each other but for entries that do not build.
IsQueue(Q) ==
  /\ \E n \in Nat : \A e \in Q : e.pos \in 1 .. n
  /\ \A d, e \in Q : d.pos = e.pos \/ d.pr = e.pr => d = e
  /\ \A d, e, f \in Q : /\ Building(d) /\ Building(e) /\ Building(f) /\ d.oid = f.oid
                        /\ d.pos < e.pos /\ e.pos < f.pos
                        => e.oid = d.oid

\* A train ends at the last of its entries.
LEMMA EndOfTrain ==
  ASSUME NEW Q, IsQueue(Q), NEW oid \in Trains(Q)
  PROVE  /\ \E b \in Q : Building(b) /\ b.oid = oid /\ b.pos = TrainEnd(Q, oid)
         /\ \A d \in Q : Building(d) /\ d.oid = oid => d.pos <= TrainEnd(Q, oid)
         /\ TrainEnd(Q, oid) \in Nat \ {0}
<1>1. PICK n \in Nat : \A e \in Q : e.pos \in 1 .. n
  BY DEF IsQueue
<1>. DEFINE members == {d \in Q : Building(d) /\ d.oid = oid}
            S == {e.pos : e \in members}
<1>2. \E d \in Q : Building(d) /\ d.oid = oid
  BY DEF Trains
<1>3. S # {} /\ S \subseteq Nat /\ \A x \in S : x <= n
  BY <1>1, <1>2
<1>4. TrainEnd(Q, oid) = Max(S)
  BY DEF TrainEnd
<1>. HIDE DEF S
<1>5. Max(S) \in S /\ \A x \in S : x <= Max(S)
  BY <1>3, HasMax
<1>6. PICK b \in members : b.pos = Max(S)
  BY <1>5 DEF S
<1>7. \A d \in members : d.pos <= Max(S)
  BY <1>5 DEF S
<1>. QED BY <1>1, <1>4, <1>6, <1>7

\* Two trains never end at one position.
LEMMA SameEndSameTrain ==
  ASSUME NEW Q, IsQueue(Q), NEW oid \in Trains(Q), NEW o \in Trains(Q), TrainEnd(Q, oid) = TrainEnd(Q, o)
  PROVE  oid = o
<1>1. PICK b \in Q : Building(b) /\ b.oid = oid /\ b.pos = TrainEnd(Q, oid)
  BY EndOfTrain
<1>2. PICK d \in Q : Building(d) /\ d.oid = o /\ d.pos = TrainEnd(Q, o)
  BY EndOfTrain
<1>. QED BY <1>1, <1>2 DEF IsQueue

\* The first train that reaches an entry.
Reaches(Q, oid, e) == oid \in Trains(Q) /\ e.pos <= TrainEnd(Q, oid)
FirstTrain(Q, oid, e) ==
  Reaches(Q, oid, e) /\ \A o \in Trains(Q) : Reaches(Q, o, e) => TrainEnd(Q, oid) <= TrainEnd(Q, o)

\* The view draws an entry in the first train that reaches it (buildQueueView).
LEMMA RidesItsFirstTrain ==
  ASSUME NEW Q, IsQueue(Q), NEW e \in Q, ~Unmergeable(e), NEW oid \in Trains(Q)
  PROVE  e.pr \in Riders(Q, oid) <=> FirstTrain(Q, oid, e)
<1>. DEFINE end(o) == TrainEnd(Q, o)
            before == {end(o) : o \in Trains(Q)}
            S == {p \in before : p < end(oid)}
            from == Maximum(S, 0)
<1>1. \A o \in Trains(Q) : end(o) \in Nat \ {0}
  BY EndOfTrain
<1>2. e.pos \in Nat \ {0}
  BY DEF IsQueue
<1>3. S \subseteq Nat /\ end(oid) \in Nat /\ \A x \in S : x <= end(oid)
  BY <1>1
<1>4. from < e.pos <=> \A p \in S : p < e.pos
  <2>. HIDE DEF S
  <2>1. CASE S = {}
    BY <2>1, <1>2 DEF Maximum
  <2>2. CASE S # {}
    <3>1. Max(S) \in S /\ \A x \in S : x <= Max(S)
      BY <2>2, <1>3, HasMax
    <3>2. from = Max(S)
      BY <2>2 DEF Maximum
    <3>3. PICK m \in S : m = Max(S)
      BY <3>1
    <3>4. m \in Nat /\ from = m /\ \A x \in S : x \in Nat /\ x <= m
      BY <3>1, <3>2, <3>3, <1>3
    <3>. HIDE DEF from
    <3>. QED BY <3>4, <1>2
  <2>. QED BY <2>1, <2>2
<1>5. e.pr \in Riders(Q, oid) <=> e.pos > from /\ e.pos <= end(oid)
  <2>1. \A d \in Q : d.pr = e.pr => d = e
    BY DEF IsQueue
  <2>2. e.pr \in Riders(Q, oid) <=> \E d \in Q : d.pr = e.pr /\ ~Unmergeable(d) /\ d.pos > from /\ d.pos <= end(oid)
    BY DEF Riders
  <2>. HIDE DEF from
  <2>. QED BY <2>1, <2>2
<1>6. e.pos > from <=> from < e.pos
  <2>1. from \in Nat
    <3>. HIDE DEF S
    <3>1. CASE S = {}
      BY <3>1 DEF Maximum
    <3>2. CASE S # {}
      <4>1. Max(S) \in S
        BY <3>2, <1>3, HasMax
      <4>. QED BY <3>2, <4>1, <1>3 DEF Maximum
    <3>. QED BY <3>1, <3>2
  <2>. HIDE DEF from
  <2>. QED BY <2>1, <1>2
<1>7. (\A p \in S : p < e.pos) <=> \A o \in Trains(Q) : end(o) < end(oid) => end(o) < e.pos
  OBVIOUS
<1>. HIDE DEF from, S
<1>8. e.pr \in Riders(Q, oid) <=>
        e.pos <= end(oid) /\ \A o \in Trains(Q) : end(o) < end(oid) => end(o) < e.pos
  BY <1>4, <1>5, <1>6, <1>7
<1>. QED BY <1>1, <1>2, <1>8 DEF FirstTrain, Reaches

\* The same train is the one the entry is credited with (coveringGroupOidFor).
LEMMA CoveredByItsFirstTrain ==
  ASSUME NEW Q, IsQueue(Q), NEW e \in Q, ~Unmergeable(e), NEW oid \in Trains(Q)
  PROVE  oid \in Covering(Q, e) <=> FirstTrain(Q, oid, e)
<1>. DEFINE end(o) == TrainEnd(Q, o)
<1>1. \A o \in Trains(Q) : end(o) \in Nat \ {0}
  BY EndOfTrain
<1>2. e.pos \in Nat \ {0}
  BY DEF IsQueue
<1>3. CASE ~Building(e)
  BY <1>3 DEF Covering, FirstTrain, Reaches
<1>4. CASE Building(e)
  <2>1. Covering(Q, e) = {e.oid} /\ e.oid \in Trains(Q)
    BY <1>4 DEF Covering, Trains
  <2>2. e.pos <= end(e.oid)
    BY <2>1, <1>4, EndOfTrain
  <2>3. ASSUME NEW o \in Trains(Q), e.pos <= end(o), end(o) < end(e.oid) PROVE FALSE
    <3>1. PICK b \in Q : Building(b) /\ b.oid = o /\ b.pos = end(o)
      BY EndOfTrain
    <3>2. PICK d \in Q : Building(d) /\ d.oid = e.oid /\ d.pos = end(e.oid)
      BY <2>1, EndOfTrain
    <3>3. CASE e.pos = b.pos
      <4>1. b = e
        BY <3>3 DEF IsQueue
      <4>. QED BY <4>1, <3>1, <2>3, <1>1
    <3>4. CASE e.pos # b.pos
      <4>1. e.pos < b.pos /\ b.pos < d.pos
        BY <3>1, <3>2, <3>4, <2>3, <1>1, <1>2, <2>1
      <4>2. b.oid = e.oid
        BY <4>1, <3>1, <3>2, <1>4 DEF IsQueue
      <4>. QED BY <4>2, <3>1, <2>3, <1>1
    <3>. QED BY <3>3, <3>4
  <2>4. FirstTrain(Q, e.oid, e)
    BY <2>1, <2>2, <2>3, <1>1 DEF FirstTrain, Reaches
  <2>5. FirstTrain(Q, oid, e) => end(oid) = end(e.oid)
    BY <2>4, <2>1, <1>1 DEF FirstTrain
  <2>6. FirstTrain(Q, oid, e) => oid = e.oid
    BY <2>5, <2>1, SameEndSameTrain
  <2>. QED BY <2>1, <2>4, <2>6
<1>. QED BY <1>3, <1>4

\* The entries that wait are those behind every train.
LEMMA WaitsBehindAll ==
  ASSUME NEW Q, IsQueue(Q), NEW e \in Q, ~Unmergeable(e)
  PROVE  e.pr \in WaitingIn(Q) <=> \A o \in Trains(Q) : TrainEnd(Q, o) < e.pos
<1>. DEFINE S == {TrainEnd(Q, o) : o \in Trains(Q)}
            last == Maximum(S, 0)
<1>1. PICK n \in Nat : \A d \in Q : d.pos \in 1 .. n
  BY DEF IsQueue
<1>2. S \subseteq Nat /\ \A x \in S : x <= n
  BY <1>1, EndOfTrain
<1>3. e.pr \in WaitingIn(Q) <=> e.pos > last
  <2>1. \A d \in Q : d.pr = e.pr => d = e
    BY DEF IsQueue
  <2>2. e.pr \in WaitingIn(Q) <=> \E d \in Q : d.pr = e.pr /\ ~Unmergeable(d) /\ d.pos > last
    BY DEF WaitingIn
  <2>. HIDE DEF last
  <2>. QED BY <2>1, <2>2
<1>4. e.pos > last <=> \A x \in S : x < e.pos
  <2>. HIDE DEF S
  <2>1. CASE S = {}
    BY <2>1, <1>1 DEF Maximum
  <2>2. CASE S # {}
    <3>1. Max(S) \in S /\ \A x \in S : x <= Max(S)
      BY <2>2, <1>2, HasMax
    <3>2. last = Max(S)
      BY <2>2 DEF Maximum
    <3>3. e.pos \in Nat
      BY <1>1
    <3>4. PICK m \in S : m = Max(S)
      BY <3>1
    <3>5. m \in Nat /\ last = m /\ \A x \in S : x \in Nat /\ x <= m
      BY <3>1, <3>2, <3>4, <1>2
    <3>. HIDE DEF last
    <3>. QED BY <3>3, <3>5
  <2>. QED BY <2>1, <2>2
<1>5. (\A x \in S : x < e.pos) <=> \A o \in Trains(Q) : TrainEnd(Q, o) < e.pos
  OBVIOUS
<1>. HIDE DEF last, S
<1>. QED BY <1>3, <1>4, <1>5

\* Of the trains that reach an entry one is the first.
LEMMA SomeTrainIsFirst ==
  ASSUME NEW Q, IsQueue(Q), NEW e \in Q, NEW o \in Trains(Q), e.pos <= TrainEnd(Q, o)
  PROVE  \E oid \in Trains(Q) : FirstTrain(Q, oid, e)
<1>. DEFINE S == {TrainEnd(Q, t) : t \in {t \in Trains(Q) : e.pos <= TrainEnd(Q, t)}}
<1>1. S \subseteq Nat /\ S # {}
  BY EndOfTrain
<1>2. Min(S) \in S /\ \A x \in S : Min(S) <= x
  <2>. HIDE DEF S
  <2>. QED BY <1>1, HasMin
<1>3. PICK oid \in Trains(Q) : e.pos <= TrainEnd(Q, oid) /\ Min(S) = TrainEnd(Q, oid)
  BY <1>2
<1>. QED BY <1>2, <1>3 DEF FirstTrain, Reaches

\* An entry rides the train it is credited with, or waits.
LEMMA RidesOrWaits ==
  ASSUME NEW Q, IsQueue(Q), NEW e \in Q, ~Unmergeable(e)
  PROVE  /\ {oid \in Trains(Q) : e.pr \in Riders(Q, oid)} = Covering(Q, e)
         /\ e.pr \in WaitingIn(Q) <=> Covering(Q, e) = {}
<1>. DEFINE end(o) == TrainEnd(Q, o)
<1>1. \A o \in Trains(Q) : end(o) \in Nat \ {0}
  BY EndOfTrain
<1>2. e.pos \in Nat \ {0}
  BY DEF IsQueue
<1>3. \A oid \in Trains(Q) : e.pr \in Riders(Q, oid) <=> oid \in Covering(Q, e)
  BY RidesItsFirstTrain, CoveredByItsFirstTrain
<1>4. Covering(Q, e) \subseteq Trains(Q)
  <2>1. CASE Building(e)
    BY <2>1 DEF Covering, Trains
  <2>2. CASE ~Building(e)
    BY <2>2 DEF Covering
  <2>. QED BY <2>1, <2>2
<1>5. e.pr \in WaitingIn(Q) <=> \A o \in Trains(Q) : ~ (e.pos <= end(o))
  BY <1>1, <1>2, WaitsBehindAll
<1>6. ASSUME NEW o \in Trains(Q), e.pos <= end(o) PROVE Covering(Q, e) # {}
  BY <1>6, SomeTrainIsFirst, CoveredByItsFirstTrain
<1>7. ASSUME NEW o \in Covering(Q, e) PROVE e.pos <= end(o)
  BY <1>4, CoveredByItsFirstTrain DEF FirstTrain, Reaches
<1>. QED BY <1>3, <1>4, <1>5, <1>6, <1>7
\* More entries ahead never need fewer trains.
LEMMA TrainsGrow ==
  ASSUME NEW x \in Nat, NEW y \in Nat, x <= y, NEW b \in Nat \ {0}
  PROVE  TrainsNeeded(x, b) \in Nat /\ TrainsNeeded(y, b) \in Nat /\ TrainsNeeded(x, b) <= TrainsNeeded(y, b)
<1>1. x + 1 + b - 1 = x + b /\ y + 1 + b - 1 = y + b
  OBVIOUS
<1>2. TrainsNeeded(x, b) = (x + b) \div b /\ TrainsNeeded(y, b) = (y + b) \div b
  BY <1>1 DEF TrainsNeeded, CeilDiv
<1>3. x + b \in Nat /\ y + b \in Nat /\ x + b <= y + b
  OBVIOUS
<1>. QED BY <1>2, <1>3, DivGrows

\* Clamped to no less than nothing, a number stays one.
LEMMA AtLeastNothing ==
  ASSUME NEW a \in Int
  PROVE  Max({a, 0}) \in Int
<1>1. Max({a, 0}) \in {a, 0}
  BY LargerOfTwo
<1>. QED BY <1>1

\* Clamped to no less than one as well.
LEMMA AtLeastOne ==
  ASSUME NEW b \in Nat \ {0}
  PROVE  Max({1, b}) \in Nat \ {0}
<1>1. Max({1, b}) \in {1, b}
  BY LargerOfTwo
<1>. QED BY <1>1

\* A queue is finite.
LEMMA QueueIsFinite ==
  ASSUME NEW Q, IsQueue(Q)
  PROVE  IsFiniteSet(Q)
<1>1. PICK n \in Nat : \A e \in Q : e.pos \in 1 .. n
  BY DEF IsQueue
<1>. DEFINE f == [e \in Q |-> e.pos]
<1>2. f \in [Q -> 1 .. n]
  BY <1>1
<1>3. \A d, e \in Q : f[d] = f[e] => d = e
  BY DEF IsQueue
<1>4. f \in Injection(Q, 1 .. n)
  BY <1>2, <1>3 DEF Injection, IsInjective
<1>5. IsFiniteSet(1 .. n)
  BY <1>1, FS_Interval
<1>. QED BY <1>4, <1>5, FS_Injection

\* Who waits further back has the same trains ahead, and every entry the other has.
LEMMA AheadOfTheLine ==
  ASSUME NEW Q, IsQueue(Q), NEW e \in Q, NEW d \in Q, e.pos < d.pos,
         ~Unmergeable(e), e.pr \in WaitingIn(Q)
  PROVE  /\ {b \in Ahead(Q, d) : Building(b)} = {b \in Ahead(Q, e) : Building(b)}
         /\ Ahead(Q, e) \subseteq Ahead(Q, d)
<1>1. \A b \in Q : b.pos \in Nat
  BY DEF IsQueue
<1>2. ASSUME NEW b \in Q, Building(b) PROVE b.pos < e.pos
  <2>1. b.oid \in Trains(Q)
    BY <1>2 DEF Trains
  <2>2. b.pos <= TrainEnd(Q, b.oid) /\ TrainEnd(Q, b.oid) \in Nat
    BY <1>2, <2>1, EndOfTrain
  <2>3. TrainEnd(Q, b.oid) < e.pos
    BY <2>1, WaitsBehindAll
  <2>. QED BY <2>2, <2>3, <1>1
<1>. QED BY <1>1, <1>2 DEF Ahead

\* For any observed durations, whoever waits further back is promised no earlier merge
\* (simulateMergeEta).
LEMMA EtaGrowsAlongTheLine ==
  ASSUME NEW Q, IsQueue(Q), NEW e \in Q, NEW d \in Q, e.pos < d.pos,
         ~Unmergeable(e), e.pr \in WaitingIn(Q), e.state = "QUEUED",
         ~Unmergeable(d), d.pr \in WaitingIn(Q), d.state = "QUEUED",
         NEW groups, \A o \in DOMAIN groups : groups[o].eta \in Int,
         NEW median \in Nat, NEW batch \in Nat \ {0}, NEW samples, samples # <<>>,
         LowerMedian(samples) \in Nat, Ninetieth(samples) \in Nat, NEW ejects \in BOOLEAN
  PROVE  /\ MergeEta(Q, e, groups, median, batch, samples, ejects).p50
              <= MergeEta(Q, d, groups, median, batch, samples, ejects).p50
         /\ MergeEta(Q, e, groups, median, batch, samples, ejects).p90
              <= MergeEta(Q, d, groups, median, batch, samples, ejects).p90
<1>. DEFINE building(x) == {b \in Ahead(Q, x) : Building(b)}
            B == building(e)
            run == Maximum({median}, 0)
            current == IF B = {} THEN 0 ELSE TrainEta(Deepest(B), groups, run)
            wait == Max({current, 0})
            size == Max({1, batch})
            line(x) == Cardinality(Ahead(Q, x)) - Cardinality(B)
            trains(x) == TrainsNeeded(line(x), size)
            extra == IF ejects THEN 1 ELSE 0
            p50 == LowerMedian(samples)
            p90 == Ninetieth(samples)
<1>1. building(d) = B /\ Ahead(Q, e) \subseteq Ahead(Q, d)
  BY AheadOfTheLine
<1>2. Covering(Q, e) = {} /\ Covering(Q, d) = {}
  BY RidesOrWaits
<1>3. \A x \in {e, d} : building(x) = B
  BY <1>1
<1>4. ASSUME NEW x \in {e, d}
      PROVE  /\ MergeEta(Q, x, groups, median, batch, samples, ejects).p50 = wait + trains(x) * p50
             /\ MergeEta(Q, x, groups, median, batch, samples, ejects).p90 = wait + (trains(x) + extra) * p90
  <2>1. x.state = "QUEUED" /\ Covering(Q, x) = {}
    BY <1>2
  <2>2. building(x) = B
    BY <1>3
  <2>. HIDE DEF B
  <2>. QED BY <2>1, <2>2 DEF MergeEta
<1>5. wait \in Int
  <2>1. run \in Int
    <3>1. Max({median}) = median
      <4>1. \E x \in {median} : \A y \in {median} : x >= y
        OBVIOUS
      <4>. QED BY <4>1 DEF Max
    <3>. QED BY <3>1 DEF Maximum
  <2>2. current \in Int
    <3>. HIDE DEF run, B
    <3>. QED BY <2>1 DEF TrainEta
  <2>. HIDE DEF current
  <2>. QED BY <2>2, AtLeastNothing
<1>6. size \in Nat \ {0}
  BY AtLeastOne
<1>7. line(e) \in Nat /\ line(d) \in Nat /\ line(e) <= line(d)
  <2>1. IsFiniteSet(Ahead(Q, d)) /\ IsFiniteSet(Ahead(Q, e)) /\ IsFiniteSet(B)
    <3>1. Ahead(Q, d) \subseteq Q /\ Ahead(Q, e) \subseteq Q /\ B \subseteq Q
      BY DEF Ahead
    <3>. HIDE DEF B
    <3>. QED BY <3>1, QueueIsFinite, FS_Subset
  <2>2. /\ Cardinality(Ahead(Q, e)) \in Nat /\ Cardinality(Ahead(Q, d)) \in Nat /\ Cardinality(B) \in Nat
        /\ Cardinality(B) <= Cardinality(Ahead(Q, e))
        /\ Cardinality(Ahead(Q, e)) <= Cardinality(Ahead(Q, d))
    <3>1. B \subseteq Ahead(Q, e)
      OBVIOUS
    <3>. HIDE DEF B
    <3>. QED BY <2>1, <3>1, <1>1, FS_Subset, FS_CardinalityType
  <2>. HIDE DEF B
  <2>. QED BY <2>2
<1>. HIDE DEF line, size, wait
<1>8. trains(e) \in Nat /\ trains(d) \in Nat /\ trains(e) <= trains(d)
  BY <1>6, <1>7, TrainsGrow
<1>. HIDE DEF trains, p50, p90
<1>9. p50 \in Nat /\ p90 \in Nat /\ extra \in Nat
  BY DEF p50, p90
<1>10. \A a, b, c \in Nat : a <= b => a * c \in Nat /\ b * c \in Nat /\ a * c <= b * c
  <2>. SUFFICES ASSUME NEW a \in Nat, NEW b \in Nat, NEW c \in Nat, a <= b
                PROVE  a * c \in Nat /\ b * c \in Nat /\ a * c <= b * c
    OBVIOUS
  <2>1. (b - a) * c \in Nat
    <3>1. b - a \in Nat
      OBVIOUS
    <3>. QED BY <3>1
  <2>2. b * c = a * c + (b - a) * c
    OBVIOUS
  <2>. QED BY <2>1, <2>2
<1>. HIDE DEF extra
<1>11. wait + trains(e) * p50 <= wait + trains(d) * p50
  BY <1>5, <1>8, <1>9, <1>10
<1>12. trains(e) + extra \in Nat /\ trains(d) + extra \in Nat /\ trains(e) + extra <= trains(d) + extra
  BY <1>8, <1>9
<1>13. wait + (trains(e) + extra) * p90 <= wait + (trains(d) + extra) * p90
  BY <1>5, <1>9, <1>10, <1>12
<1>. QED BY <1>4, <1>11, <1>13

\* In any such queue an entry that can merge rides exactly the train it is credited with or
\* waits in line, and the promises keep the order of the line (buildQueueView,
\* coveringGroupOidFor, simulateMergeEta).
THEOREM QueueIsOrdered ==
  ASSUME IsQueue(input.queue), input.batch \in Nat \ {0},
         \A o \in DOMAIN input.groups : input.groups[o].eta \in Int
  PROVE  QueueOrderIsKept
<1>. DEFINE Q == input.queue
<1>1. \A e \in Q : ~Unmergeable(e) =>
        /\ {oid \in Trains(Q) : e.pr \in Riders(Q, oid)} = Covering(Q, e)
        /\ e.pr \in WaitingIn(Q) <=> {oid \in Trains(Q) : e.pr \in Riders(Q, oid)} = {}
  BY RidesOrWaits
<1>2. Len(TrainDurations) = 3 /\ TrainDurations[2] = 20 /\ TrainDurations[3] = 60 /\ TrainDurations # <<>>
  BY DEF TrainDurations
<1>3. LowerMedian(TrainDurations) = 20
  BY <1>2 DEF LowerMedian
<1>4. Ninetieth(TrainDurations) = 60
  <2>1. Min({3, 3}) = 3
    <3>1. \E x \in {3, 3} : \A y \in {3, 3} : x <= y
      OBVIOUS
    <3>. QED BY <3>1 DEF Min
  <2>2. (9 * 3 + 9) \div 10 = 3
    OBVIOUS
  <2>. QED BY <1>2, <2>1, <2>2 DEF Ninetieth
<1>5. ASSUME NEW e \in Q, NEW d \in Q, ~Unmergeable(e), ~Unmergeable(d),
             e.state = "QUEUED", d.state = "QUEUED", e.pr \in WaitingIn(Q), d.pr \in WaitingIn(Q),
             e.pos < d.pos
      PROVE  /\ MergeEta(Q, e, input.groups, LowerMedian(TrainDurations), input.batch, TrainDurations, FALSE).p50
                  <= MergeEta(Q, d, input.groups, LowerMedian(TrainDurations), input.batch, TrainDurations, FALSE).p50
             /\ MergeEta(Q, e, input.groups, LowerMedian(TrainDurations), input.batch, TrainDurations, FALSE).p90
                  <= MergeEta(Q, d, input.groups, LowerMedian(TrainDurations), input.batch, TrainDurations, FALSE).p90
  <2>1. LowerMedian(TrainDurations) \in Nat /\ Ninetieth(TrainDurations) \in Nat
    BY <1>3, <1>4
  <2>. QED BY <1>2, <1>5, <2>1, EtaGrowsAlongTheLine, Zenon
<1>. QED BY <1>1, <1>5 DEF QueueOrderIsKept

(***************************************************************************)
(* Plans of tier moves.                                                    *)
(***************************************************************************)
\* What the gates of a graph say about the matrix.
LEMMA GatesRunInTheQueue ==
  ASSUME NEW graph, NEW conditional, NEW observed, NEW model,
         model = AssembleDerivedModel(graph, GatingClosure(graph, conditional), observed),
         NEW c \in RequiredStatically(model)
  PROVE  /\ <<c, "queue">> \in DOMAIN model.cells
         /\ model.cells[<<c, "queue">>].runs
         /\ model.cells[<<c, "queue">>].gates
<1>. DEFINE gating == GatingClosure(graph, conditional)
            checks == {n.check : n \in Range(graph.checks)}
            key == <<c, "queue">>
            cell == CellOf(graph, gating, observed, c, "queue")
            hits == {k \in DOMAIN graph.checks : /\ graph.checks[k].check = c
                                                 /\ Tiers["queue"] \in graph.checks[k].events}
<1>1. model.checks = checks
  BY DEF AssembleDerivedModel
<1>2. c \in checks /\ model.meta[c].required
  BY <1>1 DEF RequiredStatically
<1>3. model.meta[c] = MetaOf(graph, gating, c)
  BY <1>2 DEF AssembleDerivedModel
<1>4. c \in DOMAIN gating.gates /\ "merge_group" \in gating.gates[c]
  BY <1>2, <1>3 DEF MetaOf
<1>5. \E n \in Range(graph.checks) : n.check = c /\ "merge_group" \in n.events
  BY <1>4 DEF GatingClosure
<1>6. Tiers["queue"] = "merge_group" /\ "queue" \in DOMAIN Tiers
  BY DEF Tiers
<1>7. hits # {}
  BY <1>5, <1>6 DEF Range
<1>8. key \in checks \X DOMAIN Tiers /\ key[1] = c /\ key[2] = "queue"
  BY <1>2, <1>6
<1>9. DOMAIN model.cells = checks \X DOMAIN Tiers /\ model.cells[key] = cell
  BY <1>8 DEF AssembleDerivedModel
<1>10. cell.runs = (hits # {})
  BY DEF CellOf
<1>11. cell.gates = /\ hits # {} /\ c \in DOMAIN gating.gates
                    /\ Tiers["queue"] \in gating.gates[c]
  BY DEF CellOf
<1>. HIDE DEF hits, gating, cell
<1>. QED BY <1>4, <1>6, <1>7, <1>8, <1>9, <1>10, <1>11

\* Folding moves that take away and add: the last one that touches a key decides.
Touching(s, gone, added, k) == {i \in s : k \in gone[i] \cup added[i]}
Stays(s, base, gone, added, k) ==
  IF Touching(s, gone, added, k) = {} THEN k \in base ELSE k \in added[Max(Touching(s, gone, added, k))]
Remaining(s, base, gone, added) ==
  {k \in base \cup UNION {added[i] : i \in s} : Stays(s, base, gone, added, k)}

\* A key that stays is one the plan knows.
LEMMA StaysIsListed ==
  ASSUME NEW n \in Nat, NEW s, s \subseteq 1 .. n, NEW base, NEW gone, NEW added, NEW k, 
         Stays(s, base, gone, added, k)
  PROVE  k \in Remaining(s, base, gone, added)
<1>. DEFINE T == Touching(s, gone, added, k)
<1>1. T \subseteq s
  BY DEF Touching
<1>2. CASE T = {}
  BY <1>2 DEF Stays, Remaining
<1>3. CASE T # {}
  <2>0. \A x \in s : x \in Nat /\ x <= n
    OBVIOUS
  <2>. HIDE DEF T
  <2>1. T \subseteq Nat /\ \A x \in T : x <= n
    BY <1>1, <2>0
  <2>2. Max(T) \in T
    <3>. HIDE DEF T
    <3>. QED BY <1>3, <2>1, HasMax
  <2>3. k \in added[Max(T)]
    BY <1>3 DEF Stays, T
  <2>. HIDE DEF T
  <2>4. k \in UNION {added[i] : i \in s}
    BY <1>1, <2>2, <2>3
  <2>. QED BY <2>4 DEF Remaining
<1>. QED BY <1>2, <1>3

\* The last move takes away what it removes and adds what it brings.
LEMMA OneMoreMove ==
  ASSUME NEW n \in Nat, NEW s, s \subseteq 1 .. n, s # {}, NEW base, NEW gone, NEW added
  PROVE  /\ Max(s) \in s
         /\ Remaining(s, base, gone, added)
              = (Remaining(s \ {Max(s)}, base, gone, added) \ gone[Max(s)]) \cup added[Max(s)]
<1>. DEFINE m == Max(s)
            less == s \ {m}
<1>0. s \subseteq Nat /\ \A x \in s : x <= n
  OBVIOUS
<1>1. m \in s /\ \A x \in s : x <= m
  BY <1>0, HasMax
<1>. HIDE DEF m
<1>2. \A S : S \subseteq s /\ m \in S => Max(S) = m
  <2>. SUFFICES ASSUME NEW S, S \subseteq s, m \in S PROVE Max(S) = m
    OBVIOUS
  <2>1. S \subseteq Nat /\ S # {} /\ \A x \in S : x <= n
    OBVIOUS
  <2>2. Max(S) \in S /\ \A x \in S : x <= Max(S)
    BY <2>1, HasMax
  <2>3. PICK x \in S : x = Max(S)
    BY <2>2
  <2>4. x <= m /\ m <= x /\ x \in Nat /\ m \in Nat
    BY <1>1, <2>1, <2>2, <2>3
  <2>. QED BY <2>3, <2>4
<1>3. ASSUME NEW k
      PROVE  Stays(s, base, gone, added, k)
               <=> (Stays(less, base, gone, added, k) /\ k \notin gone[m]) \/ k \in added[m]
  <2>. DEFINE T == Touching(s, gone, added, k)
  <2>1. CASE k \in gone[m] \cup added[m]
    <3>1. m \in T /\ T \subseteq s
      BY <2>1, <1>1 DEF Touching
    <3>2. T # {} /\ Max(T) = m
      BY <3>1, <1>2
    <3>3. Stays(s, base, gone, added, k) = (k \in added[m])
      <4>. HIDE DEF T
      <4>. QED BY <3>2 DEF Stays, T
    <3>. QED BY <3>3, <2>1
  <2>2. CASE k \notin gone[m] \cup added[m]
    <3>1. Touching(less, gone, added, k) = T
      BY <2>2 DEF Touching
    <3>2. Stays(s, base, gone, added, k) <=> Stays(less, base, gone, added, k)
      BY <3>1 DEF Stays
    <3>. QED BY <3>2, <2>2
  <2>. QED BY <2>1, <2>2
<1>4. \A k : k \in Remaining(s, base, gone, added) <=> Stays(s, base, gone, added, k)
  BY StaysIsListed DEF Remaining
<1>5. less \subseteq 1 .. n
  OBVIOUS
<1>6. \A k : k \in Remaining(less, base, gone, added) <=> Stays(less, base, gone, added, k)
  <2>. HIDE DEF less
  <2>. QED BY <1>5, StaysIsListed DEF Remaining
<1>7. Remaining(s, base, gone, added) = (Remaining(less, base, gone, added) \ gone[m]) \cup added[m]
  <2>. HIDE DEF less
  <2>1. \A k : k \in (Remaining(less, base, gone, added) \ gone[m]) \cup added[m]
                <=> (Stays(less, base, gone, added, k) /\ k \notin gone[m]) \/ k \in added[m]
    BY <1>6
  <2>2. \A k : k \in Remaining(s, base, gone, added)
                <=> k \in (Remaining(less, base, gone, added) \ gone[m]) \cup added[m]
    BY <1>3, <1>4, <2>1
  <2>. QED BY <2>2
<1>. QED BY <1>1, <1>7 DEF m
\* Without a move everything stays.
LEMMA NothingMoved ==
  ASSUME NEW base, NEW gone, NEW added
  PROVE  Remaining({}, base, gone, added) = base
BY DEF Remaining, Stays, Touching

\* The equation of the fold over the first n moves.
IsFold(g, n, base, gone, added) ==
  \A s \in SUBSET (1 .. n) :
    g[s] = IF s = {} THEN base ELSE (g[s \ {Max(s)}] \ gone[Max(s)]) \cup added[Max(s)]

\* The equation has one solution.
LEMMA FoldIsRemaining ==
  ASSUME NEW n \in Nat, NEW base, NEW gone, NEW added, NEW g, IsFold(g, n, base, gone, added)
  PROVE  \A s \in SUBSET (1 .. n) : g[s] = Remaining(s, base, gone, added)
<1>0. \A s \in SUBSET (1 .. n) : s # {} =>
        /\ Max(s) \in s
        /\ Remaining(s, base, gone, added)
             = (Remaining(s \ {Max(s)}, base, gone, added) \ gone[Max(s)]) \cup added[Max(s)]
  <2>. TAKE s \in SUBSET (1 .. n)
  <2>1. s \subseteq 1 .. n
    OBVIOUS
  <2>. QED BY <2>1, OneMoreMove
<1>. DEFINE bad(k) == \E s \in SUBSET (1 .. n) : Cardinality(s) = k /\ g[s] # Remaining(s, base, gone, added)
            B == {k \in Nat : bad(k)}
<1>1. \A s \in SUBSET (1 .. n) : IsFiniteSet(s) /\ Cardinality(s) \in Nat
  <2>. TAKE s \in SUBSET (1 .. n)
  <2>1. IsFiniteSet(1 .. n) /\ s \subseteq 1 .. n
    BY FS_Interval
  <2>. QED BY <2>1, FS_Subset, FS_CardinalityType
<1>. SUFFICES ASSUME B # {} PROVE FALSE
  BY <1>1
<1>2. PICK k \in B : \A c \in B : k <= c
  <2>1. B \subseteq Nat
    OBVIOUS
  <2>. HIDE DEF B
  <2>. QED BY <2>1, HasMin
<1>3. PICK s \in SUBSET (1 .. n) : Cardinality(s) = k /\ g[s] # Remaining(s, base, gone, added)
  BY <1>2
<1>4. s # {}
  <2>. SUFFICES ASSUME s = {} PROVE FALSE
    OBVIOUS
  <2>1. g[s] = base
    BY DEF IsFold
  <2>. QED BY <2>1, <1>3, NothingMoved
<1>5. /\ Max(s) \in s
      /\ Remaining(s, base, gone, added)
           = (Remaining(s \ {Max(s)}, base, gone, added) \ gone[Max(s)]) \cup added[Max(s)]
  BY <1>0, <1>4
<1>6. s \ {Max(s)} \in SUBSET (1 .. n) /\ Cardinality(s \ {Max(s)}) = k - 1
  BY <1>1, <1>3, <1>5, FS_RemoveElement
<1>7. k - 1 \notin B
  <2>1. k \in Nat
    OBVIOUS
  <2>. HIDE DEF B
  <2>. QED BY <1>2, <2>1
<1>8. k - 1 \in Nat
  BY <1>1, <1>6
<1>9. g[s \ {Max(s)}] = Remaining(s \ {Max(s)}, base, gone, added)
  BY <1>6, <1>7, <1>8
<1>10. g[s] = (g[s \ {Max(s)}] \ gone[Max(s)]) \cup added[Max(s)]
  BY <1>4 DEF IsFold
<1>. QED BY <1>3, <1>5, <1>9, <1>10

\* What a move takes away, and what it adds.
Gone(m)  == {<<m.check, m.from>>}
Added(m) == IF m.to = Nil THEN {} ELSE {<<m.check, m.to>>}
\* Where the checks of a model run.
RunsIn(model) == {k \in DOMAIN model.cells : model.cells[k].runs}

\* A plan leaves a check in a tier when the last move that touches it there says so.
LEMMA PlanIsRemaining ==
  ASSUME NEW model, NEW moves, NEW n \in Nat, DOMAIN moves = 1 .. n
  PROVE  RunsAfterPlan(model, moves)
           = Remaining(1 .. n, RunsIn(model), [i \in 1 .. n |-> Gone(moves[i])], [i \in 1 .. n |-> Added(moves[i])])
<1>. DEFINE base  == RunsIn(model)
            gone  == [i \in 1 .. n |-> Gone(moves[i])]
            added == [i \in 1 .. n |-> Added(moves[i])]
            Step(g, s) == IF s = {} THEN base ELSE (g[s \ {Max(s)}] \ Gone(moves[Max(s)])) \cup Added(moves[Max(s)])
            iter  == CHOOSE g : g = [s \in SUBSET (1 .. n) |-> Step(g, s)]
            h     == [s \in SUBSET (1 .. n) |-> Remaining(s, base, gone, added)]
<1>1. RunsAfterPlan(model, moves) = iter[1 .. n]
  BY DEF RunsAfterPlan, FoldLeft, MapThenFoldSet, Gone, Added, RunsIn
<1>2. \A s \in SUBSET (1 .. n) : s # {} =>
        /\ Max(s) \in s
        /\ gone[Max(s)] = Gone(moves[Max(s)]) /\ added[Max(s)] = Added(moves[Max(s)])
        /\ Remaining(s, base, gone, added)
             = (Remaining(s \ {Max(s)}, base, gone, added) \ gone[Max(s)]) \cup added[Max(s)]
  <2>. SUFFICES ASSUME NEW s \in SUBSET (1 .. n), s # {}
                PROVE  /\ Max(s) \in s
                       /\ gone[Max(s)] = Gone(moves[Max(s)]) /\ added[Max(s)] = Added(moves[Max(s)])
                       /\ Remaining(s, base, gone, added)
                            = (Remaining(s \ {Max(s)}, base, gone, added) \ gone[Max(s)]) \cup added[Max(s)]
    OBVIOUS
  <2>. HIDE DEF base
  <2>1. Max(s) \in 1 .. n
    BY OneMoreMove
  <2>2. gone[Max(s)] = Gone(moves[Max(s)]) /\ added[Max(s)] = Added(moves[Max(s)])
    BY <2>1
  <2>. HIDE DEF gone, added
  <2>. QED BY <2>2, OneMoreMove
<1>. HIDE DEF base, gone, added
<1>3. \A s \in SUBSET (1 .. n) : h[s] = Step(h, s)
  <2>. SUFFICES ASSUME NEW s \in SUBSET (1 .. n) PROVE h[s] = Step(h, s)
    OBVIOUS
  <2>1. CASE s = {}
    BY <2>1, NothingMoved
  <2>2. CASE s # {}
    <3>1. s \ {Max(s)} \in SUBSET (1 .. n)
      OBVIOUS
    <3>2. h[s \ {Max(s)}] = Remaining(s \ {Max(s)}, base, gone, added)
      BY <3>1
    <3>3. h[s] = Remaining(s, base, gone, added)
      OBVIOUS
    <3>. HIDE DEF h
    <3>. QED BY <2>2, <3>2, <3>3, <1>2
  <2>. QED BY <2>1, <2>2
<1>4. h = [s \in SUBSET (1 .. n) |-> Step(h, s)]
  BY <1>3
<1>. HIDE DEF h
<1>5. iter = [s \in SUBSET (1 .. n) |-> Step(iter, s)]
  BY <1>4
<1>. HIDE DEF iter
<1>6. \A s \in SUBSET (1 .. n) : iter[s] = Step(iter, s)
  BY <1>5
<1>7. IsFold(iter, n, base, gone, added)
  BY <1>2, <1>6 DEF IsFold
<1>. HIDE DEF Step
<1>8. \A s \in SUBSET (1 .. n) : iter[s] = Remaining(s, base, gone, added)
  BY <1>7, FoldIsRemaining
<1>9. iter[1 .. n] = Remaining(1 .. n, base, gone, added)
  BY <1>8
<1>. QED BY <1>1, <1>9 DEF base, gone, added

\* A plan: any number of moves, each to a tier or out of the pipeline.
IsPlan(moves) ==
  \E n \in Nat : DOMAIN moves = 1 .. n /\ \A i \in 1 .. n : moves[i].to \in DOMAIN Tiers \cup {Nil}

\* In any pipeline, a plan of any length that the simulation calls legal leaves every required
\* check running somewhere, and in the queue where the live rules agree with the model
\* (simulatePlan, validateTierChange).
THEOREM LegalPlansAreSafe ==
  ASSUME IsPlan(input.moves)
  PROVE  LegalPlansKeepGates
<1>. DEFINE moves == input.moves
            live  == input.live
            model == Model(input.repo, {})
            after == RunsAfterPlan(model, moves)
            base  == RunsIn(model)
            plan  == SimulatePlan(model, moves, live)
<1>1. PICK n \in Nat : DOMAIN moves = 1 .. n /\ \A i \in 1 .. n : moves[i].to \in DOMAIN Tiers \cup {Nil}
  BY DEF IsPlan
<1>. DEFINE gone  == [i \in 1 .. n |-> Gone(moves[i])]
            added == [i \in 1 .. n |-> Added(moves[i])]
<1>2. PICK graph, observed : model = AssembleDerivedModel(graph, GatingClosure(graph, ConditionalJobs), observed)
  BY DEF Model, ComputeProtectionMap
<1>3. \A k \in DOMAIN model.cells : k[2] \in DOMAIN Tiers /\ k = <<k[1], k[2]>>
  <2>1. DOMAIN model.cells = model.checks \X DOMAIN Tiers
    BY <1>2 DEF AssembleDerivedModel
  <2>. HIDE DEF model
  <2>. QED BY <2>1
<1>. HIDE DEF moves, live, model
<1>4. after = Remaining(1 .. n, base, gone, added)
  BY <1>1, PlanIsRemaining
<1>5. plan.legal <=> /\ \A k \in 1 .. n : ValidateTierChange(model, moves[k], live)
                     /\ \A c \in RequiredGateChecks(model, live) : \E key \in after : key[1] = c
  BY <1>1 DEF SimulatePlan, SimulateTierMove
<1>6. \A key \in after : key[2] \in DOMAIN Tiers /\ key = <<key[1], key[2]>>
  <2>. SUFFICES ASSUME NEW key \in after PROVE key[2] \in DOMAIN Tiers /\ key = <<key[1], key[2]>>
    OBVIOUS
  <2>1. key \in base \/ \E i \in 1 .. n : key \in Added(moves[i])
    BY <1>4 DEF Remaining
  <2>2. CASE key \in base
    BY <2>2, <1>3 DEF RunsIn
  <2>3. ASSUME NEW i \in 1 .. n, key \in Added(moves[i])
        PROVE  key[2] \in DOMAIN Tiers /\ key = <<key[1], key[2]>>
    <3>1. moves[i].to # Nil /\ key = <<moves[i].check, moves[i].to>>
      BY <2>3 DEF Added
    <3>. QED BY <3>1, <1>1
  <2>. QED BY <2>1, <2>2, <2>3
<1>. HIDE DEF after
<1>7. ASSUME plan.legal, NEW c \in RequiredGateChecks(model, live)
      PROVE  \E t \in DOMAIN Tiers : <<c, t>> \in after
  BY <1>5, <1>6, <1>7
<1>8. ASSUME plan.legal, ReconcileRuleset(model, TRUE, live).inSync, NEW c \in live
      PROVE  <<c, "queue">> \in after
  <2>. DEFINE key == <<c, "queue">>
              T == Touching(1 .. n, gone, added, key)
  <2>1. c \in RequiredStatically(model)
    BY <1>8 DEF ReconcileRuleset
  <2>2. key \in DOMAIN model.cells /\ model.cells[key].runs /\ model.cells[key].gates
    BY <2>1, <1>2, GatesRunInTheQueue
  <2>3. ASSUME NEW i \in 1 .. n, moves[i].check = c PROVE moves[i].from # "queue"
    <3>1. ValidateTierChange(model, moves[i], live) /\ c \in RequiredGateChecks(model, live)
      BY <1>5, <1>8, <2>1 DEF RequiredGateChecks
    <3>2. Tiers["queue"] = "merge_group"
      BY DEF Tiers
    <3>. QED BY <3>1, <3>2, <2>2, <2>3 DEF ValidateTierChange, HasCell
  <2>4. ASSUME NEW i \in T PROVE key \in added[i]
    <3>1. i \in 1 .. n /\ key \in Gone(moves[i]) \cup Added(moves[i])
      BY <2>4 DEF Touching
    <3>2. key \notin Gone(moves[i])
      BY <2>3, <3>1 DEF Gone
    <3>. QED BY <3>1, <3>2
  <2>5. T # {} => Max(T) \in T
    <3>1. T \subseteq 1 .. n
      BY DEF Touching
    <3>. HIDE DEF T
    <3>. QED BY <3>1, OneMoreMove
  <2>6. Stays(1 .. n, base, gone, added, key)
    <3>1. key \in base
      BY <2>2 DEF RunsIn
    <3>. QED BY <2>4, <2>5, <3>1 DEF Stays
  <2>7. 1 .. n \subseteq 1 .. n
    OBVIOUS
  <2>. HIDE DEF T, key, gone, added, base
  <2>8. key \in Remaining(1 .. n, base, gone, added)
    BY <2>6, <2>7, StaysIsListed
  <2>. QED BY <2>8, <1>4 DEF key
<1>. HIDE DEF plan
<1>. QED BY <1>7, <1>8 DEF LegalPlansKeepGates, model, moves, live, after, plan
=============================================================================
