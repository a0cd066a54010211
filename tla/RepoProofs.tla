------------------------------ MODULE RepoProofs ------------------------------
(***************************************************************************)
(* What the poller and the database hold of a repository.                  *)
(***************************************************************************)
EXTENDS RepoData, FiniteSetTheorems, NaturalsInduction, WellFoundedInduction, TLAPS

(***************************************************************************)
(* Folds.  The three folds that write the database are one recursion over  *)
(* the subsets of a finite set, which takes an element and applies it to   *)
(* the result for the others.                                              *)
(***************************************************************************)
Below == {ss \in Nat \X Nat : ss[1] < ss[2]}

\* The smallest of a set of numbers is one of them.
LEMMA HasMin ==
  ASSUME NEW S, S \subseteq Nat, S # {}
  PROVE  Min(S) \in S /\ \A x \in S : Min(S) <= x
<1>1. IsWellFoundedOn(Below, Nat)
  BY NatLessThanWellFounded DEF OpToRel, Below
<1>2. \E b \in S : \A c \in S : ~ (<<c, b>> \in Below)
  BY <1>1, WFMin
<1>3. \A c, b \in Nat : c < b => <<c, b>> \in Below
  <2>. TAKE c, b \in Nat
  <2>1. <<c, b>>[1] = c /\ <<c, b>>[2] = b /\ <<c, b>> \in Nat \X Nat
    OBVIOUS
  <2>. QED BY <2>1 DEF Below
<1>4. \A b, c \in S : <<c, b>> \notin Below => b <= c
  BY <1>3
<1>. QED BY <1>2, <1>4 DEF Min

\* The largest of a bounded set of numbers is one of them.
LEMMA HasMax ==
  ASSUME NEW S, S \subseteq Nat, S # {}, NEW bound \in Nat, \A x \in S : x <= bound
  PROVE  Max(S) \in S /\ \A x \in S : x <= Max(S)
<1>. DEFINE B == {b \in Nat : \A x \in S : x <= b}
            b == Min(B)
<1>1. B \subseteq Nat /\ B # {}
  OBVIOUS
<1>2. b \in B /\ \A c \in B : b <= c
  BY <1>1, HasMin
<1>3. b \in Nat /\ \A x \in S : x <= b
  BY <1>2
<1>4. b \in S
  <2>. SUFFICES ASSUME b \notin S PROVE FALSE
    OBVIOUS
  <2>0. PICK x \in S : TRUE
    OBVIOUS
  <2>. HIDE DEF b
  <2>1. b - 1 \in Nat /\ \A y \in S : y <= b - 1
    BY <2>0, <1>3
  <2>2. b - 1 \in B
    BY <2>1
  <2>. QED BY <2>2, <1>2, <1>3
<1>. HIDE DEF b
<1>. QED BY <1>3, <1>4 DEF Max

\* What is true of 0 and passes on to the next number is true of all.
LEMMA Counting ==
  ASSUME NEW good, good \subseteq Nat, 0 \in good, \A k \in good : k + 1 \in good
  PROVE  good = Nat
<1>. DEFINE bad == Nat \ good
<1>. SUFFICES ASSUME bad # {} PROVE FALSE
  OBVIOUS
<1>1. Min(bad) \in bad /\ \A k \in bad : Min(bad) <= k
  BY HasMin
<1>. DEFINE m == Min(bad)
<1>. HIDE DEF m
<1>2. m \in bad /\ \A k \in bad : m <= k
  BY <1>1 DEF m
<1>3. m \in Nat /\ m # 0
  BY <1>2
<1>4. m - 1 \in Nat /\ m - 1 \notin bad
  BY <1>2, <1>3
<1>. QED BY <1>2, <1>3, <1>4

\* What one element of a fold does: a pool that was learned, a scheduled run that
\* was recorded, a pair of the aliases.
Does(kind, already, event, now, x, acc) ==
  IF kind = "pool" THEN RecordObservedPool(acc, x.name[1], event, x.pool, x.hosted, now)
  ELSE IF kind = "run" THEN RecordScheduledRun(acc, x)
  ELSE IF [old |-> x[1], new |-> x[2]] \in already THEN acc ELSE FoldOrFail(acc, x)

\* What the three folds do with an element.
LEMMA DoesPool ==
  ASSUME NEW already, NEW event, NEW now, NEW x, NEW acc
  PROVE  Does("pool", already, event, now, x, acc) = RecordObservedPool(acc, x.name[1], event, x.pool, x.hosted, now)
BY Zenon DEF Does
LEMMA DoesRun ==
  ASSUME NEW already, NEW event, NEW now, NEW x, NEW acc
  PROVE  Does("run", already, event, now, x, acc) = RecordScheduledRun(acc, x)
BY Zenon DEF Does
LEMMA DoesAlias ==
  ASSUME NEW already, NEW event, NEW now, NEW x, NEW acc
  PROVE  Does("alias", already, event, now, x, acc)
           = IF [old |-> x[1], new |-> x[2]] \in already THEN acc ELSE FoldOrFail(acc, x)
BY Zenon DEF Does

\* The recursion: element x of a set s stands for of[x], pick[s] is taken first.
Unfolds(g, s, kind, already, event, now, base, of, pick) ==
  IF s = {} THEN base ELSE Does(kind, already, event, now, of[pick[s]], g[s \ {pick[s]}])
Solves(g, S, kind, already, event, now, base, of, pick) ==
  g = [s \in SUBSET S |-> Unfolds(g, s, kind, already, event, now, base, of, pick)]
Picks(pick, S) == \A s \in SUBSET S : s # {} => pick[s] \in s

\* The fold that CHOOSE names exists, for every subset of a finite set.
LEMMA FoldExists ==
  ASSUME NEW S, IsFiniteSet(S), NEW pick, Picks(pick, S),
         NEW kind, NEW already, NEW event, NEW now, NEW base, NEW of
  PROVE  \E g : Solves(g, S, kind, already, event, now, base, of, pick)
<1>. DEFINE F(g, s) == Unfolds(g, s, kind, already, event, now, base, of, pick)
            Small(k) == {s \in SUBSET S : Cardinality(s) <= k}
            good == {k \in Nat : \E g : g = [s \in Small(k) |-> F(g, s)]}
<1>1. \A s \in SUBSET S : /\ Cardinality(s) \in Nat /\ Cardinality(s) <= Cardinality(S)
                          /\ s = {} <=> Cardinality(s) = 0
  BY FS_Subset, FS_CardinalityType, FS_EmptySet
<1>2. \A s \in SUBSET S : s # {} => s \ {pick[s]} \in SUBSET S
                                    /\ Cardinality(s \ {pick[s]}) = Cardinality(s) - 1
  BY FS_Subset, FS_RemoveElement DEF Picks
<1>3. 0 \in good
  <2>. DEFINE g == [s \in Small(0) |-> base]
  <2>1. \A s \in Small(0) : s = {}
    BY <1>1
  <2>2. \A s \in Small(0) : F(g, s) = base
    BY <2>1 DEF Unfolds
  <2>3. g = [s \in Small(0) |-> F(g, s)]
    BY <2>2
  <2>. HIDE DEF g
  <2>. QED BY <2>3
<1>4. ASSUME NEW k \in good PROVE k + 1 \in good
  <2>1. PICK g : g = [s \in Small(k) |-> F(g, s)]
    OBVIOUS
  <2>. DEFINE h == [s \in Small(k + 1) |-> F(g, s)]
  <2>2. k \in Nat
    OBVIOUS
  <2>3. \A s \in Small(k) : s \in Small(k + 1)
    BY <1>1, <2>2
  <2>4. \A s \in Small(k) : h[s] = g[s]
    <3>. HIDE DEF F, Small
    <3>1. \A s \in Small(k) : g[s] = F(g, s)
      BY <2>1
    <3>. QED BY <2>3, <3>1
  <2>5. ASSUME NEW s \in Small(k + 1) PROVE F(h, s) = F(g, s)
    <3>1. CASE s = {}
      BY <3>1 DEF Unfolds
    <3>2. CASE s # {}
      <4>1. s \ {pick[s]} \in Small(k)
        BY <3>2, <1>1, <1>2, <2>2
      <4>2. h[s \ {pick[s]}] = g[s \ {pick[s]}]
        BY <4>1, <2>4
      <4>. HIDE DEF h
      <4>. QED BY <4>2 DEF Unfolds
    <3>. QED BY <3>1, <3>2
  <2>6. h = [s \in Small(k + 1) |-> F(h, s)]
    <3>1. \A s \in Small(k + 1) : h[s] = F(h, s)
      BY <2>5
    <3>. HIDE DEF F
    <3>. QED BY <3>1
  <2>. HIDE DEF h, F, Small
  <2>. QED BY <2>2, <2>6
<1>5. good = Nat
  <2>1. good \subseteq Nat
    OBVIOUS
  <2>. HIDE DEF good
  <2>. QED BY <1>3, <1>4, <2>1, Counting
<1>6. Small(Cardinality(S)) = SUBSET S
  BY <1>1
<1>7. Cardinality(S) \in good
  <2>1. Cardinality(S) \in Nat
    BY FS_CardinalityType
  <2>. QED BY <2>1, <1>5
<1>. HIDE DEF Small, F
<1>8. \E g : g = [s \in SUBSET S |-> F(g, s)]
  BY <1>6, <1>7
<1>. QED BY <1>8 DEF F, Solves

\* What holds of no element, and of a set when it holds without its next element, holds of all.
LEMMA FoldInduction ==
  ASSUME NEW S, IsFiniteSet(S), NEW pick, Picks(pick, S), NEW good, {} \in good,
         \A s \in SUBSET S : s # {} /\ s \ {pick[s]} \in good => s \in good
  PROVE  \A s \in SUBSET S : s \in good
<1>. DEFINE upTo == {k \in Nat : \A s \in SUBSET S : Cardinality(s) = k => s \in good}
<1>1. \A s \in SUBSET S : /\ Cardinality(s) \in Nat
                          /\ s = {} <=> Cardinality(s) = 0
  BY FS_Subset, FS_CardinalityType, FS_EmptySet
<1>2. \A s \in SUBSET S : s # {} => s \ {pick[s]} \in SUBSET S
                                    /\ Cardinality(s \ {pick[s]}) = Cardinality(s) - 1
  BY FS_Subset, FS_RemoveElement DEF Picks
<1>3. 0 \in upTo
  BY <1>1
<1>4. ASSUME NEW k \in upTo PROVE k + 1 \in upTo
  <2>. SUFFICES ASSUME NEW s \in SUBSET S, Cardinality(s) = k + 1 PROVE s \in good
    OBVIOUS
  <2>1. s # {} /\ Cardinality(s \ {pick[s]}) = k
    BY <1>1, <1>2
  <2>. QED BY <2>1, <1>2
<1>5. upTo = Nat
  <2>1. upTo \subseteq Nat
    OBVIOUS
  <2>. HIDE DEF upTo
  <2>. QED BY <1>3, <1>4, <2>1, Counting
<1>. QED BY <1>1, <1>5

(***************************************************************************)
(* The database.  What a statement writes, and what it leaves alone.       *)
(***************************************************************************)
Tables == DOMAIN EmptyDb
\* after is before, but for some of its tables.
Touches(before, after, some) ==
  /\ DOMAIN after = DOMAIN before
  /\ \A t \in DOMAIN before \ some : after[t] = before[t]

\* Two statements, and one that upserts or inserts.
LEMMA TouchesTwice ==
  ASSUME NEW a, NEW b, NEW c, NEW some, Touches(a, b, some), Touches(b, c, some)
  PROVE  Touches(a, c, some)
BY DEF Touches

LEMMA UpsertTouches ==
  ASSUME NEW db, NEW t \in DOMAIN db, NEW row
  PROVE  /\ Touches(db, Upsert(db, t, row), {t})
         /\ Upsert(db, t, row)[t] = (db[t] \ Clashes(db, t, row)) \cup {row}
BY DEF Touches, Upsert

LEMMA InsertTouches ==
  ASSUME NEW db, NEW t \in DOMAIN db, NEW row
  PROVE  /\ Touches(db, InsertOrIgnore(db, t, row), {t})
         /\ InsertOrIgnore(db, t, row)[t] \in {db[t], db[t] \cup {row}}
         /\ Clashes(db, t, row) # {} => InsertOrIgnore(db, t, row) = db
BY DEF Touches, InsertOrIgnore

\* The element FoldSet takes next.
Some(s) == CHOOSE x \in s : TRUE

\* Pools that are learned are rows of their table, and nothing else.
PoolRow(r) == {"name", "event"} \subseteq DOMAIN r
LEMMA PoolsAreRecorded ==
  ASSUME NEW db, DOMAIN db = Tables, NEW some, IsFiniteSet(some), NEW event, NEW now,
         \A r \in db.pools : PoolRow(r)
  PROVE  LET after == RecordPools(db, event, some, now)
         IN Touches(db, after, {"pools"}) /\ \A r \in after.pools : PoolRow(r)
<1>. DEFINE pick == [s \in SUBSET some |-> Some(s)]
            of == [x \in some |-> x]
            Step(g, s) == IF s = {} THEN db
                          ELSE RecordObservedPool(g[s \ {Some(s)}], Some(s).name[1], event,
                                                  Some(s).pool, Some(s).hosted, now)
            iter == CHOOSE g : g = [s \in SUBSET some |-> Step(g, s)]
            F(g, s) == Unfolds(g, s, "pool", {}, event, now, db, of, pick)
<1>0. \A s \in SUBSET some : s # {} => pick[s] = Some(s) /\ pick[s] \in s /\ of[pick[s]] = Some(s)
  <2>1. \A s \in SUBSET some : s # {} => Some(s) \in s
    BY DEF Some
  <2>. QED BY <2>1
<1>1. Picks(pick, some)
  BY <1>0 DEF Picks
<1>. HIDE DEF pick, of
<1>2. PICK g : Solves(g, some, "pool", {}, event, now, db, of, pick)
  BY <1>1, FoldExists
<1>3. \A h : \A s \in SUBSET some : F(h, s) = Step(h, s)
  <2>. TAKE h
  <2>. TAKE s \in SUBSET some
  <2>1. CASE s = {}
    BY <2>1 DEF Unfolds
  <2>2. CASE s # {}
    <3>1. F(h, s) = Does("pool", {}, event, now, Some(s), h[s \ {Some(s)}])
      BY <2>2, <1>0 DEF Unfolds
    <3>. QED BY <2>2, <3>1, DoesPool
  <2>. QED BY <2>1, <2>2
<1>. HIDE DEF F
<1>4. g = [s \in SUBSET some |-> Step(g, s)]
  <2>1. \A s \in SUBSET some : F(g, s) = Step(g, s)
    BY <1>3
  <2>2. g = [s \in SUBSET some |-> F(g, s)]
    BY <1>2 DEF Solves, F
  <2>. HIDE DEF Step
  <2>. QED BY <2>1, <2>2
<1>5. iter = [s \in SUBSET some |-> Step(iter, s)]
  <2>. HIDE DEF Step
  <2>. QED BY <1>4
<1>. HIDE DEF iter
<1>6. \A s \in SUBSET some : iter[s] = F(iter, s)
  <2>. HIDE DEF Step
  <2>. QED BY <1>3, <1>5
<1>. DEFINE good == {s \in SUBSET some : /\ Touches(db, iter[s], {"pools"})
                                       /\ \A r \in iter[s].pools : PoolRow(r)}
<1>7. {} \in good
  <2>1. iter[{}] = db
    BY <1>6 DEF F, Unfolds
  <2>. QED BY <2>1 DEF Touches
<1>8. ASSUME NEW s \in SUBSET some, s # {}, s \ {pick[s]} \in good PROVE s \in good
  <2>. DEFINE less == iter[s \ {pick[s]}]
              x == of[pick[s]]
  <2>1. iter[s] = RecordObservedPool(less, x.name[1], event, x.pool, x.hosted, now)
    <3>1. iter[s] = Does("pool", {}, event, now, x, less)
      BY <1>6, <1>8 DEF F, Unfolds
    <3>. HIDE DEF less, x
    <3>. QED BY <3>1, DoesPool
  <2>2. Touches(db, less, {"pools"}) /\ \A r \in less.pools : PoolRow(r)
    BY <1>8
  <2>3. "pools" \in DOMAIN less
    BY <2>2 DEF Touches, Tables, EmptyDb
  <2>. HIDE DEF less, x
  <2>4. /\ Touches(less, iter[s], {"pools"})
        /\ \E row : PoolRow(row) /\ iter[s].pools = (less.pools \ Clashes(less, "pools", row)) \cup {row}
    <3>. DEFINE row == [name |-> x.name[1], event |-> event, pool |-> x.pool, hosted |-> x.hosted, seen |-> now]
    <3>1. iter[s] = Upsert(less, "pools", row) /\ PoolRow(row)
      BY <2>1 DEF RecordObservedPool, PoolRow
    <3>. HIDE DEF row
    <3>2. /\ Touches(less, Upsert(less, "pools", row), {"pools"})
          /\ Upsert(less, "pools", row).pools = (less.pools \ Clashes(less, "pools", row)) \cup {row}
      BY <2>3, UpsertTouches
    <3>. QED BY <3>1, <3>2
  <2>. QED BY <2>2, <2>4, TouchesTwice
<1>9. some \in good
  <2>. HIDE DEF good, pick
  <2>. QED BY <1>1, <1>7, <1>8, FoldInduction
<1>10. RecordPools(db, event, some, now) = iter[some]
  BY DEF RecordPools, FoldSet, MapThenFoldSet, iter, Some
<1>. QED BY <1>9, <1>10

\* So are scheduled runs.
LEMMA RunsAreRecorded ==
  ASSUME NEW db, DOMAIN db = Tables, NEW some, IsFiniteSet(some)
  PROVE  Touches(db, RecordScheduledRuns(db, some), {"scheduled"})
<1>. DEFINE pick == [s \in SUBSET some |-> Some(s)]
            of == [x \in some |-> x]
            Step(g, s) == IF s = {} THEN db
                          ELSE RecordScheduledRun(g[s \ {Some(s)}], Some(s))
            iter == CHOOSE g : g = [s \in SUBSET some |-> Step(g, s)]
            F(g, s) == Unfolds(g, s, "run", {}, 0, 0, db, of, pick)
<1>0. \A s \in SUBSET some : s # {} => pick[s] = Some(s) /\ pick[s] \in s /\ of[pick[s]] = Some(s)
  <2>1. \A s \in SUBSET some : s # {} => Some(s) \in s
    BY DEF Some
  <2>. QED BY <2>1
<1>1. Picks(pick, some)
  BY <1>0 DEF Picks
<1>. HIDE DEF pick, of
<1>2. PICK g : Solves(g, some, "run", {}, 0, 0, db, of, pick)
  BY <1>1, FoldExists
<1>3. \A h : \A s \in SUBSET some : F(h, s) = Step(h, s)
  <2>. TAKE h
  <2>. TAKE s \in SUBSET some
  <2>1. CASE s = {}
    BY <2>1 DEF Unfolds
  <2>2. CASE s # {}
    <3>1. F(h, s) = Does("run", {}, 0, 0, Some(s), h[s \ {Some(s)}])
      BY <2>2, <1>0 DEF Unfolds
    <3>. QED BY <2>2, <3>1, DoesRun
  <2>. QED BY <2>1, <2>2
<1>. HIDE DEF F
<1>4. g = [s \in SUBSET some |-> Step(g, s)]
  <2>1. \A s \in SUBSET some : F(g, s) = Step(g, s)
    BY <1>3
  <2>2. g = [s \in SUBSET some |-> F(g, s)]
    BY <1>2 DEF Solves, F
  <2>. HIDE DEF Step
  <2>. QED BY <2>1, <2>2
<1>5. iter = [s \in SUBSET some |-> Step(iter, s)]
  <2>. HIDE DEF Step
  <2>. QED BY <1>4
<1>. HIDE DEF iter
<1>6. \A s \in SUBSET some : iter[s] = F(iter, s)
  <2>. HIDE DEF Step
  <2>. QED BY <1>3, <1>5
<1>. DEFINE good == {s \in SUBSET some : Touches(db, iter[s], {"scheduled"})}
<1>7. {} \in good
  <2>1. iter[{}] = db
    BY <1>6 DEF F, Unfolds
  <2>. QED BY <2>1 DEF Touches
<1>8. ASSUME NEW s \in SUBSET some, s # {}, s \ {pick[s]} \in good PROVE s \in good
  <2>. DEFINE less == iter[s \ {pick[s]}]
              x == of[pick[s]]
  <2>1. iter[s] = RecordScheduledRun(less, x)
    <3>1. iter[s] = Does("run", {}, 0, 0, x, less)
      BY <1>6, <1>8 DEF F, Unfolds
    <3>. HIDE DEF less, x
    <3>. QED BY <3>1, DoesRun
  <2>2. Touches(db, less, {"scheduled"})
    BY <1>8
  <2>3. "scheduled" \in DOMAIN less
    BY <2>2 DEF Touches, Tables, EmptyDb
  <2>. HIDE DEF less, x
  <2>4. Touches(less, iter[s], {"scheduled"})
    <3>1. iter[s] = Upsert(less, "scheduled", x)
      BY <2>1 DEF RecordScheduledRun
    <3>2. Touches(less, Upsert(less, "scheduled", x), {"scheduled"})
      BY <2>3, UpsertTouches
    <3>. QED BY <3>1, <3>2
  <2>. QED BY <2>2, <2>4, TouchesTwice
<1>9. some \in good
  <2>. HIDE DEF good, pick
  <2>. QED BY <1>1, <1>7, <1>8, FoldInduction
<1>10. RecordScheduledRuns(db, some) = iter[some]
  BY DEF RecordScheduledRuns, FoldSet, MapThenFoldSet, iter, Some
<1>. QED BY <1>9, <1>10

(***************************************************************************)
(* Folding the old name of a check into the new one.                       *)
(***************************************************************************)
DurationRow(r) ==
  /\ r = [name |-> r.name, event |-> r.event, secs |-> r.secs, at |-> r.at, conclusion |-> r.conclusion,
          sha |-> r.sha, attempt |-> r.attempt, started |-> r.started, run |-> r.run]
  /\ r.at \in Nat
WaitRow(r) == "name" \in DOMAIN r
FailureRow(r) == {"name", "sha"} \subseteq DOMAIN r
SameRun(r, q) == r.name = q.name /\ r.event = q.event /\ r.at = q.at
Unique(rows) == \A r, q \in rows : SameRun(r, q) => r = q
\* The rows are rows of their tables, and a run of a check is recorded once.
HistInv(db) ==
  /\ DOMAIN db = Tables
  /\ IsFiniteSet(db.durations) /\ (\A r \in db.durations : DurationRow(r)) /\ Unique(db.durations)
  /\ \A r \in db.runnerWaits : WaitRow(r)
  /\ \A r \in db.pools : PoolRow(r)
  /\ \A r \in db.failures : FailureRow(r)
  /\ \A r \in db.aliases : r = [old |-> r.old, new |-> r.new]

\* A renamed row differs in its name.
LEMMA RenamedRow ==
  ASSUME NEW r, NEW to, "name" \in DOMAIN r
  PROVE  /\ Renamed(r, to).name = to /\ DOMAIN Renamed(r, to) = DOMAIN r
         /\ \A f \in DOMAIN r \ {"name"} : Renamed(r, to)[f] = r[f]
BY DEF Renamed

LEMMA RenamedDuration ==
  ASSUME NEW r, NEW to, DurationRow(r)
  PROVE  /\ DurationRow(Renamed(r, to)) /\ Renamed(r, to).name = to
         /\ Renamed(r, to).event = r.event /\ Renamed(r, to).at = r.at
         /\ Renamed(r, to).secs = r.secs /\ Renamed(r, to).sha = r.sha
BY DEF DurationRow, Renamed

\* Rows of the same name that are the same once renamed were the same.
LEMMA RenamedApart ==
  ASSUME NEW r, NEW q, NEW to, DurationRow(r), DurationRow(q), r.name = q.name, Renamed(r, to) = Renamed(q, to)
  PROVE  r = q
<1>1. /\ r.event = q.event /\ r.secs = q.secs /\ r.at = q.at /\ r.conclusion = q.conclusion
      /\ r.sha = q.sha /\ r.attempt = q.attempt /\ r.started = q.started /\ r.run = q.run
  <2>1. ASSUME NEW x, DurationRow(x)
        PROVE  /\ Renamed(x, to).event = x.event /\ Renamed(x, to).secs = x.secs /\ Renamed(x, to).at = x.at
               /\ Renamed(x, to).conclusion = x.conclusion /\ Renamed(x, to).sha = x.sha
               /\ Renamed(x, to).attempt = x.attempt /\ Renamed(x, to).started = x.started /\ Renamed(x, to).run = x.run
    BY <2>1 DEF DurationRow, Renamed
  <2>. QED BY <2>1
<1>. QED BY <1>1 DEF DurationRow

\* UPDATE without a collision: the rows are all there, those of the old name under
\* the new one.
LEMMA DurationsMove ==
  ASSUME NEW db, HistInv(db), NEW from, NEW to, ~RenameCollides(db, "durations", from, to)
  PROVE  LET rows == db.durations
             moved == MoveRows(rows, from, to)
         IN /\ \A r \in moved : DurationRow(r) /\ (r.name = to \/ (r \in rows /\ r.name # from))
            /\ Unique(moved) /\ IsFiniteSet(moved) /\ Cardinality(moved) = Cardinality(rows)
            /\ {<<r.event, r.at, r.secs, r.sha>> : r \in moved} = {<<r.event, r.at, r.secs, r.sha>> : r \in rows}
<1>. DEFINE rows == db.durations
            moved == MoveRows(rows, from, to)
            M(r) == IF r.name = from THEN Renamed(r, to) ELSE r
<1>1. \A r \in rows : DurationRow(r)
  BY DEF HistInv
<1>2. \A x : x \in moved <=> \E r \in rows : x = M(r)
  BY DEF MoveRows
<1>3. \A r \in rows : /\ DurationRow(M(r)) /\ (M(r).name = to \/ (M(r) = r /\ r.name # from))
                      /\ M(r).event = r.event /\ M(r).at = r.at /\ M(r).secs = r.secs /\ M(r).sha = r.sha
  BY <1>1, RenamedDuration
<1>4. ASSUME NEW r \in rows, NEW q \in rows, SameRun(M(r), M(q)) PROVE r = q
  <2>0. Unique(rows) /\ DurationRow(r) /\ DurationRow(q)
    BY DEF HistInv
  <2>1. r.event = q.event /\ r.at = q.at
    BY <1>3, <1>4 DEF SameRun
  <2>2. CASE r.name = q.name
    BY <2>0, <2>1, <2>2 DEF Unique, SameRun
  <2>3. ASSUME NEW x \in rows, NEW y \in rows, x.name = from, y.name # from, SameRun(Renamed(x, to), y) PROVE FALSE
    <3>1. y \in Clashes(db, "durations", Renamed(x, to))
      BY <2>3 DEF Clashes, UniqueKey, SameRun
    <3>. QED BY <2>3, <3>1 DEF RenameCollides
  <2>4. CASE r.name # q.name
    <3>1. r.name = from \/ q.name = from
      BY <1>4, <2>4 DEF SameRun
    <3>2. CASE r.name = from
      BY <1>4, <2>4, <3>2, <2>3
    <3>3. CASE q.name = from
      <4>1. SameRun(Renamed(q, to), r)
        BY <1>4, <2>4, <3>3 DEF SameRun
      <4>. QED BY <2>4, <3>3, <4>1, <2>3
    <3>. QED BY <3>1, <3>2, <3>3
  <2>. QED BY <2>2, <2>4
<1>5. \A r \in moved : DurationRow(r) /\ (r.name = to \/ (r \in rows /\ r.name # from))
  BY <1>2, <1>3
<1>6. Unique(moved)
  BY <1>2, <1>4 DEF Unique
<1>7. IsFiniteSet(moved) /\ Cardinality(moved) = Cardinality(rows)
  <2>. DEFINE f == [r \in rows |-> M(r)]
  <2>1. \A r, q \in rows : M(r) = M(q) => r = q
    BY <1>4 DEF SameRun
  <2>2. f \in [rows -> moved] /\ \A x \in moved : \E r \in rows : f[r] = x
    BY <1>2
  <2>3. \A r, q \in rows : f[r] = f[q] => r = q
    BY <2>1
  <2>. HIDE DEF f, moved
  <2>4. f \in Bijection(rows, moved)
    BY <2>2, <2>3 DEF Bijection, Injection, Surjection, IsInjective
  <2>5. ExistsBijection(rows, moved) /\ IsFiniteSet(rows)
    BY <2>4 DEF ExistsBijection, HistInv
  <2>. QED BY <2>5, FS_Bijection
<1>8. {<<r.event, r.at, r.secs, r.sha>> : r \in moved} = {<<r.event, r.at, r.secs, r.sha>> : r \in rows}
  <2>1. \A r \in rows : <<M(r).event, M(r).at, M(r).secs, M(r).sha>> = <<r.event, r.at, r.secs, r.sha>>
    BY <1>3
  <2>. HIDE DEF M, moved, rows
  <2>. QED BY <1>2, <2>1
<1>. QED BY <1>5, <1>6, <1>7, <1>8

\* Waits keep their tables when they move, and nothing stays under the old name.
LEMMA WaitsMove ==
  ASSUME NEW rows, \A r \in rows : WaitRow(r), NEW from, NEW to
  PROVE  \A r \in MoveRows(rows, from, to) : WaitRow(r) /\ (r.name = to \/ (r \in rows /\ r.name # from))
<1>. SUFFICES ASSUME NEW r \in MoveRows(rows, from, to)
              PROVE  WaitRow(r) /\ (r.name = to \/ (r \in rows /\ r.name # from))
  OBVIOUS
<1>1. PICK q \in rows : r = IF q.name = from THEN Renamed(q, to) ELSE q
  BY DEF MoveRows
<1>2. "name" \in DOMAIN q
  BY DEF WaitRow
<1>3. Renamed(q, to).name = to /\ "name" \in DOMAIN Renamed(q, to)
  BY <1>2, RenamedRow
<1>. QED BY <1>1, <1>2, <1>3 DEF WaitRow

\* UPDATE OR IGNORE, then DELETE: the old name is gone, and what the new name has
\* learned already stands for what was dropped.
LEMMA PoolsMove ==
  ASSUME NEW db, \A r \in db.pools : PoolRow(r), NEW from, NEW to, from # to
  PROVE  LET moved == MoveOrDrop(db, "pools", from, to)
         IN /\ \A r \in moved : PoolRow(r) /\ (r.name = to \/ (r \in db.pools /\ r.name # from))
            /\ {r.event : r \in moved} = {r.event : r \in db.pools}
<1>. DEFINE moved == MoveOrDrop(db, "pools", from, to)
<1>1. \A r \in db.pools : /\ PoolRow(Renamed(r, to)) /\ Renamed(r, to).name = to
                          /\ Renamed(r, to).event = r.event
  BY RenamedRow DEF PoolRow
<1>2. \A r : r \in moved <=> \/ r \in db.pools /\ r.name # from
                            \/ \E q \in db.pools : /\ q.name = from /\ r = Renamed(q, to)
                                                    /\ Clashes(db, "pools", Renamed(q, to)) = {}
  BY DEF MoveOrDrop
<1>3. \A r \in moved : PoolRow(r) /\ (r.name = to \/ (r \in db.pools /\ r.name # from))
  BY <1>1, <1>2
<1>4. ASSUME NEW r \in moved PROVE \E q \in db.pools : q.event = r.event
  BY <1>1, <1>2
<1>5. ASSUME NEW q \in db.pools PROVE \E r \in moved : r.event = q.event
  <2>1. CASE q.name # from
    BY <2>1, <1>2
  <2>2. CASE q.name = from /\ Clashes(db, "pools", Renamed(q, to)) = {}
    BY <2>2, <1>1, <1>2
  <2>3. CASE q.name = from /\ Clashes(db, "pools", Renamed(q, to)) # {}
    <3>1. PICK r \in db.pools : UniqueKey("pools", r) = UniqueKey("pools", Renamed(q, to))
      BY <2>3 DEF Clashes
    <3>2. r.name = to /\ r.event = q.event
      BY <3>1, <1>1 DEF UniqueKey
    <3>3. r \in moved
      BY <3>2, <1>2
    <3>. QED BY <3>2, <3>3
  <2>. QED BY <2>1, <2>2, <2>3
<1>6. {r.event : r \in moved} = {r.event : r \in db.pools}
  <2>. HIDE DEF moved
  <2>. QED BY <1>4, <1>5
<1>. QED BY <1>3, <1>6

\* Failures of the old name move or, when the new name has one of the commit, go.
LEMMA FailuresMove ==
  ASSUME NEW db, \A r \in db.failures : FailureRow(r), NEW from, NEW to, from # to
  PROVE  LET moved == MoveOrDrop(db, "failures", from, to)
         IN /\ \A r \in moved : FailureRow(r) /\ (r.name = to \/ (r \in db.failures /\ r.name # from))
            /\ {r.sha : r \in moved} = {r.sha : r \in db.failures}
<1>. DEFINE moved == MoveOrDrop(db, "failures", from, to)
<1>1. \A r \in db.failures : /\ FailureRow(Renamed(r, to)) /\ Renamed(r, to).name = to
                             /\ Renamed(r, to).sha = r.sha
  BY RenamedRow DEF FailureRow
<1>2. \A r : r \in moved <=> \/ r \in db.failures /\ r.name # from
                            \/ \E q \in db.failures : /\ q.name = from /\ r = Renamed(q, to)
                                                       /\ Clashes(db, "failures", Renamed(q, to)) = {}
  BY DEF MoveOrDrop
<1>3. \A r \in moved : FailureRow(r) /\ (r.name = to \/ (r \in db.failures /\ r.name # from))
  BY <1>1, <1>2
<1>4. ASSUME NEW r \in moved PROVE \E q \in db.failures : q.sha = r.sha
  BY <1>1, <1>2
<1>5. ASSUME NEW q \in db.failures PROVE \E r \in moved : r.sha = q.sha
  <2>1. CASE q.name # from
    BY <2>1, <1>2
  <2>2. CASE q.name = from /\ Clashes(db, "failures", Renamed(q, to)) = {}
    BY <2>2, <1>1, <1>2
  <2>3. CASE q.name = from /\ Clashes(db, "failures", Renamed(q, to)) # {}
    <3>1. PICK r \in db.failures : UniqueKey("failures", r) = UniqueKey("failures", Renamed(q, to))
      BY <2>3 DEF Clashes
    <3>2. r.name = to /\ r.sha = q.sha
      BY <3>1, <1>1 DEF UniqueKey
    <3>3. r \in moved
      BY <3>2, <1>2
    <3>. QED BY <3>2, <3>3
  <2>. QED BY <2>1, <2>2, <2>3
<1>6. {r.sha : r \in moved} = {r.sha : r \in db.failures}
  <2>. HIDE DEF moved
  <2>. QED BY <1>4, <1>5
<1>. QED BY <1>3, <1>6

\* What a fold may touch, and what it keeps.
Renames == {"durations", "runnerWaits", "pools", "failures", "aliases"}
Kept(rows) == {<<r.event, r.at, r.secs, r.sha>> : r \in rows}
KeepsHistory(before, after) ==
  /\ Kept(after.durations) = Kept(before.durations)
  /\ Cardinality(after.durations) = Cardinality(before.durations)
  /\ {r.event : r \in after.pools} = {r.event : r \in before.pools}
  /\ {r.sha : r \in after.failures} = {r.sha : r \in before.failures}
NamesIn(db) == {r.name : r \in db.durations \cup db.runnerWaits \cup db.pools \cup db.failures}

\* A pair that was folded is in the table of the aliases.
LEMMA PairIsNoted ==
  ASSUME NEW db, "aliases" \in DOMAIN db, NEW row, Clashes(db, "aliases", row) # {} => row \in db.aliases
  PROVE  /\ Touches(db, InsertOrIgnore(db, "aliases", row), {"aliases"})
         /\ InsertOrIgnore(db, "aliases", row).aliases = db.aliases \cup {row}
BY DEF InsertOrIgnore, Touches

\* One pair: the history is kept whole and the old name is in no table.
LEMMA FoldMoves ==
  ASSUME NEW db, HistInv(db), NEW pair, pair[1] # pair[2], ~RenameCollides(db, "durations", pair[1], pair[2])
  PROVE  LET after == FoldAlias(db, pair)
         IN /\ HistInv(after) /\ Touches(db, after, Renames) /\ KeepsHistory(db, after)
            /\ NamesIn(after) \subseteq (NamesIn(db) \ {pair[1]}) \cup {pair[2]}
            /\ after.aliases = db.aliases \cup {[old |-> pair[1], new |-> pair[2]]}
<1>. DEFINE from == pair[1]
            to == pair[2]
            row == [old |-> from, new |-> to]
            mid == [db EXCEPT !.durations   = MoveRows(@, from, to),
                              !.runnerWaits = MoveRows(@, from, to),
                              !.pools       = MoveOrDrop(db, "pools", from, to),
                              !.failures    = MoveOrDrop(db, "failures", from, to)]
            after == FoldAlias(db, pair)
<1>1. after = InsertOrIgnore(mid, "aliases", row)
  BY DEF FoldAlias
<1>2. DOMAIN db = Tables
  BY DEF HistInv
<1>3. /\ DOMAIN mid = Tables
      /\ mid.durations = MoveRows(db.durations, from, to) /\ mid.runnerWaits = MoveRows(db.runnerWaits, from, to)
      /\ mid.pools = MoveOrDrop(db, "pools", from, to) /\ mid.failures = MoveOrDrop(db, "failures", from, to)
      /\ \A t \in Tables \ {"durations", "runnerWaits", "pools", "failures"} : mid[t] = db[t]
  BY <1>2 DEF Tables, EmptyDb
<1>4. Clashes(mid, "aliases", row) # {} => row \in db.aliases
  <2>. SUFFICES ASSUME NEW r \in db.aliases, UniqueKey("aliases", r) = UniqueKey("aliases", row)
                PROVE  row \in db.aliases
    <3>1. mid.aliases = db.aliases
      BY <1>3 DEF Tables, EmptyDb
    <3>. HIDE DEF mid, row
    <3>. QED BY <3>1 DEF Clashes
  <2>1. r.old = row.old /\ r.new = row.new
    BY DEF UniqueKey
  <2>2. r = [old |-> r.old, new |-> r.new]
    BY DEF HistInv
  <2>3. row = [old |-> row.old, new |-> row.new]
    OBVIOUS
  <2>. HIDE DEF row
  <2>. QED BY <2>1, <2>2, <2>3
<1>. HIDE DEF mid, after, row
<1>5. /\ Touches(mid, after, {"aliases"}) /\ mid.aliases = db.aliases
      /\ after.aliases = db.aliases \cup {row}
  <2>1. "aliases" \in DOMAIN mid /\ mid.aliases = db.aliases
    BY <1>3 DEF Tables, EmptyDb
  <2>2. Clashes(mid, "aliases", row) # {} => row \in mid.aliases
    BY <2>1, <1>4
  <2>3. /\ Touches(mid, InsertOrIgnore(mid, "aliases", row), {"aliases"})
        /\ InsertOrIgnore(mid, "aliases", row).aliases = mid.aliases \cup {row}
    BY <2>1, <2>2, PairIsNoted
  <2>. QED BY <2>1, <2>3, <1>1
<1>6. /\ after.durations = mid.durations /\ after.runnerWaits = mid.runnerWaits
      /\ after.pools = mid.pools /\ after.failures = mid.failures
  BY <1>3, <1>5 DEF Touches, Tables, EmptyDb
<1>7. Touches(db, after, Renames)
  BY <1>2, <1>3, <1>5 DEF Touches, Renames
<1>. DEFINE arrived(x, rows) == x.name = to \/ (x \in rows /\ x.name # from)
<1>8. /\ \A x \in after.durations : DurationRow(x) /\ arrived(x, db.durations)
      /\ Unique(after.durations) /\ IsFiniteSet(after.durations)
      /\ Cardinality(after.durations) = Cardinality(db.durations)
      /\ Kept(after.durations) = Kept(db.durations)
  BY <1>3, <1>6, DurationsMove DEF Kept
<1>9. \A x \in after.runnerWaits : WaitRow(x) /\ arrived(x, db.runnerWaits)
  <2>1. \A x \in db.runnerWaits : WaitRow(x)
    BY DEF HistInv
  <2>. QED BY <2>1, <1>3, <1>6, WaitsMove
<1>10. /\ \A x \in after.pools : PoolRow(x) /\ arrived(x, db.pools)
       /\ {x.event : x \in after.pools} = {x.event : x \in db.pools}
  <2>1. \A x \in db.pools : PoolRow(x)
    BY DEF HistInv
  <2>2. /\ \A x \in MoveOrDrop(db, "pools", from, to) : PoolRow(x) /\ arrived(x, db.pools)
        /\ {x.event : x \in MoveOrDrop(db, "pools", from, to)} = {x.event : x \in db.pools}
    BY <2>1, PoolsMove
  <2>3. after.pools = MoveOrDrop(db, "pools", from, to)
    BY <1>3, <1>6
  <2>. QED BY <2>2, <2>3
<1>11. /\ \A x \in after.failures : FailureRow(x) /\ arrived(x, db.failures)
       /\ {x.sha : x \in after.failures} = {x.sha : x \in db.failures}
  <2>1. \A x \in db.failures : FailureRow(x)
    BY DEF HistInv
  <2>2. /\ \A x \in MoveOrDrop(db, "failures", from, to) : FailureRow(x) /\ arrived(x, db.failures)
        /\ {x.sha : x \in MoveOrDrop(db, "failures", from, to)} = {x.sha : x \in db.failures}
    BY <2>1, FailuresMove
  <2>3. after.failures = MoveOrDrop(db, "failures", from, to)
    BY <1>3, <1>6
  <2>. QED BY <2>2, <2>3
<1>12. KeepsHistory(db, after)
  BY <1>8, <1>10, <1>11 DEF KeepsHistory
<1>13. HistInv(after)
  <2>1. DOMAIN after = Tables
    BY <1>2, <1>7 DEF Touches
  <2>2. \A x \in after.aliases : x = [old |-> x.old, new |-> x.new]
    BY <1>5 DEF HistInv, row
  <2>. QED BY <2>1, <2>2, <1>8, <1>9, <1>10, <1>11 DEF HistInv
<1>14. NamesIn(after) \subseteq (NamesIn(db) \ {from}) \cup {to}
  BY <1>8, <1>9, <1>10, <1>11 DEF NamesIn
<1>. QED BY <1>5, <1>7, <1>12, <1>13, <1>14 DEF after, row

(***************************************************************************)
(* The fold of the aliases.                                                *)
(***************************************************************************)
\* Aliases as a person writes them: no pair renames to a name that it, or a pair
\* before it, has given up.
ForwardAliases(aliases) ==
  \E n \in Nat : /\ DOMAIN aliases = 1 .. n
                 /\ \A i, j \in 1 .. n : i <= j => aliases[j][2] # aliases[i][1]

PairRow(p) == [old |-> p[1], new |-> p[2]]
\* The pairs among the first k that are folded.
PendingUpTo(db, aliases, k) == {i \in 1 .. k : PairRow(aliases[i]) \notin db.aliases}
GivenUp(db, aliases, k) == {aliases[i][1] : i \in PendingUpTo(db, aliases, k)}
Folded(db, aliases, k)  == {PairRow(aliases[i]) : i \in PendingUpTo(db, aliases, k)}

\* What the transaction has done after k pairs.
FoldedSoFar(db, aliases, k, acc) ==
  acc.ok =>
    /\ HistInv(acc.db) /\ Touches(db, acc.db, Renames) /\ KeepsHistory(db, acc.db)
    /\ NamesIn(acc.db) \cap GivenUp(db, aliases, k) = {}
    /\ acc.db.aliases = db.aliases \cup Folded(db, aliases, k)
    /\ PendingUpTo(db, aliases, k) = {} => acc.db = db

\* One more pair: since no pair renames to a name given up before, all of those stay
\* out of the tables.
LEMMA FoldGoesOn ==
  ASSUME NEW db, NEW aliases, NEW n \in Nat, DOMAIN aliases = 1 .. n,
         \A i, j \in 1 .. n : i <= j => aliases[j][2] # aliases[i][1],
         NEW k \in 0 .. n - 1, NEW acc, FoldedSoFar(db, aliases, k, acc)
  PROVE  FoldedSoFar(db, aliases, k + 1,
           IF PairRow(aliases[k + 1]) \in db.aliases THEN acc ELSE FoldOrFail(acc, aliases[k + 1]))
<1>. DEFINE p == aliases[k + 1]
            next == FoldOrFail(acc, p)
<1>0. /\ k \in Nat /\ k + 1 \in 1 .. n
      /\ \A i \in 1 .. k + 1 : i \in 1 .. k \/ i = k + 1
      /\ \A i \in 1 .. k : i \in 1 .. k + 1 /\ i \in 1 .. n /\ i <= k + 1
  OBVIOUS
<1>1. CASE PairRow(p) \in db.aliases
  <2>1. PendingUpTo(db, aliases, k + 1) = PendingUpTo(db, aliases, k)
    BY <1>0, <1>1 DEF PendingUpTo
  <2>. QED BY <1>1, <2>1 DEF FoldedSoFar, GivenUp, Folded
<1>2. CASE PairRow(p) \notin db.aliases
  <2>. SUFFICES ASSUME next.ok PROVE FoldedSoFar(db, aliases, k + 1, next)
    BY <1>2 DEF FoldedSoFar
  <2>1. PendingUpTo(db, aliases, k + 1) = PendingUpTo(db, aliases, k) \cup {k + 1}
    BY <1>0, <1>2 DEF PendingUpTo
  <2>2. /\ GivenUp(db, aliases, k + 1) = GivenUp(db, aliases, k) \cup {p[1]}
        /\ Folded(db, aliases, k + 1) = Folded(db, aliases, k) \cup {PairRow(p)}
        /\ PendingUpTo(db, aliases, k + 1) # {}
    BY <2>1 DEF GivenUp, Folded
  <2>3. p[2] # p[1] /\ p[2] \notin GivenUp(db, aliases, k)
    <3>1. \A i \in PendingUpTo(db, aliases, k) : i \in 1 .. k
      BY DEF PendingUpTo
    <3>. QED BY <3>1, <1>0 DEF GivenUp
  <2>4. acc.ok /\ ~RenameCollides(acc.db, "durations", p[1], p[2]) /\ next.db = FoldAlias(acc.db, p)
    BY DEF FoldOrFail
  <2>5. /\ HistInv(acc.db) /\ Touches(db, acc.db, Renames) /\ KeepsHistory(db, acc.db)
        /\ NamesIn(acc.db) \cap GivenUp(db, aliases, k) = {}
        /\ acc.db.aliases = db.aliases \cup Folded(db, aliases, k)
    BY <2>4 DEF FoldedSoFar
  <2>. HIDE DEF p, next
  <2>6. /\ HistInv(next.db) /\ Touches(acc.db, next.db, Renames) /\ KeepsHistory(acc.db, next.db)
        /\ NamesIn(next.db) \subseteq (NamesIn(acc.db) \ {p[1]}) \cup {p[2]}
        /\ next.db.aliases = acc.db.aliases \cup {PairRow(p)}
    BY <2>3, <2>4, <2>5, FoldMoves DEF PairRow
  <2>7. Touches(db, next.db, Renames)
    BY <2>5, <2>6, TouchesTwice
  <2>8. KeepsHistory(db, next.db)
    BY <2>5, <2>6 DEF KeepsHistory
  <2>9. NamesIn(next.db) \cap GivenUp(db, aliases, k + 1) = {}
    BY <2>2, <2>3, <2>5, <2>6
  <2>10. next.db.aliases = db.aliases \cup Folded(db, aliases, k + 1)
    BY <2>2, <2>5, <2>6
  <2>. QED BY <2>2, <2>6, <2>7, <2>8, <2>9, <2>10 DEF FoldedSoFar
<1>. QED BY <1>1, <1>2

\* All pairs: the transaction leaves the database alone, or it has folded a list.
LEMMA AliasesAreFolded ==
  ASSUME NEW db, HistInv(db), NEW aliases, ForwardAliases(aliases)
  PROVE  LET after == ApplyCheckAliases(db, aliases).db
         IN \/ after = db
            \/ \E k \in Nat : FoldedSoFar(db, aliases, k, [ok |-> TRUE, db |-> after])
<1>1. PICK n \in Nat : /\ DOMAIN aliases = 1 .. n
                      /\ \A i, j \in 1 .. n : i <= j => aliases[j][2] # aliases[i][1]
  BY DEF ForwardAliases
<1>. DEFINE S == 1 .. n
            base == [ok |-> TRUE, db |-> db]
            pick == [s \in SUBSET S |-> Max(s)]
            of == [i \in S |-> aliases[i]]
            Next1(acc, p) == IF [old |-> p[1], new |-> p[2]] \in db.aliases THEN acc ELSE FoldOrFail(acc, p)
            Step(g, s) == IF s = {} THEN base ELSE Next1(g[s \ {Max(s)}], aliases[Max(s)])
            iter == CHOOSE g : g = [s \in SUBSET S |-> Step(g, s)]
            F(g, s) == Unfolds(g, s, "alias", db.aliases, 0, 0, base, of, pick)
<1>0. \A s \in SUBSET S : s # {} => pick[s] = Max(s) /\ pick[s] \in s /\ of[pick[s]] = aliases[Max(s)]
  <2>. SUFFICES ASSUME NEW s \in SUBSET S, s # {}
                PROVE  pick[s] = Max(s) /\ pick[s] \in s /\ of[pick[s]] = aliases[Max(s)]
    OBVIOUS
  <2>1. s \subseteq Nat /\ \A x \in s : x <= n
    OBVIOUS
  <2>2. Max(s) \in s
    BY <2>1, HasMax
  <2>. QED BY <2>2
<1>2. Picks(pick, S) /\ IsFiniteSet(S)
  <2>1. IsFiniteSet(S)
    BY FS_Interval
  <2>. HIDE DEF S, pick
  <2>. QED BY <1>0, <2>1 DEF Picks
<1>. HIDE DEF pick, of
<1>3. PICK g : Solves(g, S, "alias", db.aliases, 0, 0, base, of, pick)
  <2>. HIDE DEF S, base
  <2>. QED BY <1>2, FoldExists
<1>4. \A h : \A s \in SUBSET S : F(h, s) = Step(h, s)
  <2>. TAKE h
  <2>. TAKE s \in SUBSET S
  <2>1. CASE s = {}
    BY <2>1 DEF Unfolds
  <2>2. CASE s # {}
    <3>. HIDE DEF Next1
    <3>1. F(h, s) = Does("alias", db.aliases, 0, 0, aliases[Max(s)], h[s \ {Max(s)}])
      BY <2>2, <1>0 DEF Unfolds
    <3>2. Does("alias", db.aliases, 0, 0, aliases[Max(s)], h[s \ {Max(s)}]) = Next1(h[s \ {Max(s)}], aliases[Max(s)])
      BY DoesAlias DEF Next1
    <3>. QED BY <2>2, <3>1, <3>2
  <2>. QED BY <2>1, <2>2
<1>. HIDE DEF F
<1>5. g = [s \in SUBSET S |-> Step(g, s)]
  <2>1. \A s \in SUBSET S : F(g, s) = Step(g, s)
    BY <1>4
  <2>2. g = [s \in SUBSET S |-> F(g, s)]
    BY <1>3 DEF Solves, F
  <2>. HIDE DEF Step
  <2>. QED BY <2>1, <2>2
<1>6. iter = [s \in SUBSET S |-> Step(iter, s)]
  <2>. HIDE DEF Step
  <2>. QED BY <1>5
<1>7. ApplyCheckAliases(db, aliases) = IF iter[S].ok THEN iter[S] ELSE [ok |-> FALSE, db |-> db]
  BY <1>1 DEF ApplyCheckAliases, FoldLeft, MapThenFoldSet
<1>. HIDE DEF iter
<1>8. iter[{}] = base /\ \A k \in 0 .. n - 1 : iter[1 .. k + 1] = Next1(iter[1 .. k], aliases[k + 1])
  <2>1. \A s \in SUBSET S : iter[s] = Step(iter, s)
    <3>. HIDE DEF Step
    <3>. QED BY <1>6
  <2>2. ASSUME NEW k \in 0 .. n - 1 PROVE iter[1 .. k + 1] = Next1(iter[1 .. k], aliases[k + 1])
    <3>0. k + 1 \in 1 .. k + 1 /\ k + 1 \in Nat
      OBVIOUS
    <3>1. 1 .. k + 1 \subseteq S /\ 1 .. k + 1 # {}
      BY <3>0
    <3>2. Max(1 .. k + 1) = k + 1
      <4>1. 1 .. k + 1 \subseteq Nat /\ \A x \in 1 .. k + 1 : x <= k + 1
        BY <3>0
      <4>2. Max(1 .. k + 1) \in 1 .. k + 1 /\ \A x \in 1 .. k + 1 : x <= Max(1 .. k + 1)
        BY <3>0, <3>1, <4>1, HasMax
      <4>. QED BY <3>0, <4>2
    <3>3. (1 .. k + 1) \ {k + 1} = 1 .. k
      OBVIOUS
    <3>. HIDE DEF Next1
    <3>. QED BY <2>1, <3>1, <3>2, <3>3
  <2>. HIDE DEF Next1
  <2>. QED BY <2>1, <2>2
<1>. DEFINE good == {k \in Nat : k <= n => FoldedSoFar(db, aliases, k, iter[1 .. k])}
<1>9. 0 \in good
  <2>1. 1 .. 0 = {} /\ iter[1 .. 0] = base
    BY <1>8
  <2>2. PendingUpTo(db, aliases, 0) = {}
    BY <2>1 DEF PendingUpTo
  <2>3. FoldedSoFar(db, aliases, 0, base)
    BY <2>2 DEF FoldedSoFar, GivenUp, Folded, Touches, KeepsHistory
  <2>. QED BY <2>1, <2>3
<1>10. ASSUME NEW k \in good PROVE k + 1 \in good
  <2>. SUFFICES ASSUME k + 1 <= n PROVE FoldedSoFar(db, aliases, k + 1, iter[1 .. k + 1])
    OBVIOUS
  <2>1. k \in 0 .. n - 1 /\ FoldedSoFar(db, aliases, k, iter[1 .. k])
    OBVIOUS
  <2>2. FoldedSoFar(db, aliases, k + 1,
           IF PairRow(aliases[k + 1]) \in db.aliases THEN iter[1 .. k] ELSE FoldOrFail(iter[1 .. k], aliases[k + 1]))
    BY <1>1, <2>1, FoldGoesOn
  <2>. QED BY <2>1, <2>2, <1>8 DEF PairRow
<1>11. n \in good
  <2>1. good \subseteq Nat
    OBVIOUS
  <2>. HIDE DEF good
  <2>. QED BY <1>9, <1>10, <2>1, Counting
<1>12. FoldedSoFar(db, aliases, n, iter[S])
  BY <1>11
<1>13. CASE iter[S].ok
  <2>1. ApplyCheckAliases(db, aliases).db = iter[S].db
    BY <1>7, <1>13
  <2>. HIDE DEF S
  <2>. QED BY <1>12, <1>13, <2>1 DEF FoldedSoFar
<1>14. CASE ~iter[S].ok
  BY <1>7, <1>14
<1>. QED BY <1>13, <1>14

(***************************************************************************)
(* What the process holds is what it has persisted.                        *)
(***************************************************************************)
\* The world: the files name their aliases forwards, and lists are finite.
World(world) ==
  /\ \A c \in world.contents : ForwardAliases(c.aliases)
  /\ IsFiniteSet(DOMAIN world.jobsOf) /\ \A r \in DOMAIN world.jobsOf : IsFiniteSet(world.jobsOf[r])
  /\ \A c \in world.checks : c.run \in DOMAIN world.jobsOf \cup {0}
  /\ IsFiniteSet(world.files) /\ \A f \in world.files : IsFiniteSet(world.runsOf[f.path])
  /\ \A c \in world.ran : c.at \in Nat

\* What the meta table holds under a key: at most one value, the one in memory.
Values(db, key) == {r.value : r \in {q \in db.meta : q.key = key}}
MemoryIsPersisted ==
  /\ (fileConfig = NoFile /\ Values(hist, "repoConfig") = {}) \/ Values(hist, "repoConfig") = {fileConfig}
  /\ (graph = {} /\ Values(hist, "ciGraph") = {}) \/ Values(hist, "ciGraph") = {graph}
  /\ (found = None /\ Values(hist, "discoveredWorkflowPath") = {}) \/ Values(hist, "discoveredWorkflowPath") = {found}
\* The rows of config_changes are dated in the order of the cycles that wrote them, and
\* the last one of a knob holds the value it is compared with.
BaselineIsRecorded ==
  /\ IsFiniteSet(hist.changes) /\ DOMAIN baseline \subseteq Fields
  /\ \A r \in hist.changes : r.at \in 1 .. Cardinality(hist.changes) /\ r.field \in DOMAIN baseline
  /\ \A f \in DOMAIN baseline : \A r \in LatestChange(hist, f) : r.new = baseline[f]
\* The inductive invariant.
RepoInv(world) ==
  /\ HistInv(hist) /\ ForwardAliases(file.aliases)
  /\ scheduledFiles \subseteq {f.path : f \in world.files}
  /\ MemoryIsPersisted /\ BaselineIsRecorded

\* A key that is set has one value, a key that is deleted has none.
LEMMA SetMetaPersists ==
  ASSUME NEW db, DOMAIN db = Tables, NEW key, NEW value
  PROVE  LET after == SetMeta(db, key, value)
         IN /\ Touches(db, after, {"meta"}) /\ Values(after, key) = {value}
            /\ \A k : k # key => Values(after, k) = Values(db, k)
<1>. DEFINE row == [key |-> key, value |-> value]
            after == SetMeta(db, key, value)
<1>1. "meta" \in DOMAIN db
  BY DEF Tables, EmptyDb
<1>2. Clashes(db, "meta", row) = {r \in db.meta : r.key = key}
  BY DEF Clashes, UniqueKey
<1>3. Touches(db, after, {"meta"}) /\ after.meta = (db.meta \ {r \in db.meta : r.key = key}) \cup {row}
  <2>. HIDE DEF row
  <2>1. /\ Touches(db, Upsert(db, "meta", row), {"meta"})
        /\ Upsert(db, "meta", row).meta = (db.meta \ Clashes(db, "meta", row)) \cup {row}
    BY <1>1, UpsertTouches
  <2>. QED BY <2>1, <1>2 DEF SetMeta, row
<1>4. row.key = key /\ row.value = value
  OBVIOUS
<1>. HIDE DEF row, after
<1>5. Values(after, key) = {value}
  BY <1>3, <1>4 DEF Values
<1>6. \A k : k # key => Values(after, k) = Values(db, k)
  BY <1>3, <1>4 DEF Values
<1>. QED BY <1>3, <1>5, <1>6 DEF after

LEMMA DeleteMetaForgets ==
  ASSUME NEW db, DOMAIN db = Tables, NEW key
  PROVE  LET after == DeleteMeta(db, key)
         IN /\ Touches(db, after, {"meta"}) /\ Values(after, key) = {}
            /\ \A k : k # key => Values(after, k) = Values(db, k)
<1>1. "meta" \in DOMAIN db
  BY DEF Tables, EmptyDb
<1>2. DeleteMeta(db, key).meta = {r \in db.meta : r.key # key} /\ Touches(db, DeleteMeta(db, key), {"meta"})
  BY <1>1 DEF DeleteMeta, Touches
<1>. QED BY <1>2 DEF Values

\* The rows of a check are kept by what touches other tables.
LEMMA RowsAreKept ==
  ASSUME NEW db, NEW after, NEW some, HistInv(db), Touches(db, after, some), some \cap Renames = {}
  PROVE  HistInv(after)
<1>1. \A t \in Renames : after[t] = db[t] /\ DOMAIN after = Tables
  BY DEF Touches, HistInv, Renames, Tables, EmptyDb
<1>2. /\ after.durations = db.durations /\ after.runnerWaits = db.runnerWaits /\ after.pools = db.pools
      /\ after.failures = db.failures /\ after.aliases = db.aliases /\ DOMAIN after = Tables
  BY <1>1 DEF Renames
<1>. QED BY <1>2 DEF HistInv

\* What touches neither the meta table nor the changes leaves the agreement alone.
LEMMA MemoryIsKept ==
  ASSUME NEW some, Touches(hist, hist', some), {"meta", "changes"} \cap some = {}, DOMAIN hist = Tables,
         UNCHANGED <<fileConfig, graph, found, baseline>>, MemoryIsPersisted, BaselineIsRecorded
  PROVE  MemoryIsPersisted' /\ BaselineIsRecorded'
<1>1. hist'.meta = hist.meta /\ hist'.changes = hist.changes
  BY DEF Touches, Tables, EmptyDb
<1>2. \A k : Values(hist', k) = Values(hist, k)
  BY <1>1 DEF Values
<1>3. \A f : LatestChange(hist', f) = LatestChange(hist, f)
  BY <1>1 DEF LatestChange
<1>. QED BY <1>1, <1>2, <1>3 DEF MemoryIsPersisted, BaselineIsRecorded

\* People and GitHub write nothing, and neither do clocks.
LEMMA OutsideStep ==
  ASSUME NEW world, World(world), RepoInv(world),
         \/ FileMoves(world.contents) \/ WorkflowMoves \/ AccessMoves
         \/ InstanceMoves(world.choices) \/ ExcludeMoves
         \/ WaitsRunOut(10) \/ WaitsRunOut(LongWait) \/ RecentRunsExpire
         \/ UNCHANGED repoVars
  PROVE  RepoInv(world)' /\ hist' = hist
<1>1. UNCHANGED <<hist, fileConfig, graph, found, baseline, scheduledFiles>>
  BY DEF FileMoves, WorkflowMoves, AccessMoves, Moves, InstanceMoves, ExcludeMoves, WaitsRunOut, RecentRunsExpire,
         repoVars, remote, chosen, lane, learned
<1>2. file' = file \/ file' \in world.contents
  BY DEF FileMoves, WorkflowMoves, AccessMoves, Moves, InstanceMoves, ExcludeMoves, WaitsRunOut, RecentRunsExpire,
         repoVars, remote, chosen, lane, learned
<1>3. ForwardAliases(file'.aliases)
  BY <1>2 DEF World, RepoInv
<1>4. MemoryIsPersisted' /\ BaselineIsRecorded'
  BY <1>1 DEF RepoInv, MemoryIsPersisted, BaselineIsRecorded
<1>. QED BY <1>1, <1>3, <1>4 DEF RepoInv

\* What a step of another kind has to show.
LEMMA StepIsSound ==
  ASSUME NEW world, RepoInv(world), UNCHANGED <<file, workflows, access>>,
         HistInv(hist'), scheduledFiles' \subseteq {f.path : f \in world.files},
         MemoryIsPersisted', BaselineIsRecorded'
  PROVE  RepoInv(world)'
BY DEF RepoInv

\* A fold writes neither the meta table nor the changes.
LEMMA FoldsTouchOnlyTheirTables ==
  ASSUME NEW db, HistInv(db), NEW aliases, ForwardAliases(aliases)
  PROVE  LET after == ApplyCheckAliases(db, aliases).db IN HistInv(after) /\ Touches(db, after, Renames)
<1>. DEFINE after == ApplyCheckAliases(db, aliases).db
<1>1. CASE after = db
  BY <1>1 DEF Touches
<1>2. ASSUME NEW k \in Nat, FoldedSoFar(db, aliases, k, [ok |-> TRUE, db |-> after])
      PROVE  HistInv(after) /\ Touches(db, after, Renames)
  <2>. HIDE DEF after
  <2>. QED BY <1>2 DEF FoldedSoFar
<1>. QED BY <1>1, <1>2, AliasesAreFolded

\* refreshRepoConfigs persists what it loads before the aliases are folded.
LEMMA RefreshStep ==
  ASSUME NEW world, RepoInv(world), RefreshRepoConfigs
  PROVE  RepoInv(world)'
<1>0. HistInv(hist) /\ DOMAIN hist = Tables /\ MemoryIsPersisted /\ BaselineIsRecorded
  BY DEF RepoInv, HistInv
<1>1. UNCHANGED <<file, workflows, access, graph, found, baseline, scheduledFiles>>
  BY DEF RefreshRepoConfigs, remote, learned, lane
<1>2. scheduledFiles' \subseteq {f.path : f \in world.files}
  BY <1>1 DEF RepoInv
<1>3. ASSUME Values(hist', "repoConfig") = {fileConfig'} \/ (fileConfig' = NoFile /\ Values(hist', "repoConfig") = {}),
             \A k : k # "repoConfig" => Values(hist', k) = Values(hist, k),
             hist'.changes = hist.changes
      PROVE  MemoryIsPersisted' /\ BaselineIsRecorded'
  <2>1. MemoryIsPersisted'
    BY <1>0, <1>1, <1>3 DEF MemoryIsPersisted
  <2>2. \A f : LatestChange(hist', f) = LatestChange(hist, f)
    BY <1>3 DEF LatestChange
  <2>. QED BY <2>1, <2>2, <1>0, <1>1, <1>3 DEF BaselineIsRecorded
<1>4. CASE FileGone
  <2>1. /\ Touches(hist, hist', {"meta"}) /\ Values(hist', "repoConfig") = {}
        /\ \A k : k # "repoConfig" => Values(hist', k) = Values(hist, k)
    BY <1>0, <1>4, DeleteMetaForgets DEF FileGone
  <2>2. HistInv(hist')
    BY <1>0, <2>1, RowsAreKept DEF Renames
  <2>3. hist'.changes = hist.changes
    BY <1>0, <2>1 DEF Touches, Tables, EmptyDb
  <2>. QED BY <1>1, <1>2, <1>3, <1>4, <2>1, <2>2, <2>3, StepIsSound DEF FileGone
<1>5. CASE FileLoaded
  <2>. DEFINE mid == SetMeta(hist, "repoConfig", file)
  <2>1. /\ Touches(hist, mid, {"meta"}) /\ Values(mid, "repoConfig") = {file}
        /\ \A k : k # "repoConfig" => Values(mid, k) = Values(hist, k)
    BY <1>0, SetMetaPersists
  <2>2. hist' = ApplyCheckAliases(mid, file.aliases).db /\ fileConfig' = file
    BY <1>5 DEF FileLoaded
  <2>. HIDE DEF mid
  <2>3. HistInv(mid)
    BY <1>0, <2>1, RowsAreKept DEF Renames
  <2>4. HistInv(hist') /\ Touches(mid, hist', Renames)
    BY <2>2, <2>3, FoldsTouchOnlyTheirTables DEF RepoInv
  <2>5. DOMAIN mid = Tables
    BY <2>3 DEF HistInv
  <2>6. hist'.meta = mid.meta /\ hist'.changes = mid.changes /\ mid.changes = hist.changes
    BY <1>0, <2>1, <2>4, <2>5 DEF Touches, Renames, Tables, EmptyDb
  <2>7. \A k : Values(hist', k) = Values(mid, k)
    BY <2>6 DEF Values
  <2>8. /\ Values(hist', "repoConfig") = {fileConfig'}
        /\ \A k : k # "repoConfig" => Values(hist', k) = Values(hist, k)
    BY <2>1, <2>2, <2>7
  <2>. QED BY <1>1, <1>2, <1>3, <2>4, <2>6, <2>8, StepIsSound
<1>6. CASE UNCHANGED <<fileConfig, hist>>
  <2>1. MemoryIsPersisted' /\ BaselineIsRecorded' /\ HistInv(hist')
    BY <1>0, <1>1, <1>6 DEF MemoryIsPersisted, BaselineIsRecorded
  <2>. QED BY <1>1, <1>2, <2>1, StepIsSound
<1>. QED BY <1>4, <1>5, <1>6 DEF RefreshRepoConfigs

\* A changed knob gets the latest date.
LEMMA DetectStep ==
  ASSUME NEW world, RepoInv(world), DetectConfigChanges
  PROVE  RepoInv(world)' /\ Touches(hist, hist', {"changes"})
<1>. DEFINE moved == {f \in DOMAIN baseline : baseline[f] # SettingsFor(f)}
            at == 1 + Cardinality(hist.changes)
            row(f) == [at |-> at, field |-> f, old |-> baseline[f], new |-> SettingsFor(f)]
            rows == {row(f) : f \in moved}
<1>0. /\ HistInv(hist) /\ DOMAIN hist = Tables /\ MemoryIsPersisted /\ BaselineIsRecorded
      /\ IsFiniteSet(hist.changes) /\ Cardinality(hist.changes) \in Nat
  BY FS_CardinalityType DEF RepoInv, HistInv, BaselineIsRecorded
<1>1. /\ hist' = [hist EXCEPT !.changes = hist.changes \cup rows]
      /\ baseline' = [f \in Fields |-> SettingsFor(f)]
      /\ UNCHANGED <<file, workflows, access, fileConfig, graph, found, scheduledFiles>>
  BY DEF DetectConfigChanges, remote, learned, lane
<1>2. Touches(hist, hist', {"changes"}) /\ hist'.changes = hist.changes \cup rows
  BY <1>0, <1>1 DEF Touches, Tables, EmptyDb
<1>3. HistInv(hist')
  BY <1>0, <1>2, RowsAreKept DEF Renames
<1>4. MemoryIsPersisted'
  <2>1. hist'.meta = hist.meta
    BY <1>0, <1>2 DEF Touches, Tables, EmptyDb
  <2>2. \A k : Values(hist', k) = Values(hist, k)
    BY <2>1 DEF Values
  <2>. QED BY <1>0, <1>1, <2>2 DEF MemoryIsPersisted
<1>5. moved \subseteq Fields /\ DOMAIN baseline \subseteq Fields /\ DOMAIN baseline' = Fields
  BY <1>0, <1>1 DEF BaselineIsRecorded
<1>6. \A r \in rows : r.at = at /\ r.field \in moved /\ r.new = SettingsFor(r.field)
  OBVIOUS
<1>7. \A f \in moved : \E r \in rows : r.field = f
  <2>1. \A f \in moved : row(f) \in rows /\ row(f).field = f
    OBVIOUS
  <2>. HIDE DEF moved, rows, row
  <2>. QED BY <2>1
<1>. HIDE DEF rows
<1>8. IsFiniteSet(rows)
  <2>1. IsFiniteSet(Fields)
    <3>1. IsFiniteSet({"batchSize"} \cup {"workflowPath"})
      BY FS_Singleton, FS_AddElement
    <3>. QED BY <3>1 DEF Fields
  <2>2. IsFiniteSet(moved)
    BY <2>1, <1>5, FS_Subset
  <2>. DEFINE g == [f \in moved |-> row(f)]
  <2>3. g \in [moved -> rows] /\ \A x \in rows : \E f \in moved : g[f] = x
    BY DEF rows
  <2>. HIDE DEF g, moved
  <2>4. g \in Surjection(moved, rows)
    BY <2>3 DEF Surjection
  <2>. QED BY <2>2, <2>4, FS_Surjection
<1>9. \A r \in hist.changes : /\ r.at \in 1 .. Cardinality(hist.changes) /\ r.field \in DOMAIN baseline
                              /\ r.at < at
  BY <1>0 DEF BaselineIsRecorded
<1>10. IsFiniteSet(hist'.changes) /\ Cardinality(hist'.changes) \in Nat
       /\ Cardinality(hist'.changes) >= Cardinality(hist.changes)
       /\ (rows # {} => Cardinality(hist'.changes) >= at)
  <2>1. IsFiniteSet(hist'.changes) /\ hist.changes \subseteq hist'.changes
    BY <1>0, <1>2, <1>8, FS_Union
  <2>2. Cardinality(hist'.changes) \in Nat /\ Cardinality(hist'.changes) >= Cardinality(hist.changes)
    BY <2>1, <1>0, FS_Subset, FS_CardinalityType
  <2>3. ASSUME NEW r \in rows PROVE Cardinality(hist'.changes) >= at
    <3>1. r \notin hist.changes
      BY <1>6, <1>9, <1>0
    <3>2. Cardinality(hist.changes) # Cardinality(hist'.changes)
      BY <2>1, <3>1, <1>0, <1>2, FS_Subset
    <3>. QED BY <2>2, <3>2, <1>0
  <2>. QED BY <2>1, <2>2, <2>3
<1>11. \A r \in hist'.changes : r.at \in 1 .. Cardinality(hist'.changes) /\ r.field \in DOMAIN baseline'
  <2>. SUFFICES ASSUME NEW r \in hist'.changes
                PROVE  r.at \in 1 .. Cardinality(hist'.changes) /\ r.field \in DOMAIN baseline'
    OBVIOUS
  <2>1. CASE r \in hist.changes
    BY <2>1, <1>0, <1>5, <1>9, <1>10
  <2>2. CASE r \in rows
    BY <2>2, <1>0, <1>5, <1>6, <1>10
  <2>. QED BY <2>1, <2>2, <1>2
<1>12. ASSUME NEW f \in DOMAIN baseline', NEW r \in LatestChange(hist', f) PROVE r.new = baseline'[f]
  <2>1. r \in hist.changes \cup rows /\ r.field = f /\ \A s \in hist.changes \cup rows : s.field = f => s.at <= r.at
    BY <1>2, <1>12 DEF LatestChange
  <2>2. baseline'[f] = SettingsFor(f)
    BY <1>1, <1>5
  <2>3. CASE f \in moved
    <3>1. PICK s \in rows : s.field = f
      BY <2>3, <1>7
    <3>2. at <= r.at
      BY <2>1, <3>1, <1>6
    <3>3. r \in rows
      BY <2>1, <3>2, <1>9, <1>0
    <3>. QED BY <2>1, <2>2, <3>3, <1>6
  <2>4. CASE f \notin moved
    <3>1. r \in hist.changes
      BY <2>1, <2>4, <1>6
    <3>2. r \in LatestChange(hist, f) /\ f \in DOMAIN baseline
      BY <2>1, <3>1, <1>9 DEF LatestChange
    <3>3. r.new = baseline[f]
      BY <3>2, <1>0 DEF BaselineIsRecorded
    <3>. QED BY <2>2, <2>4, <3>2, <3>3
  <2>. QED BY <2>3, <2>4
<1>13. BaselineIsRecorded'
  BY <1>5, <1>10, <1>11, <1>12 DEF BaselineIsRecorded
<1>. QED BY <1>1, <1>2, <1>3, <1>4, <1>13, StepIsSound DEF RepoInv

\* A graph that is adopted, and a path that is discovered, are persisted.
LEMMA RederiveStep ==
  ASSUME NEW world, RepoInv(world), Rederive
  PROVE  RepoInv(world)' /\ Touches(hist, hist', {"meta"})
<1>0. /\ HistInv(hist) /\ DOMAIN hist = Tables /\ MemoryIsPersisted /\ BaselineIsRecorded
  BY DEF RepoInv, HistInv
<1>1. UNCHANGED <<file, workflows, access, fileConfig, baseline, scheduledFiles>>
  BY DEF Rederive, remote, learned, lane
<1>2. PICK path, p :
        \/ UNCHANGED <<graph, found, hist>>
        \/ graph' = GraphOf(path) /\ hist' = AdoptedIn(hist, path) /\ UNCHANGED found
        \/ graph' = GraphOf(p) /\ found' = p /\ hist' = DiscoveredIn(hist, p)
  BY DEF Rederive, Adopt
<1>3. ASSUME Touches(hist, hist', {"meta"}), MemoryIsPersisted'
      PROVE  RepoInv(world)'
  <2>1. HistInv(hist')
    BY <1>0, <1>3, RowsAreKept DEF Renames
  <2>2. hist'.changes = hist.changes
    BY <1>0, <1>3 DEF Touches, Tables, EmptyDb
  <2>3. BaselineIsRecorded'
    <3>1. \A f : LatestChange(hist', f) = LatestChange(hist, f)
      BY <2>2 DEF LatestChange
    <3>. QED BY <3>1, <2>2, <1>0, <1>1 DEF BaselineIsRecorded
  <2>. QED BY <1>1, <1>3, <2>1, <2>3, StepIsSound DEF RepoInv
<1>4. CASE UNCHANGED <<graph, found, hist>>
  BY <1>0, <1>1, <1>3, <1>4 DEF MemoryIsPersisted, Touches
<1>5. CASE graph' = GraphOf(path) /\ hist' = AdoptedIn(hist, path) /\ UNCHANGED found
  <2>1. /\ Touches(hist, hist', {"meta"}) /\ Values(hist', "ciGraph") = {graph'}
        /\ \A k : k # "ciGraph" => Values(hist', k) = Values(hist, k)
    BY <1>0, <1>5, SetMetaPersists DEF AdoptedIn
  <2>. QED BY <1>0, <1>1, <1>3, <1>5, <2>1 DEF MemoryIsPersisted
<1>6. CASE graph' = GraphOf(p) /\ found' = p /\ hist' = DiscoveredIn(hist, p)
  <2>. DEFINE mid == SetMeta(hist, "discoveredWorkflowPath", p)
  <2>1. /\ Touches(hist, mid, {"meta"}) /\ Values(mid, "discoveredWorkflowPath") = {p}
        /\ \A k : k # "discoveredWorkflowPath" => Values(mid, k) = Values(hist, k)
    BY <1>0, SetMetaPersists
  <2>. HIDE DEF mid
  <2>2. DOMAIN mid = Tables
    BY <1>0, <2>1 DEF Touches
  <2>3. hist' = SetMeta(mid, "ciGraph", GraphOf(p))
    BY <1>6 DEF DiscoveredIn, AdoptedIn, mid
  <2>4. /\ Touches(mid, hist', {"meta"}) /\ Values(hist', "ciGraph") = {graph'}
        /\ \A k : k # "ciGraph" => Values(hist', k) = Values(mid, k)
    BY <1>6, <2>2, <2>3, SetMetaPersists
  <2>5. Touches(hist, hist', {"meta"})
    BY <2>1, <2>4, TouchesTwice
  <2>6. MemoryIsPersisted'
    BY <1>0, <1>1, <1>6, <2>1, <2>4 DEF MemoryIsPersisted
  <2>. QED BY <1>3, <2>5, <2>6
<1>. QED BY <1>2, <1>4, <1>5, <1>6, <1>3, <1>0 DEF Touches

(***************************************************************************)
(* What is learned.                                                        *)
(***************************************************************************)
LEMMA FiniteImage ==
  ASSUME NEW S, IsFiniteSet(S), NEW f, DOMAIN f = S, f = [x \in S |-> f[x]]
  PROVE  IsFiniteSet({f[x] : x \in S})
<1>. DEFINE T == {f[x] : x \in S}
<1>1. f \in [S -> T] /\ \A y \in T : \E x \in S : f[x] = y
  OBVIOUS
<1>. HIDE DEF T
<1>2. f \in Surjection(S, T)
  BY <1>1 DEF Surjection
<1>3. IsFiniteSet(T)
  BY <1>2, FS_Surjection
<1>. QED BY <1>3 DEF T

\* Finitely many jobs run on finitely many pools.
LEMMA PoolsAreFinite ==
  ASSUME NEW jobs, IsFiniteSet(jobs)
  PROVE  IsFiniteSet(ResolveJobs(jobs))
<1>. DEFINE pool(j) == ResolveJobPool(j)
            known == {j \in jobs : pool(j).pool # UnknownPool}
            callers == {j.caller : j \in {k \in known : k.child # None}}
                         \ {j.caller : j \in {k \in known : k.child = None}}
            children(c) == {j \in known : j.caller = c /\ j.child # None}
            own == {k \in jobs : k.child # None \/ k.caller \notin callers}
            ofJob(j) == [name |-> <<j.caller, j.child>>, pool |-> pool(j).pool, hosted |-> pool(j).hosted]
            ofCall(c) == [name |-> <<c, None>>, pool |-> UNION {pool(j).pool : j \in children(c)},
                          hosted |-> \E j \in children(c) : pool(j).hosted]
            f == [j \in own |-> ofJob(j)]
            g == [c \in callers |-> ofCall(c)]
            called == {k \in known : k.child # None}
            h == [j \in called |-> j.caller]
<1>1. ResolveJobs(jobs) = {ofJob(j) : j \in own} \cup {ofCall(c) : c \in callers}
  BY DEF ResolveJobs
<1>2. {ofJob(j) : j \in own} = {f[j] : j \in own}
  OBVIOUS
<1>3. {ofCall(c) : c \in callers} = {g[c] : c \in callers}
  OBVIOUS
<1>4. IsFiniteSet(own) /\ IsFiniteSet(called)
  <2>1. own \subseteq jobs /\ called \subseteq jobs
    OBVIOUS
  <2>. HIDE DEF own, called
  <2>. QED BY <2>1, FS_Subset
<1>5. IsFiniteSet(callers)
  <2>1. IsFiniteSet({h[j] : j \in called})
    <3>1. DOMAIN h = called /\ h = [j \in called |-> h[j]]
      OBVIOUS
    <3>. HIDE DEF h, called
    <3>. QED BY <3>1, <1>4, FiniteImage
  <2>2. callers \subseteq {h[j] : j \in called}
    OBVIOUS
  <2>. HIDE DEF callers, h, called
  <2>. QED BY <2>1, <2>2, FS_Subset
<1>6. IsFiniteSet({f[j] : j \in own})
  <2>1. DOMAIN f = own /\ f = [j \in own |-> f[j]]
    OBVIOUS
  <2>. HIDE DEF f, own
  <2>. QED BY <2>1, <1>4, FiniteImage
<1>7. IsFiniteSet({g[c] : c \in callers})
  <2>1. DOMAIN g = callers /\ g = [c \in callers |-> g[c]]
    OBVIOUS
  <2>. HIDE DEF g, callers
  <2>. QED BY <2>1, <1>5, FiniteImage
<1>8. ResolveJobs(jobs) = {f[j] : j \in own} \cup {g[c] : c \in callers}
  <2>. HIDE DEF own, callers, f, g, ofJob, ofCall
  <2>. QED BY <1>1, <1>2, <1>3
<1>. HIDE DEF own, callers, f, g
<1>. QED BY <1>6, <1>7, <1>8, FS_Union

\* A batch of runs writes pools.
LEMMA FetchTouches ==
  ASSUME NEW world, World(world), HistInv(hist), NEW runs \in SUBSET DOMAIN world.jobsOf, NEW event, NEW now,
         FetchPools(runs, world.jobsOf, event, now)
  PROVE  HistInv(hist') /\ Touches(hist, hist', {"pools"})
<1>1. PICK answered \in SUBSET runs :
        LET pools == UNION {ResolveJobs(world.jobsOf[r]) : r \in answered}
        IN hist' = RecordPools(hist, event, {p \in pools : p.name[2] = None}, now)
  BY DEF FetchPools
<1>. DEFINE pools == UNION {ResolveJobs(world.jobsOf[r]) : r \in answered}
            some == {p \in pools : p.name[2] = None}
            f == [r \in answered |-> ResolveJobs(world.jobsOf[r])]
<1>2. IsFiniteSet(some)
  <2>1. answered \subseteq DOMAIN world.jobsOf
    OBVIOUS
  <2>2. IsFiniteSet(answered) /\ \A r \in answered : IsFiniteSet(ResolveJobs(world.jobsOf[r]))
    BY <2>1, FS_Subset, PoolsAreFinite DEF World
  <2>3. IsFiniteSet({f[r] : r \in answered})
    <3>1. DOMAIN f = answered /\ f = [r \in answered |-> f[r]]
      OBVIOUS
    <3>. HIDE DEF f
    <3>. QED BY <3>1, <2>2, FiniteImage
  <2>4. {ResolveJobs(world.jobsOf[r]) : r \in answered} = {f[r] : r \in answered}
    OBVIOUS
  <2>5. IsFiniteSet({ResolveJobs(world.jobsOf[r]) : r \in answered})
    BY <2>3, <2>4
  <2>6. \A T \in {ResolveJobs(world.jobsOf[r]) : r \in answered} : IsFiniteSet(T)
    BY <2>2
  <2>7. IsFiniteSet(pools)
    BY <2>5, <2>6, FS_UNION
  <2>. HIDE DEF pools
  <2>. QED BY <2>7, FS_Subset
<1>3. DOMAIN hist = Tables /\ \A r \in hist.pools : PoolRow(r)
  BY DEF HistInv
<1>. HIDE DEF some
<1>4. Touches(hist, hist', {"pools"}) /\ \A r \in hist'.pools : PoolRow(r)
  BY <1>1, <1>2, <1>3, PoolsAreRecorded DEF some
<1>5. /\ hist'.durations = hist.durations /\ hist'.runnerWaits = hist.runnerWaits
      /\ hist'.failures = hist.failures /\ hist'.aliases = hist.aliases /\ DOMAIN hist' = Tables
  BY <1>3, <1>4 DEF Touches, Tables, EmptyDb
<1>. QED BY <1>4, <1>5 DEF HistInv

\* What is learned of pools, checks and scheduled runs touches tables of its own.
LEMMA PoolSteps ==
  ASSUME NEW world, World(world), RepoInv(world), NEW now, NEW event, NEW checks \in SUBSET world.checks,
         \/ LearnPushPools(DOMAIN world.jobsOf, world.jobsOf, now)
         \/ LearnPoolsFromChecks(checks, world.jobsOf, event, now)
  PROVE  RepoInv(world)' /\ Touches(hist, hist', {"pools"})
<1>0. /\ HistInv(hist) /\ DOMAIN hist = Tables /\ MemoryIsPersisted /\ BaselineIsRecorded
  BY DEF RepoInv, HistInv
<1>1. UNCHANGED <<file, workflows, access, fileConfig, graph, found, baseline, scheduledFiles>>
  BY DEF LearnPushPools, LearnPoolsFromChecks, remote, lane
<1>2. \E e : \E runs \in SUBSET DOMAIN world.jobsOf : FetchPools(runs, world.jobsOf, e, now)
  <2>1. CASE LearnPushPools(DOMAIN world.jobsOf, world.jobsOf, now)
    <3>1. PICK runs \in Batches(DOMAIN world.jobsOf \ recent, MaxPushRuns) : FetchPools(runs, world.jobsOf, "push", now)
      BY <2>1 DEF LearnPushPools
    <3>. QED BY <3>1 DEF Batches
  <2>2. CASE LearnPoolsFromChecks(checks, world.jobsOf, event, now)
    <3>1. PICK runs \in Batches(RunsToFetch(checks), MaxJobsFetches) : FetchPools(runs, world.jobsOf, event, now)
      BY <2>2 DEF LearnPoolsFromChecks
    <3>2. RunsToFetch(checks) \subseteq DOMAIN world.jobsOf
      BY DEF RunsToFetch, World
    <3>. QED BY <3>1, <3>2 DEF Batches
  <2>. QED BY <2>1, <2>2
<1>3. HistInv(hist') /\ Touches(hist, hist', {"pools"})
  BY <1>0, <1>2, FetchTouches
<1>4. MemoryIsPersisted' /\ BaselineIsRecorded'
  BY <1>0, <1>1, <1>3, MemoryIsKept
<1>. QED BY <1>1, <1>3, <1>4, StepIsSound DEF RepoInv

\* The scheduled lane writes runs.
LEMMA ScheduledSteps ==
  ASSUME NEW world, World(world), RepoInv(world), NEW now,
         RefreshScheduled(world.files, world.runsOf, now) \/ RefreshScheduledPaused(world.runsOf)
  PROVE  RepoInv(world)' /\ Touches(hist, hist', {"scheduled"})
<1>0. /\ HistInv(hist) /\ DOMAIN hist = Tables /\ MemoryIsPersisted /\ BaselineIsRecorded
      /\ scheduledFiles \subseteq {f.path : f \in world.files}
  BY DEF RepoInv, HistInv
<1>1. UNCHANGED <<file, workflows, access, fileConfig, graph, found, baseline>>
  BY DEF RefreshScheduled, RefreshScheduledPaused, remote
<1>2. ParseScheduledWorkflows(world.files) \subseteq {f.path : f \in world.files}
  BY DEF ParseScheduledWorkflows
<1>3. /\ scheduledFiles' \subseteq {f.path : f \in world.files}
      /\ \E answered \in SUBSET {f.path : f \in world.files} :
           hist' = RecordScheduledRuns(hist, UNION {world.runsOf[w] : w \in answered})
  <2>1. CASE RefreshScheduledPaused(world.runsOf)
    BY <2>1, <1>0 DEF RefreshScheduledPaused, learned, lane
  <2>2. CASE RefreshScheduled(world.files, world.runsOf, now)
    <3>1. PICK known \in {scheduledFiles, ParseScheduledWorkflows(world.files)} :
            /\ scheduledFiles' = known
            /\ \E answered \in SUBSET known :
                 hist' = RecordScheduledRuns(hist, UNION {world.runsOf[w] : w \in answered})
      BY <2>2 DEF RefreshScheduled
    <3>. QED BY <3>1, <1>0, <1>2
  <2>. QED BY <2>1, <2>2
<1>4. PICK answered \in SUBSET {f.path : f \in world.files} :
        hist' = RecordScheduledRuns(hist, UNION {world.runsOf[w] : w \in answered})
  BY <1>3
<1>. DEFINE paths == {f.path : f \in world.files}
            p == [f \in world.files |-> f.path]
            q == [w \in answered |-> world.runsOf[w]]
            runs == UNION {world.runsOf[w] : w \in answered}
<1>5. IsFiniteSet(runs)
  <2>1. IsFiniteSet({p[f] : f \in world.files})
    <3>1. DOMAIN p = world.files /\ p = [f \in world.files |-> p[f]]
      OBVIOUS
    <3>. HIDE DEF p
    <3>. QED BY <3>1, FiniteImage DEF World
  <2>2. answered \subseteq {p[f] : f \in world.files}
    OBVIOUS
  <2>3. IsFiniteSet(answered)
    <3>. HIDE DEF p
    <3>. QED BY <2>1, <2>2, FS_Subset
  <2>4. IsFiniteSet({q[w] : w \in answered})
    <3>1. DOMAIN q = answered /\ q = [w \in answered |-> q[w]]
      OBVIOUS
    <3>. HIDE DEF q
    <3>. QED BY <3>1, <2>3, FiniteImage
  <2>5. {world.runsOf[w] : w \in answered} = {q[w] : w \in answered}
    OBVIOUS
  <2>6. \A T \in {world.runsOf[w] : w \in answered} : IsFiniteSet(T)
    BY DEF World
  <2>7. IsFiniteSet({world.runsOf[w] : w \in answered})
    BY <2>4, <2>5
  <2>. QED BY <2>6, <2>7, FS_UNION
<1>. HIDE DEF runs
<1>6. Touches(hist, hist', {"scheduled"})
  BY <1>0, <1>4, <1>5, RunsAreRecorded DEF runs
<1>7. HistInv(hist')
  BY <1>0, <1>6, RowsAreKept DEF Renames
<1>8. MemoryIsPersisted' /\ BaselineIsRecorded'
  BY <1>0, <1>1, <1>6, MemoryIsKept
<1>. QED BY <1>1, <1>3, <1>6, <1>7, <1>8, StepIsSound

(***************************************************************************)
(* What a check that ran leaves behind.                                    *)
(***************************************************************************)
\* A run that is recorded already is not recorded again.
LEMMA DurationIsRecorded ==
  ASSUME NEW db, HistInv(db), NEW name, NEW event, NEW at \in Nat, NEW conclusion, NEW sha, NEW attempt
  PROVE  LET after == RecordCheckDuration(db, name, event, at - 1, at, conclusion, sha, attempt, 1)
         IN HistInv(after) /\ Touches(db, after, {"durations"})
<1>. DEFINE row == [name |-> name, event |-> event, secs |-> at - (at - 1), at |-> at,
                    conclusion |-> conclusion, sha |-> sha, attempt |-> attempt,
                    started |-> at - 1, run |-> 1]
            after == InsertOrIgnore(db, "durations", row)
<1>1. RecordCheckDuration(db, name, event, at - 1, at, conclusion, sha, attempt, 1) \in {db, after}
  BY DEF RecordCheckDuration
<1>2. HistInv(db) /\ Touches(db, db, {"durations"})
  BY DEF Touches
<1>3. "durations" \in DOMAIN db /\ DOMAIN db = Tables
  BY DEF HistInv, Tables, EmptyDb
<1>4. DurationRow(row)
  BY DEF DurationRow
<1>5. Clashes(db, "durations", row) = {r \in db.durations : <<r.name, r.event, r.at>> = <<row.name, row.event, row.at>>}
  BY DEF Clashes, UniqueKey
<1>. HIDE DEF row
<1>6. CASE Clashes(db, "durations", row) # {}
  <2>1. after = db
    BY <1>6 DEF InsertOrIgnore
  <2>. QED BY <1>1, <1>2, <2>1
<1>7. CASE Clashes(db, "durations", row) = {}
  <2>1. after = [db EXCEPT !["durations"] = db.durations \cup {row}]
    BY <1>7 DEF InsertOrIgnore
  <2>2. Touches(db, after, {"durations"}) /\ after.durations = db.durations \cup {row}
    BY <1>3, <2>1 DEF Touches
  <2>. HIDE DEF after
  <2>3. /\ after.runnerWaits = db.runnerWaits /\ after.pools = db.pools
        /\ after.failures = db.failures /\ after.aliases = db.aliases /\ DOMAIN after = Tables
    BY <1>3, <2>2 DEF Touches, Tables, EmptyDb
  <2>4. IsFiniteSet(after.durations) /\ \A r \in after.durations : DurationRow(r)
    BY <1>4, <2>2, FS_AddElement DEF HistInv
  <2>5. \A r \in db.durations : ~SameRun(r, row) /\ ~SameRun(row, r)
    BY <1>5, <1>7 DEF SameRun
  <2>6. Unique(after.durations)
    BY <2>2, <2>5 DEF Unique, HistInv
  <2>7. HistInv(after)
    BY <2>3, <2>4, <2>6 DEF HistInv
  <2>. QED BY <1>1, <1>2, <2>2, <2>7
<1>. QED BY <1>6, <1>7

\* A wait and a failure are rows of their tables.
LEMMA WaitIsRecorded ==
  ASSUME NEW db, HistInv(db), NEW name, NEW event, NEW wait, NEW started, NEW pool
  PROVE  LET after == RecordRunnerWait(db, name, event, wait, started, pool)
         IN HistInv(after) /\ Touches(db, after, {"runnerWaits"})
<1>. DEFINE row == [name |-> name, event |-> event, wait |-> wait, started |-> started, pool |-> pool]
            after == InsertOrIgnore(db, "runnerWaits", row)
<1>1. RecordRunnerWait(db, name, event, wait, started, pool) \in {db, after}
  BY DEF RecordRunnerWait
<1>2. HistInv(db) /\ Touches(db, db, {"runnerWaits"})
  BY DEF Touches
<1>3. "runnerWaits" \in DOMAIN db /\ DOMAIN db = Tables
  BY DEF HistInv, Tables, EmptyDb
<1>4. WaitRow(row)
  BY DEF WaitRow
<1>. HIDE DEF row
<1>5. Touches(db, after, {"runnerWaits"}) /\ after.runnerWaits \in {db.runnerWaits, db.runnerWaits \cup {row}}
  BY <1>3, InsertTouches
<1>. HIDE DEF after
<1>6. /\ after.durations = db.durations /\ after.pools = db.pools
      /\ after.failures = db.failures /\ after.aliases = db.aliases /\ DOMAIN after = Tables
  BY <1>3, <1>5 DEF Touches, Tables, EmptyDb
<1>7. \A r \in after.runnerWaits : WaitRow(r)
  BY <1>4, <1>5 DEF HistInv
<1>8. HistInv(after)
  BY <1>6, <1>7 DEF HistInv
<1>. QED BY <1>1, <1>2, <1>5, <1>8

LEMMA FailureIsRecorded ==
  ASSUME NEW db, HistInv(db), NEW name, NEW sha, NEW at, NEW conclusion
  PROVE  LET after == RecordGroupFailure(db, name, sha, at, conclusion)
         IN HistInv(after) /\ Touches(db, after, {"failures"})
<1>. DEFINE row == [name |-> name, sha |-> sha, at |-> at, conclusion |-> conclusion]
            after == InsertOrIgnore(db, "failures", row)
<1>1. RecordGroupFailure(db, name, sha, at, conclusion) \in {db, after}
  BY DEF RecordGroupFailure
<1>2. HistInv(db) /\ Touches(db, db, {"failures"})
  BY DEF Touches
<1>3. "failures" \in DOMAIN db /\ DOMAIN db = Tables
  BY DEF HistInv, Tables, EmptyDb
<1>4. FailureRow(row)
  BY DEF FailureRow
<1>. HIDE DEF row
<1>5. Touches(db, after, {"failures"}) /\ after.failures \in {db.failures, db.failures \cup {row}}
  BY <1>3, InsertTouches
<1>. HIDE DEF after
<1>6. /\ after.durations = db.durations /\ after.pools = db.pools
      /\ after.runnerWaits = db.runnerWaits /\ after.aliases = db.aliases /\ DOMAIN after = Tables
  BY <1>3, <1>5 DEF Touches, Tables, EmptyDb
<1>7. \A r \in after.failures : FailureRow(r)
  BY <1>4, <1>5 DEF HistInv
<1>8. HistInv(after)
  BY <1>6, <1>7 DEF HistInv
<1>. QED BY <1>1, <1>2, <1>5, <1>8

\* A check or a merge group that ran.
LEMMA RanStep ==
  ASSUME NEW world, World(world), RepoInv(world),
         \/ \E c \in world.ran : CheckRan(c.name, c.at, c.conclusion, c.sha, c.attempt)
         \/ \E c \in world.failed : GroupFailed(c.name, c.at, c.sha)
  PROVE  RepoInv(world)' /\ Touches(hist, hist', {"durations", "runnerWaits", "failures"})
<1>0. /\ HistInv(hist) /\ DOMAIN hist = Tables /\ MemoryIsPersisted /\ BaselineIsRecorded
  BY DEF RepoInv, HistInv
<1>1. UNCHANGED <<file, workflows, access, fileConfig, graph, found, baseline, scheduledFiles>>
  BY DEF CheckRan, GroupFailed, remote, learned, lane
<1>2. HistInv(hist') /\ Touches(hist, hist', {"durations", "runnerWaits", "failures"})
  <2>1. ASSUME NEW c \in world.ran, CheckRan(c.name, c.at, c.conclusion, c.sha, c.attempt)
        PROVE  HistInv(hist') /\ Touches(hist, hist', {"durations", "runnerWaits"})
    <3>. DEFINE mid == RecordCheckDuration(hist, c.name, "pull_request", c.at - 1, c.at, c.conclusion, c.sha, c.attempt, 1)
    <3>1. c.at \in Nat
      BY DEF World
    <3>2. HistInv(mid) /\ Touches(hist, mid, {"durations"})
      BY <1>0, <3>1, DurationIsRecorded
    <3>3. hist' = RecordRunnerWait(mid, c.name, "pull_request", c.at - 1, c.at - 1, None)
      BY <2>1 DEF CheckRan
    <3>. HIDE DEF mid
    <3>4. HistInv(hist') /\ Touches(mid, hist', {"runnerWaits"})
      BY <3>2, <3>3, WaitIsRecorded
    <3>. QED BY <3>2, <3>4 DEF Touches
  <2>2. ASSUME NEW c \in world.failed, GroupFailed(c.name, c.at, c.sha)
        PROVE  HistInv(hist') /\ Touches(hist, hist', {"failures"})
    BY <1>0, <2>2, FailureIsRecorded DEF GroupFailed
  <2>. QED BY <2>1, <2>2 DEF Touches
<1>3. MemoryIsPersisted' /\ BaselineIsRecorded'
  BY <1>0, <1>1, <1>2, MemoryIsKept
<1>. QED BY <1>0, <1>1, <1>2, <1>3, StepIsSound DEF RepoInv

(***************************************************************************)
(* A restart.                                                              *)
(***************************************************************************)
LEMMA GetMetaReads ==
  ASSUME NEW db, NEW key
  PROVE  /\ Values(db, key) = {} => GetMeta(db, key) = None
         /\ \A v : Values(db, key) = {v} => GetMeta(db, key) = v
<1>. DEFINE rows == {r \in db.meta : r.key = key}
            r0 == CHOOSE r \in rows : TRUE
<1>1. Values(db, key) = {r.value : r \in rows}
  BY DEF Values
<1>2. GetMeta(db, key) = IF rows = {} THEN None ELSE r0.value
  BY DEF GetMeta
<1>3. rows # {} => r0 \in rows
  OBVIOUS
<1>. HIDE DEF rows, r0
<1>. QED BY <1>1, <1>2, <1>3

\* What a restart would load of the meta table is what is held.
LEMMA MetaIsLoaded ==
  ASSUME MemoryIsPersisted
  PROVE  RestoredConfig = fileConfig /\ RestoredGraph = graph /\ GetMeta(hist, "discoveredWorkflowPath") = found
<1>1. \A key : Persisted(key) = Values(hist, key)
  BY DEF Persisted, Values
<1>2. RestoredConfig = fileConfig
  BY <1>1 DEF RestoredConfig, MemoryIsPersisted
<1>3. RestoredGraph = graph
  BY <1>1 DEF RestoredGraph, MemoryIsPersisted
<1>4. GetMeta(hist, "discoveredWorkflowPath") = found
  BY GetMetaReads DEF MemoryIsPersisted
<1>. QED BY <1>2, <1>3, <1>4

\* A knob with a row of changes has a last one.
LEMMA HasLatestChange ==
  ASSUME BaselineIsRecorded, NEW q \in hist.changes
  PROVE  LatestChange(hist, q.field) # {}
<1>. DEFINE rows == {r \in hist.changes : r.field = q.field}
            dates == {r.at : r \in rows}
<1>1. Cardinality(hist.changes) \in Nat
  BY FS_CardinalityType DEF BaselineIsRecorded
<1>2. dates \subseteq Nat /\ dates # {} /\ \A x \in dates : x <= Cardinality(hist.changes)
  BY <1>1 DEF BaselineIsRecorded
<1>3. Max(dates) \in dates /\ \A x \in dates : x <= Max(dates)
  BY <1>1, <1>2, HasMax
<1>4. PICK r \in rows : r.at = Max(dates)
  BY <1>3
<1>5. \A s \in hist.changes : s.field = q.field => s.at <= r.at
  BY <1>3, <1>4
<1>6. r \in LatestChange(hist, q.field)
  BY <1>5 DEF LatestChange
<1>. QED BY <1>6

\* What a restart would compare with is what is compared with.
LEMMA BaselineIsLoaded ==
  ASSUME BaselineIsRecorded
  PROVE  /\ DOMAIN RestoredBaseline = {r.field : r \in hist.changes}
         /\ \A f \in DOMAIN RestoredBaseline :
              /\ f \in DOMAIN baseline /\ RestoredBaseline[f] = baseline[f]
              /\ \A r \in LatestChange(hist, f) : r.new = RestoredBaseline[f]
<1>1. DOMAIN RestoredBaseline = {r.field : r \in hist.changes}
  BY DEF RestoredBaseline, LatestConfigValues
<1>. SUFFICES ASSUME NEW f \in DOMAIN RestoredBaseline
              PROVE  /\ f \in DOMAIN baseline /\ RestoredBaseline[f] = baseline[f]
                     /\ \A r \in LatestChange(hist, f) : r.new = RestoredBaseline[f]
  BY <1>1
<1>2. PICK q \in hist.changes : q.field = f
  BY <1>1
<1>3. f \in DOMAIN baseline /\ \A r \in LatestChange(hist, f) : r.new = baseline[f]
  BY <1>2 DEF BaselineIsRecorded
<1>4. LatestChange(hist, f) # {}
  BY <1>2, HasLatestChange
<1>. DEFINE last == CHOOSE r \in LatestChange(hist, f) : TRUE
<1>5. last \in LatestChange(hist, f)
  BY <1>4
<1>6. RestoredBaseline[f] = last.new
  BY <1>1 DEF RestoredBaseline, LatestConfigValues
<1>. HIDE DEF last
<1>. QED BY <1>3, <1>5, <1>6

\* A restart holds what was held.
LEMMA RestoreStep ==
  ASSUME NEW world, RepoInv(world), RestorePersisted
  PROVE  RepoInv(world)' /\ hist' = hist
<1>0. /\ HistInv(hist) /\ MemoryIsPersisted /\ BaselineIsRecorded
  BY DEF RepoInv
<1>1. /\ UNCHANGED <<file, workflows, access, hist>> /\ scheduledFiles' = {}
      /\ fileConfig' = RestoredConfig /\ graph' = RestoredGraph
      /\ found' = GetMeta(hist, "discoveredWorkflowPath") /\ baseline' = RestoredBaseline
  BY DEF RestorePersisted, remote, chosen
<1>2. fileConfig' = fileConfig /\ graph' = graph /\ found' = found
  BY <1>0, <1>1, MetaIsLoaded
<1>3. MemoryIsPersisted'
  BY <1>0, <1>1, <1>2 DEF MemoryIsPersisted
<1>4. /\ DOMAIN baseline' = {r.field : r \in hist.changes}
      /\ \A f \in DOMAIN baseline' : f \in DOMAIN baseline /\ \A r \in LatestChange(hist, f) : r.new = baseline'[f]
  BY <1>0, <1>1, BaselineIsLoaded
<1>5. \A f : LatestChange(hist', f) = LatestChange(hist, f)
  BY <1>1
<1>6. BaselineIsRecorded'
  BY <1>0, <1>1, <1>4, <1>5 DEF BaselineIsRecorded
<1>. QED BY <1>0, <1>1, <1>3, <1>6, StepIsSound

LEMMA RepoStart ==
  ASSUME NEW world, RepoInit PROVE RepoInv(world)
<1>1. /\ hist = EmptyDb /\ fileConfig = NoFile /\ file = NoFile /\ graph = {} /\ found = None
      /\ scheduledFiles = {} /\ baseline = [f \in {} |-> None]
  BY DEF RepoInit
<1>2. IsFiniteSet({})
  BY FS_EmptySet
<1>3. HistInv(hist)
  BY <1>1, <1>2 DEF HistInv, Tables, EmptyDb, Unique
<1>4. ForwardAliases(file.aliases)
  <2>1. file.aliases = <<>> /\ DOMAIN <<>> = 1 .. 0
    BY <1>1 DEF NoFile, Content
  <2>. QED BY <2>1 DEF ForwardAliases
<1>5. \A k : Values(hist, k) = {}
  BY <1>1 DEF Values, EmptyDb
<1>6. MemoryIsPersisted
  BY <1>1, <1>5 DEF MemoryIsPersisted
<1>7. BaselineIsRecorded
  BY <1>1, <1>2 DEF BaselineIsRecorded, EmptyDb
<1>. QED BY <1>1, <1>3, <1>4, <1>6, <1>7 DEF RepoInv

\* Every step.
LEMMA RepoStep ==
  ASSUME NEW world, World(world), RepoInv(world), [RepoNext(world)]_repoVars
  PROVE  RepoInv(world)'
<1>1. \/ FileMoves(world.contents) \/ WorkflowMoves \/ AccessMoves
      \/ InstanceMoves(world.choices) \/ ExcludeMoves
      \/ WaitsRunOut(10) \/ WaitsRunOut(LongWait) \/ RecentRunsExpire \/ UNCHANGED repoVars
      \/ RefreshRepoConfigs \/ DetectConfigChanges \/ Rederive \/ RestorePersisted
      \/ RefreshScheduledPaused(world.runsOf)
      \/ \E now : RefreshScheduled(world.files, world.runsOf, now)
      \/ \E now : LearnPushPools(DOMAIN world.jobsOf, world.jobsOf, now)
      \/ \E now, event : \E checks \in SUBSET world.checks : LearnPoolsFromChecks(checks, world.jobsOf, event, now)
      \/ \E c \in world.ran : CheckRan(c.name, c.at, c.conclusion, c.sha, c.attempt)
      \/ \E c \in world.failed : GroupFailed(c.name, c.at, c.sha)
  BY DEF RepoNext
<1>. QED BY <1>1, OutsideStep, RefreshStep, DetectStep, RederiveStep, RestoreStep, ScheduledSteps, PoolSteps, RanStep

\* A restart loads what the process held, whatever happened to the repository
\* before (restorePersisted).
THEOREM RestartsLoseNothing ==
  ASSUME NEW CONSTANT world, World(world)
  PROVE  RepoSpec(world) => []PersistedIsLoaded
<1>1. RepoInit => RepoInv(world)
  BY RepoStart
<1>2. RepoInv(world) /\ [RepoNext(world)]_repoVars => RepoInv(world)'
  BY RepoStep
<1>3. RepoInv(world) => PersistedIsLoaded
  <2>. SUFFICES ASSUME RepoInv(world) PROVE PersistedIsLoaded
    OBVIOUS
  <2>1. MemoryIsPersisted /\ BaselineIsRecorded
    BY DEF RepoInv
  <2>. QED BY <2>1, MetaIsLoaded, BaselineIsLoaded DEF PersistedIsLoaded
<1>. QED BY <1>1, <1>2, <1>3, PTL DEF RepoSpec

(***************************************************************************)
(* Renames.                                                                *)
(***************************************************************************)
\* A fold moves a history whole, and a file that folds nothing leaves it alone.
MovesAll(before, after, configured) ==
  LET folded == after.aliases \ before.aliases
      olds   == {a.old : a \in folded}
  IN /\ folded # {} => KeepsHistory(before, after) /\ NamesIn(after) \cap olds = {}
     /\ configured /\ folded = {} =>
          /\ after.durations = before.durations /\ after.runnerWaits = before.runnerWaits
          /\ after.pools = before.pools /\ after.failures = before.failures

\* A step that folds nothing keeps the configuration or the history.
LEMMA OtherStepsFoldNothing ==
  ASSUME NEW before, NEW after, NEW some, NEW configured, DOMAIN before = Tables, Touches(before, after, some),
         "aliases" \notin some, configured => some \cap Renames = {}
  PROVE  MovesAll(before, after, configured)
<1>1. after.aliases = before.aliases
  BY DEF Touches, Tables, EmptyDb
<1>2. configured => /\ after.durations = before.durations /\ after.runnerWaits = before.runnerWaits
                    /\ after.pools = before.pools /\ after.failures = before.failures
  BY DEF Touches, Tables, EmptyDb, Renames
<1>. QED BY <1>1, <1>2 DEF MovesAll

\* The fold that a loaded file starts, behind the row that persists the file.
LEMMA FoldMovesAll ==
  ASSUME NEW before, NEW mid, NEW after, NEW aliases, NEW configured, NEW k \in Nat,
         DOMAIN before = Tables, Touches(before, mid, {"meta"}),
         FoldedSoFar(mid, aliases, k, [ok |-> TRUE, db |-> after])
  PROVE  MovesAll(before, after, configured)
<1>. DEFINE folded == after.aliases \ before.aliases
            olds   == {a.old : a \in folded}
<1>1. /\ mid.durations = before.durations /\ mid.runnerWaits = before.runnerWaits
      /\ mid.pools = before.pools /\ mid.failures = before.failures /\ mid.aliases = before.aliases
  BY DEF Touches, Tables, EmptyDb
<1>2. /\ KeepsHistory(mid, after) /\ NamesIn(after) \cap GivenUp(mid, aliases, k) = {}
      /\ after.aliases = mid.aliases \cup Folded(mid, aliases, k)
      /\ PendingUpTo(mid, aliases, k) = {} => after = mid
  BY DEF FoldedSoFar
<1>3. \A i \in PendingUpTo(mid, aliases, k) : PairRow(aliases[i]) \notin mid.aliases
  BY DEF PendingUpTo
<1>4. folded = Folded(mid, aliases, k)
  BY <1>1, <1>2, <1>3 DEF Folded
<1>5. \A i \in PendingUpTo(mid, aliases, k) : PairRow(aliases[i]).old = aliases[i][1]
  BY DEF PairRow
<1>6. olds = GivenUp(mid, aliases, k)
  <2>1. \A a \in Folded(mid, aliases, k) : \E i \in PendingUpTo(mid, aliases, k) : a = PairRow(aliases[i])
    BY DEF Folded
  <2>2. \A i \in PendingUpTo(mid, aliases, k) : PairRow(aliases[i]) \in Folded(mid, aliases, k)
    BY DEF Folded
  <2>. HIDE DEF folded
  <2>. QED BY <1>4, <1>5, <2>1, <2>2 DEF GivenUp
<1>7. KeepsHistory(before, after)
  BY <1>1, <1>2 DEF KeepsHistory
<1>8. folded = {} => PendingUpTo(mid, aliases, k) = {}
  BY <1>4 DEF Folded
<1>. QED BY <1>1, <1>2, <1>6, <1>7, <1>8 DEF MovesAll

\* Of all steps only the load of a file folds.
LEMMA EveryStepMovesAll ==
  ASSUME NEW world, World(world), RepoInv(world), [RepoNext(world)]_repoVars
  PROVE  MovesAll(hist, hist', fileConfig' # fileConfig)
<1>0. HistInv(hist) /\ DOMAIN hist = Tables /\ ForwardAliases(file.aliases)
  BY DEF RepoInv, HistInv
<1>1. ASSUME hist' = hist
      PROVE  MovesAll(hist, hist', fileConfig' # fileConfig)
  BY <1>1 DEF MovesAll
<1>2. ASSUME Touches(hist, hist', {"meta"})
      PROVE  MovesAll(hist, hist', fileConfig' # fileConfig)
  BY <1>0, <1>2, OtherStepsFoldNothing DEF Renames
<1>3. CASE \/ FileMoves(world.contents) \/ WorkflowMoves \/ AccessMoves
           \/ InstanceMoves(world.choices) \/ ExcludeMoves
           \/ WaitsRunOut(10) \/ WaitsRunOut(LongWait) \/ RecentRunsExpire \/ UNCHANGED repoVars
  BY <1>1, <1>3, OutsideStep
<1>4. CASE RestorePersisted
  BY <1>1, <1>4, RestoreStep
<1>5. CASE Rederive
  BY <1>2, <1>5, RederiveStep
<1>6. CASE DetectConfigChanges
  <2>1. Touches(hist, hist', {"changes"})
    BY <1>6, DetectStep
  <2>. QED BY <1>0, <2>1, OtherStepsFoldNothing DEF Renames
<1>7. CASE \/ RefreshScheduledPaused(world.runsOf)
           \/ \E now : RefreshScheduled(world.files, world.runsOf, now)
  <2>1. Touches(hist, hist', {"scheduled"})
    BY <1>7, ScheduledSteps
  <2>. QED BY <1>0, <2>1, OtherStepsFoldNothing DEF Renames
<1>8. CASE \/ \E now : LearnPushPools(DOMAIN world.jobsOf, world.jobsOf, now)
           \/ \E now, event : \E checks \in SUBSET world.checks : LearnPoolsFromChecks(checks, world.jobsOf, event, now)
  <2>1. Touches(hist, hist', {"pools"})
    BY <1>8, PoolSteps
  <2>2. fileConfig' = fileConfig
    BY <1>8 DEF LearnPushPools, LearnPoolsFromChecks
  <2>. QED BY <1>0, <2>1, <2>2, OtherStepsFoldNothing DEF Renames
<1>9. CASE \/ \E c \in world.ran : CheckRan(c.name, c.at, c.conclusion, c.sha, c.attempt)
           \/ \E c \in world.failed : GroupFailed(c.name, c.at, c.sha)
  <2>1. Touches(hist, hist', {"durations", "runnerWaits", "failures"})
    BY <1>9, RanStep
  <2>2. fileConfig' = fileConfig
    BY <1>9 DEF CheckRan, GroupFailed
  <2>. QED BY <1>0, <2>1, <2>2, OtherStepsFoldNothing DEF Renames
<1>10. CASE RefreshRepoConfigs
  <2>1. CASE FileGone
    BY <1>0, <1>2, <2>1, DeleteMetaForgets DEF FileGone
  <2>2. CASE UNCHANGED <<fileConfig, hist>>
    BY <1>1, <2>2
  <2>3. CASE FileLoaded
    <3>. DEFINE mid == SetMeta(hist, "repoConfig", file)
    <3>1. Touches(hist, mid, {"meta"})
      BY <1>0, SetMetaPersists
    <3>2. hist' = ApplyCheckAliases(mid, file.aliases).db
      BY <2>3 DEF FileLoaded
    <3>. HIDE DEF mid
    <3>3. HistInv(mid)
      BY <1>0, <3>1, RowsAreKept DEF Renames
    <3>4. hist' = mid \/ \E k \in Nat : FoldedSoFar(mid, file.aliases, k, [ok |-> TRUE, db |-> hist'])
      BY <1>0, <3>2, <3>3, AliasesAreFolded
    <3>. QED BY <1>0, <1>2, <3>1, <3>4, FoldMovesAll
  <2>. QED BY <1>10, <2>1, <2>2, <2>3 DEF RefreshRepoConfigs
<1>. QED BY <1>3, <1>4, <1>5, <1>6, <1>7, <1>8, <1>9, <1>10 DEF RepoNext

\* No step loses a part of the history of a check that is renamed, or leaves a part
\* under a name that was given up (applyCheckAliases).
THEOREM RenamesLoseNothing ==
  ASSUME NEW CONSTANT world, World(world)
  PROVE  RepoSpec(world) => RenameMovesAll
<1>1. RepoInit => RepoInv(world)
  BY RepoStart
<1>2. RepoInv(world) /\ [RepoNext(world)]_repoVars => RepoInv(world)'
  BY RepoStep
<1>3. RepoInv(world) /\ [RepoNext(world)]_repoVars =>
        LET folded == hist'.aliases \ hist.aliases
            olds   == {a.old : a \in folded}
            kept(rows) == {<<r.event, r.at, r.secs, r.sha>> : r \in rows}
        IN /\ folded # {} =>
                /\ \A r \in hist'.durations \cup hist'.runnerWaits \cup hist'.pools \cup hist'.failures :
                     r.name \notin olds
                /\ kept(hist'.durations) = kept(hist.durations)
                /\ Cardinality(hist'.durations) = Cardinality(hist.durations)
                /\ {r.event : r \in hist'.pools} = {r.event : r \in hist.pools}
                /\ {r.sha : r \in hist'.failures} = {r.sha : r \in hist.failures}
           /\ fileConfig' # fileConfig /\ folded = {} =>
                UNCHANGED <<hist.durations, hist.runnerWaits, hist.pools, hist.failures>>
  <2>. SUFFICES ASSUME RepoInv(world), [RepoNext(world)]_repoVars
                PROVE  LET folded == hist'.aliases \ hist.aliases
                           olds   == {a.old : a \in folded}
                           kept(rows) == {<<r.event, r.at, r.secs, r.sha>> : r \in rows}
                       IN /\ folded # {} =>
                               /\ \A r \in hist'.durations \cup hist'.runnerWaits \cup hist'.pools \cup hist'.failures :
                                    r.name \notin olds
                               /\ kept(hist'.durations) = kept(hist.durations)
                               /\ Cardinality(hist'.durations) = Cardinality(hist.durations)
                               /\ {r.event : r \in hist'.pools} = {r.event : r \in hist.pools}
                               /\ {r.sha : r \in hist'.failures} = {r.sha : r \in hist.failures}
                          /\ fileConfig' # fileConfig /\ folded = {} =>
                               UNCHANGED <<hist.durations, hist.runnerWaits, hist.pools, hist.failures>>
    OBVIOUS
  <2>1. MovesAll(hist, hist', fileConfig' # fileConfig)
    BY EveryStepMovesAll
  <2>. QED BY <2>1 DEF MovesAll, KeepsHistory, NamesIn, Kept
<1>. QED BY <1>1, <1>2, <1>3, PTL DEF RepoSpec, RenameMovesAll

(***************************************************************************)
(* Incidents.                                                              *)
(***************************************************************************)
\* Elements placed by distinct numbers, each with its predecessor.
Placed(S, at, prev) ==
  /\ at \in [S -> Nat] /\ \A a, b \in S : at[a] = at[b] => a = b
  /\ \A a \in S : (\E q \in S : at[q] < at[a]) =>
       prev[a] \in S /\ at[prev[a]] < at[a] /\ \A o \in S : at[o] < at[a] => at[o] <= at[prev[a]]
\* The rising edges: the bad ones whose predecessor is not.
Rising(S, at, prev, bad, edges) ==
  \A a \in S : a \in edges <=> a \in bad /\ ((\E q \in S : at[q] < at[a]) => prev[a] \notin bad)

\* There is a rising edge if anything is bad, and there are no more of them than the
\* others can separate.
LEMMA RisingEdges ==
  ASSUME NEW S, IsFiniteSet(S), NEW at, NEW prev, Placed(S, at, prev),
         NEW bad \in SUBSET S, NEW edges \in SUBSET S, Rising(S, at, prev, bad, edges)
  PROVE  /\ Cardinality(edges) = 0 <=> bad = {}
         /\ Cardinality(edges) <= 1 + Cardinality(S \ bad)
<1>. USE DEF Placed, Rising
<1>. DEFINE inner == {a \in edges : \E q \in S : at[q] < at[a]}
            first == edges \ inner
            good  == S \ bad
            f     == [a \in inner |-> prev[a]]
<1>0. IsFiniteSet(edges) /\ IsFiniteSet(good) /\ inner \subseteq edges /\ IsFiniteSet(inner)
  BY FS_Subset
<1>1. ASSUME bad # {} PROVE edges # {}
  <2>. DEFINE dates == {at[b] : b \in bad}
  <2>1. dates \subseteq Nat /\ dates # {}
    BY <1>1
  <2>2. Min(dates) \in dates /\ \A x \in dates : Min(dates) <= x
    BY <2>1, HasMin
  <2>3. PICK m \in bad : at[m] = Min(dates)
    BY <2>2
  <2>4. \A b \in bad : at[m] <= at[b]
    BY <2>2, <2>3
  <2>5. ASSUME \E q \in S : at[q] < at[m] PROVE prev[m] \notin bad
    <3>1. m \in S /\ prev[m] \in S /\ at[prev[m]] < at[m] /\ at[prev[m]] \in Nat /\ at[m] \in Nat
      BY <2>5
    <3>. QED BY <3>1, <2>4
  <2>6. m \in edges
    BY <2>5
  <2>. QED BY <2>6
<1>2. edges \subseteq bad
  OBVIOUS
<1>3. Cardinality(edges) = 0 <=> edges = {}
  BY <1>0, FS_EmptySet
<1>4. f \in Injection(inner, good)
  <2>1. \A a \in inner : f[a] = prev[a] /\ a \in S /\ prev[a] \in good
    OBVIOUS
  <2>2. f \in [inner -> good]
    BY <2>1
  <2>3. ASSUME NEW a \in inner, NEW b \in inner, f[a] = f[b] PROVE a = b
    <3>1. /\ a \in S /\ b \in S /\ prev[a] = prev[b] /\ prev[a] \in S
          /\ at[prev[a]] < at[a] /\ at[prev[b]] < at[b]
          /\ at[a] \in Nat /\ at[b] \in Nat /\ at[prev[a]] \in Nat
      BY <2>1, <2>3
    <3>2. ~(at[a] < at[b])
      BY <3>1
    <3>3. ~(at[b] < at[a])
      BY <3>1
    <3>. QED BY <3>1, <3>2, <3>3
  <2>. HIDE DEF inner, good, f
  <2>. QED BY <2>2, <2>3 DEF Injection, IsInjective
<1>5. Cardinality(inner) <= Cardinality(good)
  <2>. HIDE DEF inner, good, f
  <2>. QED BY <1>0, <1>4, FS_Injection
<1>6. \A a, b \in first : a = b
  <2>. SUFFICES ASSUME NEW a \in first, NEW b \in first PROVE a = b
    OBVIOUS
  <2>1. a \in S /\ b \in S /\ ~(at[a] < at[b]) /\ ~(at[b] < at[a]) /\ at[a] \in Nat /\ at[b] \in Nat
    OBVIOUS
  <2>. QED BY <2>1
<1>7. Cardinality(edges) <= 1 + Cardinality(inner)
  <2>1. edges = inner \/ \E a \in first : edges = inner \cup {a}
    <3>1. edges = inner \cup first
      OBVIOUS
    <3>. HIDE DEF inner, first
    <3>. QED BY <3>1, <1>6
  <2>2. Cardinality(inner) \in Nat
    BY <1>0, FS_CardinalityType
  <2>. HIDE DEF inner, first
  <2>3. \A a : Cardinality(inner \cup {a}) \in {Cardinality(inner), Cardinality(inner) + 1}
    BY <1>0, FS_AddElement
  <2>. QED BY <2>1, <2>2, <2>3
<1>8. Cardinality(inner) \in Nat /\ Cardinality(good) \in Nat /\ Cardinality(edges) \in Nat
  BY <1>0, FS_CardinalityType
<1>. HIDE DEF inner, good
<1>9. Cardinality(edges) <= 1 + Cardinality(good)
  BY <1>5, <1>7, <1>8
<1>. QED BY <1>1, <1>2, <1>3, <1>9 DEF good

\* The verdicts of one series.
RowsOf(db, s) == {r \in Judged(db, 0) : r.name = s[1] /\ r.event = s[2]}
ShasOf(db, s) == {r.sha : r \in RowsOf(db, s)}
BadOf(db, s)  == {c \in ShasOf(db, s) : FailedForGood(RowsOf(db, s), c)}

\* Commits of a series are apart by their first verdicts.
LEMMA IncidentsAreStreaks ==
  ASSUME NEW db, HistInv(db), NEW s
  PROVE  /\ Incidents(db, 0, s[1], s[2]) = 0 <=> BadOf(db, s) = {}
         /\ Incidents(db, 0, s[1], s[2]) <= 1 + Cardinality(ShasOf(db, s) \ BadOf(db, s))
<1>. DEFINE rows == {r \in Judged(db, 0) : r.name = s[1] /\ r.event = s[2]}
            shas == {r.sha : r \in rows}
            firstAt(c) == Min({r.at : r \in {q \in rows : q.sha = c}})
            before(c)  == {q \in shas : firstAt(q) < firstAt(c)}
            previous(c) == CHOOSE q \in before(c) : \A o \in before(c) : firstAt(o) <= firstAt(q)
            edges == {c \in shas : /\ FailedForGood(rows, c)
                                   /\ before(c) # {} => ~FailedForGood(rows, previous(c))}
            bad == {c \in shas : FailedForGood(rows, c)}
            at == [c \in shas |-> firstAt(c)]
            prev == [c \in shas |-> previous(c)]
<1>1. Incidents(db, 0, s[1], s[2]) = Cardinality(edges)
  BY DEF Incidents
<1>2. rows \subseteq db.durations /\ \A r \in rows : r.name = s[1] /\ r.event = s[2]
  BY DEF Judged, Identifiable, Since
<1>3. rows = RowsOf(db, s) /\ shas = ShasOf(db, s) /\ bad = BadOf(db, s)
  BY DEF RowsOf, ShasOf, BadOf
<1>. HIDE DEF rows
<1>4. IsFiniteSet(rows) /\ (\A r \in rows : r.at \in Nat) /\ \A r, q \in rows : r.at = q.at => r = q
  <2>1. IsFiniteSet(rows)
    BY <1>2, FS_Subset DEF HistInv
  <2>2. \A r \in rows : DurationRow(r)
    BY <1>2 DEF HistInv
  <2>3. \A r, q \in rows : r.at = q.at => SameRun(r, q)
    BY <1>2 DEF SameRun
  <2>4. \A r, q \in rows : r.at = q.at => r = q
    BY <1>2, <2>3 DEF HistInv, Unique
  <2>. QED BY <2>1, <2>2, <2>4 DEF DurationRow
<1>5. IsFiniteSet(shas)
  <2>. DEFINE h == [r \in rows |-> r.sha]
  <2>1. DOMAIN h = rows /\ h = [r \in rows |-> h[r]] /\ shas = {h[r] : r \in rows}
    OBVIOUS
  <2>. HIDE DEF h, shas
  <2>2. IsFiniteSet({h[r] : r \in rows})
    BY <2>1, <1>4, FiniteImage
  <2>. QED BY <2>1, <2>2
<1>6. \A c \in shas : \E r \in rows : r.sha = c /\ r.at = firstAt(c) /\ firstAt(c) \in Nat
  <2>. SUFFICES ASSUME NEW c \in shas PROVE \E r \in rows : r.sha = c /\ r.at = firstAt(c) /\ firstAt(c) \in Nat
    OBVIOUS
  <2>. DEFINE dates == {r.at : r \in {q \in rows : q.sha = c}}
  <2>1. dates \subseteq Nat /\ dates # {}
    BY <1>4
  <2>2. Min(dates) \in dates
    BY <2>1, HasMin
  <2>. QED BY <2>1, <2>2
<1>7. at \in [shas -> Nat] /\ \A c \in shas : at[c] = firstAt(c)
  BY <1>6
<1>8. \A a, b \in shas : at[a] = at[b] => a = b
  <2>. SUFFICES ASSUME NEW a \in shas, NEW b \in shas, at[a] = at[b] PROVE a = b
    OBVIOUS
  <2>1. PICK r \in rows : r.sha = a /\ r.at = at[a]
    BY <1>6, <1>7
  <2>2. PICK q \in rows : q.sha = b /\ q.at = at[b]
    BY <1>6, <1>7
  <2>. QED BY <1>4, <2>1, <2>2
<1>9. \A c \in shas : before(c) = {q \in shas : at[q] < at[c]}
  BY <1>7
<1>. HIDE DEF firstAt, shas
<1>10. ASSUME NEW c \in shas, before(c) # {}
       PROVE  previous(c) \in before(c) /\ \A o \in before(c) : firstAt(o) <= firstAt(previous(c))
  <2>. DEFINE dates == {at[q] : q \in before(c)}
  <2>1. dates \subseteq Nat /\ dates # {} /\ at[c] \in Nat /\ \A x \in dates : x <= at[c]
    BY <1>7, <1>9, <1>10
  <2>2. Max(dates) \in dates /\ \A x \in dates : x <= Max(dates)
    <3>. HIDE DEF dates
    <3>. QED BY <2>1, HasMax
  <2>3. PICK m \in before(c) : at[m] = Max(dates)
    BY <2>2
  <2>4. \A o \in before(c) : at[o] <= at[m]
    BY <2>2, <2>3
  <2>5. \A o \in before(c) : firstAt(o) <= firstAt(m)
    BY <2>4, <1>7
  <2>. HIDE DEF before
  <2>. QED BY <2>5
<1>. HIDE DEF at, previous, before
<1>11. \A c \in shas : prev[c] = previous(c)
  OBVIOUS
<1>12. \A c \in shas : (\E q \in shas : at[q] < at[c]) <=> before(c) # {}
  BY <1>9
<1>. HIDE DEF prev
<1>13. \A c \in shas : (\E q \in shas : at[q] < at[c]) =>
         prev[c] \in shas /\ at[prev[c]] < at[c] /\ \A o \in shas : at[o] < at[c] => at[o] <= at[prev[c]]
  BY <1>7, <1>9, <1>10, <1>11, <1>12
<1>14. \A c \in shas : c \in edges <=> c \in bad /\ ((\E q \in shas : at[q] < at[c]) => prev[c] \notin bad)
  BY <1>9, <1>10, <1>11, <1>12
<1>15. bad \in SUBSET shas /\ edges \in SUBSET shas
  OBVIOUS
<1>. HIDE DEF bad, edges
<1>16. Placed(shas, at, prev) /\ Rising(shas, at, prev, bad, edges)
  BY <1>7, <1>8, <1>13, <1>14 DEF Placed, Rising
<1>17. (Cardinality(edges) = 0 <=> bad = {}) /\ Cardinality(edges) <= 1 + Cardinality(shas \ bad)
  BY <1>5, <1>15, <1>16, RisingEdges
<1>. QED BY <1>1, <1>3, <1>17

\* A failure or a cancellation that was overcome has a success of its commit.
LEMMA RetriedIsNotBad ==
  ASSUME NEW db, NEW s, NEW f \in FlakeRows(db, 0) \cup ReclaimRows(db, 0), f.name = s[1], f.event = s[2]
  PROVE  f.sha \notin BadOf(db, s)
<1>1. PICK t \in Identifiable(db, 0) : Resolves(t, f)
  BY DEF FlakeRows, ReclaimRows
<1>2. t.name = f.name /\ t.event = f.event /\ t.sha = f.sha /\ t.conclusion = "SUCCESS"
  BY <1>1 DEF Resolves
<1>3. t \in RowsOf(db, s)
  BY <1>2 DEF RowsOf, Judged
<1>. QED BY <1>2, <1>3 DEF BadOf, FailedForGood

\* A series without a failing run has nothing that was overcome and nothing broken.
LEMMA NothingFailing ==
  ASSUME NEW db, HistInv(db), NEW s, SuccessStat(db, 0, s[1], s[2]).failing = 0
  PROVE  /\ BadOf(db, s) = {}
         /\ \A f \in FlakeRows(db, 0) : ~(f.name = s[1] /\ f.event = s[2])
<1>. DEFINE rows == RowsOf(db, s)
            failing == {r \in rows : r.conclusion \in Failing}
            runs == {<<r.sha, r.attempt>> : r \in failing}
            h == [r \in failing |-> <<r.sha, r.attempt>>]
<1>1. Cardinality(runs) = 0
  BY DEF SuccessStat, RowsOf
<1>2. IsFiniteSet(failing)
  <2>1. failing \subseteq db.durations
    BY DEF RowsOf, Judged, Identifiable, Since
  <2>. HIDE DEF failing
  <2>. QED BY <2>1, FS_Subset DEF HistInv
<1>3. IsFiniteSet(runs)
  <2>1. DOMAIN h = failing /\ h = [r \in failing |-> h[r]] /\ runs = {h[r] : r \in failing}
    OBVIOUS
  <2>. HIDE DEF h, failing, runs
  <2>2. IsFiniteSet({h[r] : r \in failing})
    BY <2>1, <1>2, FiniteImage
  <2>. QED BY <2>1, <2>2
<1>4. runs = {}
  <2>. HIDE DEF runs
  <2>. QED BY <1>1, <1>3, FS_EmptySet
<1>5. failing = {}
  BY <1>4
<1>6. BadOf(db, s) = {}
  BY <1>5 DEF BadOf, FailedForGood
<1>7. \A f \in FlakeRows(db, 0) : f \in Identifiable(db, 0) /\ f.conclusion \in Failing
  BY DEF FlakeRows
<1>8. "CANCELLED" \notin Failing
  BY DEF Failing
<1>9. \A f \in FlakeRows(db, 0) : f.name = s[1] /\ f.event = s[2] => f \in failing
  BY <1>7, <1>8 DEF RowsOf, Judged
<1>. QED BY <1>5, <1>6, <1>9

\* What a retry overcame is in no incident, whatever was recorded
\* (failureIncidentsByRepo).
THEOREM RetriesAreToldApart ==
  ASSUME NEW CONSTANT world, World(world)
  PROVE  RepoSpec(world) => []RetriesAreNotIncidents
<1>1. RepoInit => RepoInv(world)
  BY RepoStart
<1>2. RepoInv(world) /\ [RepoNext(world)]_repoVars => RepoInv(world)'
  BY RepoStep
<1>3. RepoInv(world) => RetriesAreNotIncidents
  <2>. SUFFICES ASSUME HistInv(hist), NEW s \in SeriesOf(hist)
                PROVE  LET rows == {r \in Judged(hist, 0) : <<r.name, r.event>> = s}
                           shas == {r.sha : r \in rows}
                           bad  == {c \in shas : FailedForGood(rows, c)}
                           count == Incidents(hist, 0, s[1], s[2])
                       IN /\ count = 0 <=> bad = {}
                          /\ count <= 1 + Cardinality(shas \ bad)
                          /\ \A f \in FlakeRows(hist, 0) \cup ReclaimRows(hist, 0) : <<f.name, f.event>> = s => f.sha \notin bad
                          /\ SuccessStat(hist, 0, s[1], s[2]).failing = 0 =>
                               count = 0 /\ \A f \in FlakeRows(hist, 0) : <<f.name, f.event>> # s
    BY DEF RepoInv, RetriesAreNotIncidents
  <2>. DEFINE rows == {r \in Judged(hist, 0) : <<r.name, r.event>> = s}
              shas == {r.sha : r \in rows}
              bad  == {c \in shas : FailedForGood(rows, c)}
  <2>1. s = <<s[1], s[2]>>
    BY DEF SeriesOf
  <2>2. \A f : <<f.name, f.event>> = s <=> f.name = s[1] /\ f.event = s[2]
    BY <2>1
  <2>3. rows = RowsOf(hist, s)
    BY <2>2 DEF RowsOf
  <2>4. shas = ShasOf(hist, s) /\ bad = BadOf(hist, s)
    BY <2>3 DEF ShasOf, BadOf
  <2>. HIDE DEF rows, shas, bad
  <2>5. /\ Incidents(hist, 0, s[1], s[2]) = 0 <=> bad = {}
        /\ Incidents(hist, 0, s[1], s[2]) <= 1 + Cardinality(shas \ bad)
    BY <2>4, IncidentsAreStreaks
  <2>6. \A f \in FlakeRows(hist, 0) \cup ReclaimRows(hist, 0) : <<f.name, f.event>> = s => f.sha \notin bad
    BY <2>2, <2>4, RetriedIsNotBad
  <2>7. SuccessStat(hist, 0, s[1], s[2]).failing = 0 =>
          Incidents(hist, 0, s[1], s[2]) = 0 /\ \A f \in FlakeRows(hist, 0) : <<f.name, f.event>> # s
    BY <2>2, <2>4, <2>5, NothingFailing
  <2>. QED BY <2>5, <2>6, <2>7 DEF rows, shas, bad
<1>. QED BY <1>1, <1>2, <1>3, PTL DEF RepoSpec
===============================================================================
