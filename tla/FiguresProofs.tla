---------------------------- MODULE FiguresProofs ----------------------------
(***************************************************************************)
(* Proofs about the figures of MCModels: sums of rows, dollars, the slack  *)
(* of a job, and what the metrics tab draws.                               *)
(***************************************************************************)
EXTENDS ModelsProofs

(***************************************************************************)
(* Recursion and sums.                                                     *)
(***************************************************************************)
\* What is true of 0, and of k + 1 when it is of k, is true of every number.
LEMMA Counting ==
  ASSUME NEW good, good \subseteq Nat, 0 \in good, \A k \in good : k + 1 \in good
  PROVE  good = Nat
<1>. DEFINE bad == Nat \ good
            m == Min(bad)
<1>. SUFFICES ASSUME bad # {} PROVE FALSE
  OBVIOUS
<1>1. m \in bad /\ \A k \in bad : m <= k
  BY HasMin
<1>. HIDE DEF m
<1>2. m \in Nat /\ m # 0
  BY <1>1
<1>3. m - 1 \in Nat /\ m - 1 \notin bad
  BY <1>1, <1>2
<1>. QED BY <1>1, <1>2, <1>3

\* F[d][g] reads g only where the rank is smaller: then some g is its own F.
Reads(F, D, V, rank) ==
  \A d \in D, g, h \in [D -> V] : (\A c \in D : rank[c] < rank[d] => g[c] = h[c]) => F[d][g] = F[d][h]

IsRecursion(F, D, V, rank, bound) ==
  /\ V # {} /\ bound \in Nat
  /\ rank \in [D -> Nat] /\ \A d \in D : rank[d] < bound
  /\ F \in [D -> [[D -> V] -> V]] /\ Reads(F, D, V, rank)

\* A definition by such a recursion has a solution.
LEMMA Recursion ==
  ASSUME NEW D, NEW V, NEW F, NEW rank, NEW bound, IsRecursion(F, D, V, rank, bound)
  PROVE  \E g \in [D -> V] : \A d \in D : g[d] = F[d][g]
<1>. USE DEF IsRecursion
<1>0. PICK some : some \in V
  OBVIOUS
<1>. DEFINE Solved(g, k) == \A d \in D : rank[d] < k => g[d] = F[d][g]
            good == {k \in Nat : \E g \in [D -> V] : Solved(g, k)}
<1>1. 0 \in good
  <2>1. [d \in D |-> some] \in [D -> V] /\ Solved([d \in D |-> some], 0)
    BY <1>0
  <2>. QED BY <2>1
<1>2. ASSUME NEW k \in good PROVE k + 1 \in good
  <2>1. PICK g \in [D -> V] : Solved(g, k)
    OBVIOUS
  <2>. DEFINE h == [d \in D |-> IF rank[d] < k THEN g[d] ELSE F[d][g]]
  <2>2. h \in [D -> V] /\ k \in Nat
    OBVIOUS
  <2>3. \A d \in D : rank[d] < k => h[d] = g[d]
    OBVIOUS
  <2>4. \A d \in D : h[d] = F[d][g]
    BY <2>1
  <2>. HIDE DEF h
  <2>5. \A d \in D : rank[d] < k + 1 => F[d][h] = F[d][g]
    <3>. SUFFICES ASSUME NEW d \in D, rank[d] < k + 1 PROVE F[d][h] = F[d][g]
      OBVIOUS
    <3>1. \A c \in D : rank[c] < rank[d] => h[c] = g[c]
      BY <2>2, <2>3
    <3>. QED BY <2>2, <3>1 DEF Reads
  <2>6. Solved(h, k + 1)
    BY <2>4, <2>5
  <2>. QED BY <2>2, <2>6
<1>3. good = Nat
  <2>1. good \subseteq Nat
    OBVIOUS
  <2>. HIDE DEF good
  <2>. QED BY <1>1, <1>2, <2>1, Counting
<1>4. PICK g \in [D -> V] : Solved(g, bound)
  BY <1>3
<1>. QED BY <1>4

\* taken[s] is the element of s that is taken first.
Takes(taken, S) == \A s \in SUBSET S : s # {} => taken[s] \in s

\* What is true of nothing, and of a set when it is of the set without its first
\* element, is true of a finite set and of its subsets.
GoesOn(good, taken, S) ==
  /\ {} \in good
  /\ \A s \in SUBSET S : s # {} /\ s \ {taken[s]} \in good => s \in good

\* Induction over a finite set in the order in which its elements are taken.
LEMMA Taking ==
  ASSUME NEW S, IsFiniteSet(S), NEW taken, Takes(taken, S), NEW good, GoesOn(good, taken, S)
  PROVE  \A s \in SUBSET S : s \in good
<1>. USE DEF GoesOn
<1>. DEFINE upTo == {k \in Nat : \A s \in SUBSET S : Cardinality(s) = k => s \in good}
<1>1. \A s \in SUBSET S : IsFiniteSet(s) /\ Cardinality(s) \in Nat /\ (s = {} <=> Cardinality(s) = 0)
  BY FS_Subset, FS_CardinalityType, FS_EmptySet
<1>2. 0 \in upTo
  BY <1>1
<1>3. ASSUME NEW k \in upTo PROVE k + 1 \in upTo
  <2>. SUFFICES ASSUME NEW s \in SUBSET S, Cardinality(s) = k + 1 PROVE s \in good
    OBVIOUS
  <2>. DEFINE x == taken[s]
  <2>1. s # {} /\ x \in s
    BY <1>1 DEF Takes
  <2>2. IsFiniteSet(s) /\ k \in Nat
    BY <1>1
  <2>. HIDE DEF x
  <2>3. Cardinality(s \ {x}) = Cardinality(s) - 1
    BY <2>1, <2>2, FS_RemoveElement
  <2>4. s \ {x} \in SUBSET S /\ Cardinality(s \ {x}) = k
    BY <2>2, <2>3
  <2>. QED BY <2>1, <2>4 DEF x
<1>4. upTo = Nat
  <2>1. upTo \subseteq Nat
    OBVIOUS
  <2>. HIDE DEF upTo
  <2>. QED BY <1>2, <1>3, <2>1, Counting
<1>. QED BY <1>1, <1>4

\* The element a fold of the library takes first.
Some(s)   == CHOOSE x \in s : TRUE
Chosen(S) == [s \in SUBSET S |-> Some(s)]

\* What the library's folds choose is an element of the set.
LEMMA ChosenTakes == ASSUME NEW S PROVE Takes(Chosen(S), S)
<1>. SUFFICES ASSUME NEW s \in SUBSET S, s # {} PROVE Chosen(S)[s] \in s
  BY DEF Takes
<1>. QED BY DEF Chosen, Some

\* What is true of nothing, and of one element more, is true of a finite set.
Grows(good, S) ==
  /\ {} \in good
  /\ \A s \in SUBSET S, x \in S : s \in good /\ x \notin s => s \cup {x} \in good

\* Induction over a finite set, an element at a time.
LEMMA Growing ==
  ASSUME NEW S, IsFiniteSet(S), NEW good, Grows(good, S)
  PROVE  \A s \in SUBSET S : s \in good
<1>. USE DEF Grows
<1>. DEFINE taken == Chosen(S)
<1>1. Takes(taken, S)
  BY ChosenTakes
<1>. HIDE DEF taken
<1>2. ASSUME NEW s \in SUBSET S, s # {}, s \ {taken[s]} \in good PROVE s \in good
  <2>1. taken[s] \in s
    BY <1>1, <1>2 DEF Takes
  <2>2. (s \ {taken[s]}) \cup {taken[s]} = s
    BY <2>1
  <2>. QED BY <1>2, <2>1, <2>2
<1>3. GoesOn(good, taken, S)
  BY <1>2 DEF GoesOn
<1>. QED BY <1>1, <1>3, Taking

\* A fold over what is taken first, with op for what it does.
IsFoldOver(op, base, taken, S, V) ==
  IsFiniteSet(S) /\ Takes(taken, S) /\ base \in V /\ op \in [S -> [V -> V]]

Folds(g, op, base, taken, S) ==
  \A s \in SUBSET S : g[s] = IF s = {} THEN base ELSE op[taken[s]][g[s \ {taken[s]}]]

\* The recursion of a fold over a finite set has a solution.
LEMMA FoldIs ==
  ASSUME NEW S, NEW taken, NEW V, NEW base, NEW op, IsFoldOver(op, base, taken, S, V)
  PROVE  \E g \in [SUBSET S -> V] : Folds(g, op, base, taken, S)
<1>. USE DEF IsFoldOver
<1>. DEFINE D == SUBSET S
            rank == [s \in D |-> Cardinality(s)]
            Does(s, g) == IF s = {} THEN base ELSE op[taken[s]][g[s \ {taken[s]}]]
            F == [s \in D |-> [g \in [D -> V] |-> Does(s, g)]]
<1>1. \A s \in D : IsFiniteSet(s) /\ Cardinality(s) \in Nat /\ Cardinality(s) <= Cardinality(S)
  BY FS_Subset, FS_CardinalityType
<1>2. \A s \in D : s # {} => taken[s] \in S /\ s \ {taken[s]} \in D /\ Cardinality(s \ {taken[s]}) < Cardinality(s)
  <2>. SUFFICES ASSUME NEW s \in D, s # {}
                PROVE  taken[s] \in S /\ s \ {taken[s]} \in D /\ Cardinality(s \ {taken[s]}) < Cardinality(s)
    OBVIOUS
  <2>1. taken[s] \in s
    BY DEF Takes
  <2>2. IsFiniteSet(s) /\ Cardinality(s) \in Nat
    BY <1>1
  <2>. DEFINE x == taken[s]
  <2>3. x \in s
    BY <2>1
  <2>. HIDE DEF x
  <2>4. Cardinality(s \ {x}) = Cardinality(s) - 1
    BY <2>2, <2>3, FS_RemoveElement
  <2>5. x \in S /\ s \ {x} \in D /\ Cardinality(s \ {x}) < Cardinality(s)
    BY <2>2, <2>3, <2>4
  <2>. QED BY <2>5 DEF x
<1>3. \A s \in D, g \in [D -> V] : Does(s, g) \in V
  <2>. TAKE s \in D, g \in [D -> V]
  <2>1. CASE s = {}
    BY <2>1
  <2>2. CASE s # {}
    <3>. DEFINE x == taken[s]
                v == g[s \ {taken[s]}]
    <3>1. x \in S /\ v \in V
      BY <1>2, <2>2
    <3>2. Does(s, g) = op[x][v]
      BY <2>2
    <3>. HIDE DEF x, v
    <3>. QED BY <3>1, <3>2
  <2>. QED BY <2>1, <2>2
<1>4. F \in [D -> [[D -> V] -> V]]
  <2>. HIDE DEF Does, D
  <2>. QED BY <1>3
<1>5. rank \in [D -> Nat] /\ Cardinality(S) + 1 \in Nat /\ \A s \in D : rank[s] < Cardinality(S) + 1
  BY <1>1, FS_CardinalityType
<1>6. Reads(F, D, V, rank)
  <2>. SUFFICES ASSUME NEW s \in D, NEW g \in [D -> V], NEW h \in [D -> V],
                       \A c \in D : rank[c] < rank[s] => g[c] = h[c]
                PROVE  Does(s, g) = Does(s, h)
    BY DEF Reads
  <2>1. CASE s = {}
    BY <2>1
  <2>2. CASE s # {}
    <3>. DEFINE r == s \ {taken[s]}
    <3>1. r \in D /\ rank[r] < rank[s]
      BY <1>2, <2>2
    <3>2. g[r] = h[r]
      BY <3>1
    <3>. QED BY <2>2, <3>2
  <2>. QED BY <2>1, <2>2
<1>. HIDE DEF F, rank, D, Does
<1>. DEFINE n == Cardinality(S) + 1
<1>7. rank \in [D -> Nat] /\ n \in Nat /\ \A s \in D : rank[s] < n
  BY <1>5
<1>. HIDE DEF n
<1>8. IsRecursion(F, D, V, rank, n)
  BY <1>4, <1>6, <1>7 DEF IsRecursion
<1>. HIDE DEF n
<1>9. PICK g \in [D -> V] : \A s \in D : g[s] = F[s][g]
  BY <1>8, Recursion
<1>10. \A s \in D : g[s] = Does(s, g)
  BY <1>9 DEF F
<1>. QED BY <1>10 DEF D, Does, Folds

\* w weighs the subsets of S: every element, whichever is taken first, weighs f of it.
Weighs(w, f, S) ==
  /\ w \in [SUBSET S -> Nat] /\ w[{}] = 0
  /\ \A s \in SUBSET S : \A x \in s : w[s] = f[x] + w[s \ {x}]
Counts(f, S) == IsFiniteSet(S) /\ \A x \in S : f[x] \in Nat

\* Natural numbers on a finite set have a sum, whatever the order.
LEMMA WeighsExists == ASSUME NEW S, NEW f, Counts(f, S) PROVE \E w : Weighs(w, f, S)
<1>. DEFINE good == {s \in SUBSET S : \E w : Weighs(w, f, s)}
<1>1. {} \in good
  <2>. DEFINE w == [s \in SUBSET {} |-> 0]
  <2>1. w \in [SUBSET {} -> Nat] /\ w[{}] = 0 /\ \A s \in SUBSET {} : s = {}
    OBVIOUS
  <2>2. Weighs(w, f, {})
    BY <2>1 DEF Weighs
  <2>. QED BY <2>2
<1>2. ASSUME NEW t \in good, NEW y \in S, y \notin t PROVE t \cup {y} \in good
  <2>1. PICK v : Weighs(v, f, t)
    OBVIOUS
  <2>. DEFINE u == t \cup {y}
              w == [s \in SUBSET u |-> IF y \in s THEN f[y] + v[s \ {y}] ELSE v[s]]
  <2>2. \A s \in SUBSET u : /\ y \in s => s \ {y} \in SUBSET t
                            /\ y \notin s => s \in SUBSET t
    OBVIOUS
  <2>3. f[y] \in Nat
    BY DEF Counts
  <2>4. \A s \in SUBSET t : v[s] \in Nat /\ \A x \in s : v[s] = f[x] + v[s \ {x}]
    BY <2>1 DEF Weighs
  <2>5. w \in [SUBSET u -> Nat] /\ w[{}] = 0
    BY <2>1, <2>2, <2>3, <2>4 DEF Weighs
  <2>6. ASSUME NEW s \in SUBSET u, NEW x \in s PROVE w[s] = f[x] + w[s \ {x}]
    <3>0. s \ {x} \in SUBSET u
      OBVIOUS
    <3>1. CASE x = y
      BY <3>0, <3>1
    <3>2. CASE x # y /\ y \notin s
      <4>1. s \in SUBSET t /\ y \notin s \ {x}
        BY <2>2, <3>2
      <4>. QED BY <2>4, <3>0, <3>2, <4>1
    <3>3. CASE x # y /\ y \in s
      <4>1. s \ {y} \in SUBSET t /\ x \in s \ {y} /\ (s \ {y}) \ {x} = (s \ {x}) \ {y} /\ y \in s \ {x}
        BY <2>2, <3>3
      <4>2. w[s] = f[y] + v[s \ {y}] /\ w[s \ {x}] = f[y] + v[(s \ {y}) \ {x}]
        BY <3>0, <3>3, <4>1
      <4>3. v[s \ {y}] = f[x] + v[(s \ {y}) \ {x}]
        BY <2>4, <4>1
      <4>4. (s \ {y}) \ {x} \in SUBSET t
        BY <4>1
      <4>5. v[(s \ {y}) \ {x}] \in Nat /\ f[x] \in Nat
        BY <2>4, <4>4 DEF Counts
      <4>. HIDE DEF w
      <4>. QED BY <2>3, <4>2, <4>3, <4>5
    <3>. QED BY <3>1, <3>2, <3>3
  <2>. HIDE DEF w
  <2>7. Weighs(w, f, u)
    BY <2>5, <2>6 DEF Weighs
  <2>. QED BY <2>7
<1>. HIDE DEF good
<1>3. S \in good
  <2>1. IsFiniteSet(S)
    BY DEF Counts
  <2>2. Grows(good, S)
    BY <1>1, <1>2 DEF Grows
  <2>. QED BY <2>1, <2>2, Growing
<1>. QED BY <1>3 DEF good

\* The recursion of MapThenSumSet has the weights as its only solution.
Unfolds(f, S, g) == [s \in SUBSET S |-> IF s = {} THEN 0 ELSE f[Some(s)] + g[s \ {Some(s)}]]

\* A function solves the recursion just when it gives the weights.
LEMMA WeighsUnfolds ==
  ASSUME NEW S, NEW f, Counts(f, S), NEW w, Weighs(w, f, S)
  PROVE  \A g : g = Unfolds(f, S, g) <=> g = w
<1>1. w = Unfolds(f, S, w)
  <2>1. \A s \in SUBSET S : w[s] = IF s = {} THEN 0 ELSE f[Some(s)] + w[s \ {Some(s)}]
    BY DEF Weighs, Some
  <2>. QED BY <2>1 DEF Unfolds, Weighs
<1>2. ASSUME NEW g, g = Unfolds(f, S, g) PROVE g = w
  <2>. DEFINE good == {s \in SUBSET S : g[s] = w[s]}
  <2>1. \A s \in SUBSET S : g[s] = IF s = {} THEN 0 ELSE f[Some(s)] + g[s \ {Some(s)}]
    BY <1>2 DEF Unfolds
  <2>2. \A s \in SUBSET S : w[s] = IF s = {} THEN 0 ELSE f[Some(s)] + w[s \ {Some(s)}]
    BY <1>1 DEF Unfolds
  <2>3. {} \in good
    BY <2>1, <2>2
  <2>4. \A s \in SUBSET S : s # {} /\ s \ {Chosen(S)[s]} \in good => s \in good
    BY <2>1, <2>2 DEF Chosen
  <2>. HIDE DEF good
  <2>5. \A s \in SUBSET S : s \in good
    <3>1. IsFiniteSet(S) /\ Takes(Chosen(S), S) /\ GoesOn(good, Chosen(S), S)
      BY <2>3, <2>4, ChosenTakes DEF Counts, GoesOn
    <3>. QED BY <3>1, Taking
  <2>6. \A s \in SUBSET S : g[s] = w[s]
    BY <2>5 DEF good
  <2>. QED BY <1>2, <2>6 DEF Unfolds, Weighs
<1>. QED BY <1>1, <1>2

\* A sum weighs its set.
LEMMA SumWeighs ==
  ASSUME NEW S, NEW f, Counts(f, S), NEW w, Weighs(w, f, S)
  PROVE  SumOver(f, S) = w[S]
<1>. DEFINE Body(g) == [s \in SUBSET S |-> IF s = {} THEN 0
                          ELSE f[CHOOSE x \in s : TRUE] + g[s \ {CHOOSE x \in s : TRUE}]]
            iter == CHOOSE g : g = Body(g)
<1>1. SumOver(f, S) = iter[S]
  BY DEF SumOver, MapThenSumSet, MapThenFoldSet
<1>2. \A g : g = Body(g) <=> g = w
  BY WeighsUnfolds DEF Unfolds, Some
<1>. HIDE DEF Body
<1>3. iter = Body(iter)
  BY <1>2
<1>. QED BY <1>1, <1>2, <1>3

\* The sum of nothing, of one element more, and of an element less.
LEMMA SumIs ==
  ASSUME NEW S, NEW f, Counts(f, S)
  PROVE  /\ SumOver(f, S) \in Nat
         /\ S = {} => SumOver(f, S) = 0
         /\ \A x \in S : SumOver(f, S) = f[x] + SumOver(f, S \ {x})
<1>1. PICK w : Weighs(w, f, S)
  BY WeighsExists
<1>2. SumOver(f, S) = w[S]
  BY <1>1, SumWeighs
<1>3. ASSUME NEW x \in S PROVE SumOver(f, S) = f[x] + SumOver(f, S \ {x})
  <2>. DEFINE T == S \ {x}
              v == [s \in SUBSET T |-> w[s]]
  <2>1. Counts(f, T)
    BY FS_Subset DEF Counts
  <2>2. \A s \in SUBSET T : /\ s \in SUBSET S /\ v[s] = w[s]
                            /\ \A y \in s : v[s] = f[y] + v[s \ {y}]
    BY <1>1 DEF Weighs
  <2>3. v \in [SUBSET T -> Nat] /\ v[{}] = 0
    BY <1>1 DEF Weighs
  <2>4. v[T] = w[T]
    OBVIOUS
  <2>. HIDE DEF v
  <2>5. Weighs(v, f, T)
    BY <2>2, <2>3 DEF Weighs
  <2>6. SumOver(f, T) = w[T]
    BY <2>1, <2>4, <2>5, SumWeighs
  <2>. QED BY <1>1, <1>2, <2>6 DEF Weighs
<1>. QED BY <1>1, <1>2, <1>3 DEF Weighs

\* What counts the elements of a set counts those of its subsets.
LEMMA CountsLess == ASSUME NEW S, NEW f, Counts(f, S), NEW T, T \subseteq S PROVE Counts(f, T)
BY FS_Subset DEF Counts

\* The sum over one element more.
LEMMA SumAdds ==
  ASSUME NEW S, NEW f, Counts(f, S), NEW s \in SUBSET S, NEW x \in S, x \notin s
  PROVE  SumOver(f, s \cup {x}) = f[x] + SumOver(f, s) /\ SumOver(f, s) \in Nat /\ f[x] \in Nat
<1>1. Counts(f, s \cup {x}) /\ Counts(f, s)
  BY CountsLess
<1>2. (s \cup {x}) \ {x} = s /\ x \in s \cup {x}
  OBVIOUS
<1>. QED BY <1>1, <1>2, SumIs DEF Counts

\* A sum reads its function only on its set.
LEMMA SumSame ==
  ASSUME NEW S, NEW f, NEW g, Counts(f, S), \A x \in S : g[x] = f[x]
  PROVE  SumOver(g, S) = SumOver(f, S)
<1>. DEFINE good == {s \in SUBSET S : SumOver(g, s) = SumOver(f, s)}
<1>0. Counts(g, S) /\ IsFiniteSet(S)
  BY DEF Counts
<1>1. {} \in good
  BY <1>0, SumIs, CountsLess
<1>2. \A s \in SUBSET S, x \in S : s \in good /\ x \notin s => s \cup {x} \in good
  BY <1>0, SumAdds
<1>. HIDE DEF good
<1>3. S \in good
  <2>1. Grows(good, S)
    BY <1>1, <1>2 DEF Grows
  <2>. QED BY <1>0, <2>1, Growing
<1>. QED BY <1>3 DEF good

\* The sums of two disjoint sets add up.
LEMMA SumOfUnion ==
  ASSUME NEW S, NEW f, Counts(f, S), NEW T, T \subseteq S
  PROVE  SumOver(f, S) = SumOver(f, T) + SumOver(f, S \ T)
<1>. DEFINE good == {s \in SUBSET (S \ T) : SumOver(f, T \cup s) = SumOver(f, T) + SumOver(f, s)}
<1>1. Counts(f, T) /\ Counts(f, S \ T) /\ Counts(f, {}) /\ IsFiniteSet(S \ T)
  <2>1. Counts(f, T) /\ Counts(f, S \ T) /\ Counts(f, {})
    BY CountsLess
  <2>. QED BY <2>1 DEF Counts
<1>2. SumOver(f, T) \in Nat /\ SumOver(f, {}) = 0
  BY <1>1, SumIs
<1>3. {} \in good
  BY <1>2
<1>4. ASSUME NEW s \in SUBSET (S \ T), NEW x \in S \ T, s \in good, x \notin s PROVE s \cup {x} \in good
  <2>1. T \cup s \in SUBSET S /\ x \notin T \cup s /\ (T \cup s) \cup {x} = T \cup (s \cup {x})
    BY <1>4
  <2>2. SumOver(f, T \cup (s \cup {x})) = f[x] + SumOver(f, T \cup s)
    BY <2>1, SumAdds
  <2>3. SumOver(f, s \cup {x}) = f[x] + SumOver(f, s) /\ SumOver(f, s) \in Nat /\ f[x] \in Nat
    BY <1>4, SumAdds
  <2>4. s \cup {x} \in SUBSET (S \ T) /\ SumOver(f, T \cup s) = SumOver(f, T) + SumOver(f, s)
    BY <1>4
  <2>. QED BY <1>2, <2>2, <2>3, <2>4
<1>. HIDE DEF good
<1>5. S \ T \in good
  <2>1. Grows(good, S \ T)
    BY <1>3, <1>4 DEF Grows
  <2>. QED BY <1>1, <2>1, Growing
<1>6. T \cup (S \ T) = S
  OBVIOUS
<1>. QED BY <1>5, <1>6 DEF good

\* The sum over a subset is no more than the sum.
LEMMA SumOfLess ==
  ASSUME NEW S, NEW f, Counts(f, S), NEW T, T \subseteq S
  PROVE  SumOver(f, T) <= SumOver(f, S)
<1>1. SumOver(f, T) \in Nat /\ SumOver(f, S \ T) \in Nat
  BY SumIs, CountsLess
<1>. QED BY <1>1, SumOfUnion

\* A common factor.
LEMMA SumTimes ==
  ASSUME NEW S, NEW f, Counts(f, S), NEW k \in Nat, NEW g, \A x \in S : g[x] = k * f[x]
  PROVE  SumOver(g, S) = k * SumOver(f, S)
<1>. DEFINE good == {s \in SUBSET S : SumOver(g, s) = k * SumOver(f, s)}
<1>0. Counts(g, S) /\ IsFiniteSet(S) /\ Counts(g, {}) /\ Counts(f, {})
  BY CountsLess DEF Counts
<1>1. {} \in good
  <2>1. SumOver(g, {}) = 0 /\ SumOver(f, {}) = 0
    BY <1>0, SumIs
  <2>. QED BY <2>1
<1>2. ASSUME NEW s \in SUBSET S, NEW x \in S, s \in good, x \notin s PROVE s \cup {x} \in good
  <2>1. SumOver(g, s \cup {x}) = g[x] + SumOver(g, s)
    BY <1>0, <1>2, SumAdds
  <2>2. SumOver(f, s \cup {x}) = f[x] + SumOver(f, s) /\ SumOver(f, s) \in Nat /\ f[x] \in Nat
    BY <1>2, SumAdds
  <2>3. \A p, q \in Nat : k * p + k * q = k * (p + q)
    OBVIOUS
  <2>4. g[x] = k * f[x] /\ SumOver(g, s) = k * SumOver(f, s)
    BY <1>2
  <2>. QED BY <2>1, <2>2, <2>3, <2>4
<1>. HIDE DEF good
<1>3. S \in good
  <2>1. Grows(good, S)
    BY <1>1, <1>2 DEF Grows
  <2>. QED BY <1>0, <2>1, Growing
<1>. QED BY <1>3 DEF good
\* What a function makes of a finite set is finite, and as large when it tells its elements apart.
LEMMA ImageIs ==
  ASSUME NEW S, IsFiniteSet(S), NEW f, NEW T, T = {f[x] : x \in S}
  PROVE  /\ IsFiniteSet(T) /\ Cardinality(T) <= Cardinality(S)
         /\ (\A x, y \in S : f[x] = f[y] => x = y) => Cardinality(T) = Cardinality(S)
<1>. DEFINE g == [x \in S |-> f[x]]
<1>0. g \in [S -> T] /\ \A t \in T : \E x \in S : g[x] = t
  OBVIOUS
<1>1. g \in Surjection(S, T)
  <2>. HIDE DEF g
  <2>. QED BY <1>0 DEF Surjection
<1>2. (\A x, y \in S : f[x] = f[y] => x = y) => g \in Injection(S, T)
  <2>1. (\A x, y \in S : f[x] = f[y] => x = y) => \A x, y \in S : g[x] = g[y] => x = y
    OBVIOUS
  <2>. HIDE DEF g
  <2>. QED BY <1>0, <2>1 DEF Injection, IsInjective
<1>. HIDE DEF g
<1>. QED BY <1>1, <1>2, FS_Surjection

\* The parts of a set by a key: their sums add up to the sum of the set.
Part(S, key, k) == {x \in S : key[x] = k}

\* The sums over the parts of a set add up to the sum over the set.
LEMMA SumOfParts ==
  ASSUME NEW S, NEW f, Counts(f, S), NEW K, IsFiniteSet(K), NEW key, \A x \in S : key[x] \in K,
         NEW sums, \A k \in K : sums[k] = SumOver(f, Part(S, key, k))
  PROVE  Counts(sums, K) /\ SumOver(sums, K) = SumOver(f, S)
<1>. DEFINE In(s) == {x \in S : key[x] \in s}
            good == {s \in SUBSET K : SumOver(sums, s) = SumOver(f, In(s))}
<1>1. Counts(sums, K)
  <2>1. \A k \in K : Part(S, key, k) \subseteq S
    BY DEF Part
  <2>2. \A k \in K : sums[k] \in Nat
    BY <2>1, CountsLess, SumIs
  <2>. QED BY <2>2 DEF Counts
<1>2. {} \in good
  <2>1. In({}) = {} /\ Counts(f, {}) /\ Counts(sums, {})
    BY <1>1, CountsLess
  <2>2. SumOver(f, {}) = 0 /\ SumOver(sums, {}) = 0
    BY <2>1, SumIs
  <2>. QED BY <2>1, <2>2
<1>3. ASSUME NEW s \in SUBSET K, NEW k \in K, s \in good, k \notin s PROVE s \cup {k} \in good
  <2>1. SumOver(sums, s \cup {k}) = sums[k] + SumOver(sums, s) /\ SumOver(sums, s) \in Nat /\ sums[k] \in Nat
    BY <1>1, <1>3, SumAdds
  <2>2. In(s \cup {k}) \ Part(S, key, k) = In(s) /\ Part(S, key, k) \subseteq In(s \cup {k}) /\ In(s \cup {k}) \subseteq S
    BY <1>3 DEF Part
  <2>. HIDE DEF In
  <2>3. Counts(f, In(s \cup {k}))
    BY <2>2, CountsLess
  <2>4. SumOver(f, In(s \cup {k})) = SumOver(f, Part(S, key, k)) + SumOver(f, In(s))
    <3>. DEFINE U == In(s \cup {k})
                P == Part(S, key, k)
    <3>1. Counts(f, U) /\ P \subseteq U /\ U \ P = In(s)
      BY <2>2, <2>3
    <3>. HIDE DEF U, P
    <3>2. SumOver(f, U) = SumOver(f, P) + SumOver(f, U \ P)
      BY <3>1, SumOfUnion
    <3>. QED BY <3>1, <3>2 DEF U, P
  <2>. QED BY <1>3, <2>1, <2>4
<1>. HIDE DEF good
<1>4. K \in good
  <2>1. Grows(good, K)
    BY <1>2, <1>3 DEF Grows
  <2>. QED BY <2>1, Growing
<1>5. In(K) = S
  OBVIOUS
<1>. QED BY <1>1, <1>4, <1>5 DEF good

(***************************************************************************)
(* Dollars.                                                                *)
(***************************************************************************)
Fractions == Nat \X (Nat \ {0})
Units == Nat \ {0}

\* n units of which D are a dollar.
Worth(a, n, D) == a \in Fractions /\ Equal(a, <<n, D>>)

\* A fraction is worth n units of 1/D when it equals n/D.
LEMMA WorthIs ==
  ASSUME NEW a, NEW n, NEW D
  PROVE  Worth(a, n, D) <=> a \in Fractions /\ a[1] * D = n * a[2]
BY DEF Worth, Equal

\* A fraction is a pair of natural numbers, the second of them not 0.
LEMMA FractionIs ==
  ASSUME NEW a \in Fractions
  PROVE  a[1] \in Nat /\ a[2] \in Nat /\ a[2] # 0 /\ a = <<a[1], a[2]>>
BY DEF Fractions

\* Plus adds what two fractions are worth.
LEMMA PlusWorth ==
  ASSUME NEW D \in Units, NEW n \in Nat, NEW m \in Nat, NEW a, NEW b, Worth(a, n, D), Worth(b, m, D)
  PROVE  Worth(Plus(a, b), n + m, D)
<1>1. a \in Fractions /\ b \in Fractions
  BY DEF Worth
<1>. DEFINE p == a[1]
            q == a[2]
            r == b[1]
            s == b[2]
<1>2. p \in Nat /\ q \in Nat /\ q # 0 /\ r \in Nat /\ s \in Nat /\ s # 0
  BY <1>1, FractionIs
<1>3. p * D = n * q /\ r * D = m * s /\ D \in Nat
  BY WorthIs DEF Units
<1>4. Plus(a, b) = IF q = s THEN <<p + r, q>> ELSE <<p * s + r * q, q * s>>
  BY DEF Plus
<1>. HIDE DEF p, q, r, s
<1>5. CASE q = s
  <2>1. (p + r) * D = (n + m) * q
    <3>1. (p + r) * D = p * D + r * D /\ (n + m) * q = n * q + m * q
      BY <1>2, <1>3
    <3>. QED BY <1>3, <1>5, <3>1
  <2>2. <<p + r, q>> \in Fractions
    BY <1>2 DEF Fractions
  <2>. QED BY <1>4, <1>5, <2>1, <2>2, WorthIs
<1>6. CASE q # s
  <2>1. (p * s + r * q) * D = s * (p * D) + q * (r * D)
    BY <1>2, <1>3
  <2>2. (n + m) * (q * s) = s * (n * q) + q * (m * s)
    BY <1>2, <1>3
  <2>3. p * s \in Nat /\ r * q \in Nat /\ q * s \in Nat /\ q * s # 0
    BY <1>2
  <2>4. p * s + r * q \in Nat
    BY <2>3
  <2>5. <<p * s + r * q, q * s>> \in Fractions
    BY <2>3, <2>4 DEF Fractions
  <2>6. (p * s + r * q) * D = (n + m) * (q * s)
    BY <1>3, <2>1, <2>2
  <2>. QED BY <1>4, <1>6, <2>5, <2>6, WorthIs
<1>. QED BY <1>5, <1>6

\* Zero is worth nothing.
LEMMA ZeroWorth == ASSUME NEW D \in Units PROVE Worth(Zero, 0, D)
BY DEF Worth, Zero, Fractions, Equal, Units

\* Times multiplies what a fraction is worth.
LEMMA TimesWorth ==
  ASSUME NEW D \in Units, NEW n \in Nat, NEW k \in Nat, NEW a, Worth(a, n, D)
  PROVE  Worth(Times(k, a), k * n, D)
<1>. DEFINE p == a[1]
            q == a[2]
<1>1. p \in Nat /\ q \in Nat /\ q # 0 /\ p * D = n * q /\ D \in Nat
  BY FractionIs, WorthIs DEF Units
<1>2. Times(k, a) = <<k * p, q>>
  BY DEF Times
<1>. HIDE DEF p, q
<1>3. (k * p) * D = k * (p * D) /\ (k * n) * q = k * (n * q) /\ k * p \in Nat
  BY <1>1
<1>4. <<k * p, q>> \in Fractions
  BY <1>1, <1>3 DEF Fractions
<1>. QED BY <1>1, <1>2, <1>3, <1>4, WorthIs

\* What is worth the same is equal.
LEMMA SameWorth ==
  ASSUME NEW D \in Units, NEW n \in Nat, NEW a, NEW b, Worth(a, n, D), Worth(b, n, D)
  PROVE  Equal(a, b)
<1>. DEFINE p == a[1]
            q == a[2]
            r == b[1]
            s == b[2]
<1>1. p \in Nat /\ q \in Nat /\ r \in Nat /\ s \in Nat /\ p * D = n * q /\ r * D = n * s /\ D \in Nat /\ D # 0
  BY FractionIs, WorthIs DEF Units
<1>. HIDE DEF p, q, r, s
<1>2. (p * s) * D = s * (p * D) /\ (r * q) * D = q * (r * D) /\ s * (n * q) = q * (n * s)
  BY <1>1
<1>3. (p * s) * D = (r * q) * D /\ p * s \in Nat /\ r * q \in Nat
  BY <1>1, <1>2
<1>4. \A x, y \in Nat : x * D = y * D => x = y
  BY <1>1
<1>5. p * s = r * q
  BY <1>3, <1>4
<1>. QED BY <1>5 DEF Equal, p, q, r, s

\* Some number of units divides all of a finite set of fractions.
LEMMA CommonUnits ==
  ASSUME NEW S, IsFiniteSet(S), S \subseteq Fractions
  PROVE  \E D \in Units : \A a \in S : \E n \in Nat : Worth(a, n, D)
<1>. DEFINE good == {s \in SUBSET S : \E D \in Units : \A a \in s : \E n \in Nat : Worth(a, n, D)}
<1>1. {} \in good
  <2>1. 1 \in Units
    BY DEF Units
  <2>. QED BY <2>1
<1>2. ASSUME NEW s \in SUBSET S, NEW b \in S, s \in good, b \notin s PROVE s \cup {b} \in good
  <2>1. PICK D \in Units : \A a \in s : \E n \in Nat : Worth(a, n, D)
    BY <1>2
  <2>. DEFINE q == b[2]
  <2>2. b[1] \in Nat /\ q \in Nat /\ q # 0 /\ D \in Nat /\ D # 0
    BY FractionIs DEF Units
  <2>. HIDE DEF q
  <2>3. D * q \in Units
    BY <2>2 DEF Units
  <2>4. ASSUME NEW a \in s PROVE \E n \in Nat : Worth(a, n, D * q)
    <3>1. PICK n \in Nat : Worth(a, n, D)
      BY <2>1
    <3>2. a[1] \in Nat /\ a[2] \in Nat /\ a[1] * D = n * a[2] /\ a \in Fractions
      BY <3>1, WorthIs, FractionIs
    <3>3. a[1] * (D * q) = q * (a[1] * D) /\ (n * q) * a[2] = q * (n * a[2]) /\ n * q \in Nat
      BY <2>2, <3>2
    <3>4. Worth(a, n * q, D * q)
      BY <3>2, <3>3, WorthIs
    <3>. QED BY <3>3, <3>4
  <2>5. Worth(b, b[1] * D, D * q)
    <3>1. b[1] * (D * q) = (b[1] * D) * q
      BY <2>2
    <3>. QED BY <3>1, WorthIs DEF q
  <2>6. b[1] * D \in Nat
    BY <2>2
  <2>7. \A a \in s \cup {b} : \E n \in Nat : Worth(a, n, D * q)
    BY <2>4, <2>5, <2>6
  <2>. QED BY <2>3, <2>7
<1>. HIDE DEF good
<1>3. S \in good
  <2>1. Grows(good, S)
    BY <1>1, <1>2 DEF Grows
  <2>. QED BY <2>1, Growing
<1>. QED BY <1>3 DEF good

\* The recursion of Total.
AddsUp(f, S, g) == [s \in SUBSET S |-> IF s = {} THEN Zero ELSE Plus(f[Some(s)], g[s \ {Some(s)}])]

\* The recursion of Total has a solution on a finite set of fractions.
LEMMA AddsUpExists ==
  ASSUME NEW S, IsFiniteSet(S), NEW f, \A x \in S : f[x] \in Fractions
  PROVE  \E g : g = AddsUp(f, S, g)
<1>. DEFINE op == [x \in S |-> [a \in Fractions |-> Plus(f[x], a)]]
            taken == Chosen(S)
<1>1. \A a, b \in Fractions : Plus(a, b) \in Fractions
  <2>. TAKE a, b \in Fractions
  <2>1. PICK D \in Units : \A c \in {a, b} : \E n \in Nat : Worth(c, n, D)
    <3>1. IsFiniteSet({a} \cup {b}) /\ {a} \cup {b} = {a, b} /\ {a, b} \subseteq Fractions
      BY FS_Singleton, FS_Union
    <3>2. IsFiniteSet({a, b})
      BY <3>1
    <3>. QED BY <3>1, <3>2, CommonUnits
  <2>2. PICK n \in Nat : Worth(a, n, D)
    BY <2>1
  <2>3. PICK m \in Nat : Worth(b, m, D)
    BY <2>1
  <2>4. Worth(Plus(a, b), n + m, D)
    BY <2>2, <2>3, PlusWorth
  <2>. QED BY <2>4 DEF Worth
<1>2. op \in [S -> [Fractions -> Fractions]]
  BY <1>1
<1>3. Zero \in Fractions
  BY DEF Zero, Fractions
<1>4. Takes(taken, S)
  BY ChosenTakes
<1>. HIDE DEF op, taken
<1>0. IsFoldOver(op, Zero, taken, S, Fractions)
  BY <1>2, <1>3, <1>4 DEF IsFoldOver
<1>5. PICK g \in [SUBSET S -> Fractions] : Folds(g, op, Zero, taken, S)
  BY <1>0, FoldIs
<1>6. ASSUME NEW s \in SUBSET S, s # {} PROVE g[s] = Plus(f[Some(s)], g[s \ {Some(s)}])
  <2>1. taken[s] = Some(s) /\ taken[s] \in S
    <3>1. taken[s] \in s
      BY <1>4, <1>6 DEF Takes
    <3>. QED BY <3>1 DEF taken, Chosen
  <2>. DEFINE x == Some(s)
              r == s \ {x}
  <2>2. x \in S /\ r \in SUBSET S /\ g[s] = op[x][g[r]]
    BY <1>5, <1>6, <2>1 DEF Folds
  <2>. HIDE DEF x, r
  <2>3. g[r] \in Fractions
    BY <2>2
  <2>4. g[s] = Plus(f[x], g[r])
    BY <2>2, <2>3 DEF op
  <2>. QED BY <2>4 DEF x, r
<1>7. \A s \in SUBSET S : g[s] = IF s = {} THEN Zero ELSE Plus(f[Some(s)], g[s \ {Some(s)}])
  BY <1>5, <1>6 DEF Folds
<1>8. g = AddsUp(f, S, g)
  BY <1>7 DEF AddsUp
<1>. QED BY <1>8

\* A total is worth the sum of what its parts are worth.
LEMMA AddsUpWorth ==
  ASSUME NEW S, NEW v, Counts(v, S), NEW f, NEW D \in Units, \A x \in S : Worth(f[x], v[x], D),
         NEW g, g = AddsUp(f, S, g)
  PROVE  Worth(g[S], SumOver(v, S), D)
<1>. DEFINE good == {s \in SUBSET S : Worth(g[s], SumOver(v, s), D)}
<1>1. \A s \in SUBSET S : g[s] = IF s = {} THEN Zero ELSE Plus(f[Some(s)], g[s \ {Some(s)}])
  BY DEF AddsUp
<1>2. {} \in good
  <2>1. SumOver(v, {}) = 0
    BY CountsLess, SumIs
  <2>. QED BY <1>1, <2>1, ZeroWorth
<1>3. ASSUME NEW s \in SUBSET S, s # {}, s \ {Some(s)} \in good PROVE s \in good
  <2>. DEFINE x == Some(s)
              r == s \ {x}
  <2>1. x \in s
    BY <1>3 DEF Some
  <2>2. g[s] = Plus(f[x], g[r])
    BY <1>1, <1>3
  <2>3. Worth(g[r], SumOver(v, r), D)
    BY <1>3
  <2>. HIDE DEF x
  <2>4. Counts(v, s) /\ Counts(v, r)
    BY CountsLess
  <2>5. SumOver(v, s) = v[x] + SumOver(v, r) /\ SumOver(v, r) \in Nat /\ v[x] \in Nat
    BY <2>1, <2>4, SumIs DEF Counts
  <2>6. Worth(f[x], v[x], D)
    BY <2>1
  <2>7. Worth(Plus(f[x], g[r]), v[x] + SumOver(v, r), D)
    BY <2>3, <2>5, <2>6, PlusWorth
  <2>. QED BY <2>2, <2>5, <2>7
<1>. HIDE DEF good
<1>4. S \in good
  <2>1. GoesOn(good, Chosen(S), S) /\ Takes(Chosen(S), S) /\ IsFiniteSet(S)
    BY <1>2, <1>3, ChosenTakes DEF GoesOn, Chosen, Counts
  <2>. QED BY <2>1, Taking
<1>. QED BY <1>4 DEF good

(***************************************************************************)
(* The ledger.                                                             *)
(***************************************************************************)
\* A rate table: whole dollars, pods that are positive when they are given.
IsRates(rates) ==
  /\ \A p \in DOMAIN rates.costs : rates.costs[p] \in Nat
  /\ \A p \in DOMAIN rates.meta : /\ rates.meta[p].dollars \subseteq Nat /\ IsFiniteSet(rates.meta[p].dollars)
                                  /\ rates.meta[p].pods \in Nat
\* Any finite set of rows and of bills; "fleet" is the scope of the whole fleet, so no
\* pool has that name.
IsLedger(L) ==
  /\ IsFiniteSet(L.rows) /\ IsFiniteSet(L.bills) /\ IsRates(L.rates) /\ L.auto \in BOOLEAN
  /\ \A r \in L.rows : r.minutes \in Nat /\ r.hosted \in BOOLEAN /\ r.pool # "fleet"
  /\ \A b \in L.bills : b.dollars \in Nat

\* The sum of the minutes of rows, and of the dollars of bills.
LEMMA MinutesAre ==
  ASSUME NEW R, IsFiniteSet(R), \A r \in R : r.minutes \in Nat
  PROVE  LET f == [r \in R |-> r.minutes] IN Counts(f, R) /\ Minutes(R) = SumOver(f, R)
<1>. DEFINE f == [r \in R |-> r.minutes]
            Body(g) == [s \in SUBSET R |-> IF s = {} THEN 0
                          ELSE (CHOOSE x \in s : TRUE).minutes + g[s \ {CHOOSE x \in s : TRUE}]]
            iter == CHOOSE g : g = Body(g)
<1>1. Counts(f, R)
  BY DEF Counts
<1>2. Minutes(R) = iter[R]
  BY DEF Minutes, MapThenSumSet, MapThenFoldSet
<1>3. PICK w : Weighs(w, f, R)
  BY <1>1, WeighsExists
<1>4. \A g : Body(g) = Unfolds(f, R, g)
  BY DEF Unfolds, Some
<1>. HIDE DEF Body
<1>5. \A g : g = Body(g) <=> g = w
  <2>. HIDE DEF f
  <2>. QED BY <1>1, <1>3, <1>4, WeighsUnfolds
<1>6. iter = w
  BY <1>5
<1>7. SumOver(f, R) = w[R]
  <2>. HIDE DEF f
  <2>. QED BY <1>1, <1>3, SumWeighs
<1>. QED BY <1>1, <1>2, <1>6, <1>7

\* The sum of the dollars of bills.
LEMMA BillsAre ==
  ASSUME NEW B, IsFiniteSet(B), \A b \in B : b.dollars \in Nat
  PROVE  MapThenSumSet(LAMBDA b : b.dollars, B) \in Nat
<1>. DEFINE f == [b \in B |-> b.dollars]
            Body(g) == [s \in SUBSET B |-> IF s = {} THEN 0
                          ELSE (CHOOSE x \in s : TRUE).dollars + g[s \ {CHOOSE x \in s : TRUE}]]
            iter == CHOOSE g : g = Body(g)
<1>1. Counts(f, B)
  BY DEF Counts
<1>2. MapThenSumSet(LAMBDA b : b.dollars, B) = iter[B]
  BY DEF MapThenSumSet, MapThenFoldSet
<1>3. PICK w : Weighs(w, f, B)
  BY <1>1, WeighsExists
<1>4. \A g : Body(g) = Unfolds(f, B, g)
  BY DEF Unfolds, Some
<1>. HIDE DEF Body
<1>5. \A g : g = Body(g) <=> g = w
  <2>. HIDE DEF f
  <2>. QED BY <1>1, <1>3, <1>4, WeighsUnfolds
<1>6. iter = w
  BY <1>5
<1>7. w[B] \in Nat
  BY <1>3 DEF Weighs
<1>. QED BY <1>2, <1>6, <1>7

\* Every rate is a fraction, and a pool has finitely many.
LEMMA PoolRatesAre ==
  ASSUME NEW rates, IsRates(rates), NEW pool
  PROVE  PoolRate(rates, pool) \subseteq Fractions /\ IsFiniteSet(PoolRate(rates, pool))
<1>. DEFINE m1 == MetaRate(rates, pool)
            m2 == FlatRate(rates, pool)
            m3 == MetaRate(rates, "default")
            m4 == FlatRate(rates, "default")
            sources == <<m1, m2, m3, m4>>
            first   == {i \in 1 .. 4 : sources[i] # {} /\ \A j \in 1 .. i - 1 : sources[j] = {}}
            chosen  == UNION {sources[i] : i \in first}
            pods    == PodsOf(rates, pool)
            all     == (m1 \cup m2) \cup (m3 \cup m4)
<1>1. ASSUME NEW p PROVE /\ MetaRate(rates, p) \subseteq Nat /\ IsFiniteSet(MetaRate(rates, p))
                         /\ FlatRate(rates, p) \subseteq Nat /\ IsFiniteSet(FlatRate(rates, p))
  <2>1. MetaRate(rates, p) \subseteq Nat /\ IsFiniteSet(MetaRate(rates, p))
    BY FS_EmptySet DEF MetaRate, IsRates
  <2>2. FlatRate(rates, p) \subseteq Nat /\ FlatRate(rates, p) \subseteq {rates.costs[p]}
    BY DEF FlatRate, IsRates
  <2>3. IsFiniteSet({rates.costs[p]})
    BY FS_Singleton
  <2>4. IsFiniteSet(FlatRate(rates, p))
    BY <2>2, <2>3, FS_Subset
  <2>. QED BY <2>1, <2>2, <2>4
<1>2. pods \in Units
  <2>. DEFINE packed == {p \in {pool, "default"} \cap DOMAIN rates.meta : rates.meta[p].pods # 0}
  <2>1. \A p \in packed : rates.meta[p].pods \in Units
    BY DEF IsRates, Units
  <2>2. CASE packed = {}
    BY <2>2 DEF PodsOf, Units
  <2>3. CASE packed # {} /\ pool \in packed
    BY <2>1, <2>3 DEF PodsOf
  <2>4. CASE packed # {} /\ pool \notin packed
    <3>1. "default" \in packed
      BY <2>4
    <3>2. PodsOf(rates, pool) = rates.meta["default"].pods
      BY <2>4 DEF PodsOf
    <3>. QED BY <2>1, <3>1, <3>2
  <2>. QED BY <2>2, <2>3, <2>4
<1>3. PoolRate(rates, pool) = {<<d, pods>> : d \in chosen}
  BY DEF PoolRate
<1>4. all \subseteq Nat /\ IsFiniteSet(all)
  <2>1. IsFiniteSet(m1 \cup m2) /\ IsFiniteSet(m3 \cup m4)
    BY <1>1, FS_Union
  <2>. QED BY <1>1, <2>1, FS_Union
<1>5. chosen \subseteq all
  <2>1. \A i \in first : sources[i] \in {m1, m2, m3, m4}
    <3>1. \A i \in 1 .. 4 : i = 1 \/ i = 2 \/ i = 3 \/ i = 4
      OBVIOUS
    <3>. HIDE DEF m1, m2, m3, m4
    <3>2. sources[1] = m1 /\ sources[2] = m2 /\ sources[3] = m3 /\ sources[4] = m4
      OBVIOUS
    <3>. QED BY <3>1, <3>2
  <2>. HIDE DEF first, sources, m1, m2, m3, m4
  <2>. QED BY <2>1
<1>. HIDE DEF chosen, pods, all
<1>6. chosen \subseteq Nat /\ IsFiniteSet(chosen)
  BY <1>4, <1>5, FS_Subset
<1>. DEFINE f == [d \in chosen |-> <<d, pods>>]
<1>7. IsFiniteSet({f[d] : d \in chosen})
  <2>. HIDE DEF f
  <2>. QED BY <1>6, ImageIs
<1>8. {f[d] : d \in chosen} = {<<d, pods>> : d \in chosen}
  OBVIOUS
<1>9. {<<d, pods>> : d \in chosen} \subseteq Fractions
  BY <1>2, <1>6 DEF Fractions, Units
<1>. QED BY <1>3, <1>7, <1>8, <1>9

\* Rows and bills that can be priced.
Priceable(R, bills, rates) ==
  /\ IsFiniteSet(R) /\ \A r \in R : r.minutes \in Nat /\ r.hosted \in BOOLEAN /\ r.pool # "fleet"
  /\ IsFiniteSet(bills) /\ \A b \in bills : b.dollars \in Nat
  /\ IsRates(rates)
FleetBill(bills) == MapThenSumSet(LAMBDA b : b.dollars, {b \in bills : b.scope = "fleet"})
OwnRows(R) == {r \in R : ~r.hosted}

\* The blended rate is the fleet's bill over the minutes of its own runners, or none.
LEMMA BlendedIs ==
  ASSUME NEW R, NEW bills, NEW rates, Priceable(R, bills, rates), NEW auto
  PROVE  /\ BlendedFleetRate(auto, R, bills) \in {{}, {<<FleetBill(bills), Minutes(OwnRows(R))>>}}
         /\ BlendedFleetRate(auto, R, bills) # {} => Minutes(OwnRows(R)) \in Units
         /\ FleetBill(bills) \in Nat
<1>1. FleetBill(bills) \in Nat
  <2>. DEFINE B == {b \in bills : b.scope = "fleet"}
  <2>1. IsFiniteSet(B) /\ \A b \in B : b.dollars \in Nat
    BY FS_Subset DEF Priceable
  <2>. HIDE DEF B
  <2>2. MapThenSumSet(LAMBDA b : b.dollars, B) \in Nat
    BY <2>1, BillsAre
  <2>. QED BY <2>2 DEF FleetBill, B
<1>2. Minutes(OwnRows(R)) \in Nat
  <2>1. IsFiniteSet(OwnRows(R)) /\ \A r \in OwnRows(R) : r.minutes \in Nat
    BY FS_Subset DEF Priceable, OwnRows
  <2>. DEFINE f == [r \in OwnRows(R) |-> r.minutes]
  <2>2. Counts(f, OwnRows(R)) /\ Minutes(OwnRows(R)) = SumOver(f, OwnRows(R))
    BY <2>1, MinutesAre
  <2>. HIDE DEF f
  <2>. QED BY <2>2, SumIs
<1>3. BlendedFleetRate(auto, R, bills) \in {{}, EmpiricalRate(FleetBill(bills), Minutes(OwnRows(R)))}
  BY DEF BlendedFleetRate, FleetBill, OwnRows
<1>. QED BY <1>1, <1>2, <1>3 DEF EmpiricalRate, Units

\* The rates of a pool are finitely many fractions.
LEMMA RatesAre ==
  ASSUME NEW R, NEW bills, NEW rates, Priceable(R, bills, rates), NEW auto, NEW pool
  PROVE  LET X == RateFor(R, auto, bills, rates, pool) IN X \subseteq Fractions /\ IsFiniteSet(X)
<1>1. CASE RateFor(R, auto, bills, rates, pool) = PoolRate(rates, pool)
  BY <1>1, PoolRatesAre DEF Priceable
<1>2. CASE RateFor(R, auto, bills, rates, pool) = BlendedFleetRate(auto, R, bills)
               /\ BlendedFleetRate(auto, R, bills) # {}
  <2>1. BlendedFleetRate(auto, R, bills) = {<<FleetBill(bills), Minutes(OwnRows(R))>>}
    BY <1>2, BlendedIs
  <2>2. <<FleetBill(bills), Minutes(OwnRows(R))>> \in Fractions
    BY <1>2, BlendedIs DEF Fractions, Units
  <2>. DEFINE a == <<FleetBill(bills), Minutes(OwnRows(R))>>
  <2>. HIDE DEF a
  <2>3. IsFiniteSet({a})
    BY FS_Singleton
  <2>. QED BY <1>2, <2>1, <2>2, <2>3 DEF a
<1>. QED BY <1>1, <1>2 DEF RateFor

\* A row is worth its minutes times the units of its rates.
LEMMA PricedWorth ==
  ASSUME NEW R, NEW auto, NEW bills, NEW rates, NEW r, r.minutes \in Nat, NEW X,
         X = RateFor(R, auto, bills, rates, r.pool), NEW D \in Units, NEW unit, Counts(unit, X),
         \A a \in X : Worth(a, unit[a], D)
  PROVE  Worth(Priced(R, auto, bills, rates, r), r.minutes * SumOver(unit, X), D)
<1>. DEFINE k == r.minutes
            f == [a \in X |-> Times(k, a)]
            v == [a \in X |-> k * unit[a]]
            Body(g) == [s \in SUBSET X |-> IF s = {} THEN Zero
                          ELSE Plus(Times(k, CHOOSE x \in s : TRUE), g[s \ {CHOOSE x \in s : TRUE}])]
            iter == CHOOSE g : g = Body(g)
<1>1. Priced(R, auto, bills, rates, r) = iter[X]
  BY DEF Priced, Total, MapThenFoldSet
<1>2. Counts(v, X) /\ \A a \in X : v[a] = k * unit[a]
  <2>1. \A a \in X : k * unit[a] \in Nat
    BY DEF Counts
  <2>. QED BY <2>1 DEF Counts
<1>3. \A a \in X : Worth(f[a], v[a], D)
  BY TimesWorth DEF Counts
<1>4. \A g : Body(g) = AddsUp(f, X, g)
  BY DEF AddsUp, Some
<1>5. IsFiniteSet(X) /\ \A a \in X : f[a] \in Fractions
  BY <1>3 DEF Counts, Worth
<1>. HIDE DEF Body, f, v
<1>6. iter = Body(iter)
  <2>1. \E g : g = AddsUp(f, X, g)
    BY <1>5, AddsUpExists
  <2>. QED BY <1>4, <2>1
<1>. HIDE DEF iter
<1>7. Worth(iter[X], SumOver(v, X), D)
  BY <1>2, <1>3, <1>4, <1>6, AddsUpWorth
<1>8. SumOver(v, X) = k * SumOver(unit, X)
  BY <1>2, SumTimes
<1>. QED BY <1>1, <1>7, <1>8

\* The dollars of rows are worth the sum of what the rows are worth.
LEMMA DollarsWorth ==
  ASSUME NEW R, NEW auto, NEW bills, NEW rates, NEW S, NEW price, Counts(price, S), NEW D \in Units,
         \A r \in S : Worth(Priced(R, auto, bills, rates, r), price[r], D)
  PROVE  \A d \in Dollars(R, auto, bills, rates, S) : Worth(d, SumOver(price, S), D)
<1>. DEFINE f == [r \in S |-> Priced(R, auto, bills, rates, r)]
            Body(g) == [s \in SUBSET S |-> IF s = {} THEN Zero
                          ELSE Plus(Priced(R, auto, bills, rates, CHOOSE x \in s : TRUE),
                                    g[s \ {CHOOSE x \in s : TRUE}])]
            iter == CHOOSE g : g = Body(g)
<1>1. Dollars(R, auto, bills, rates, S) \subseteq {iter[S]}
  BY DEF Dollars, Total, MapThenFoldSet
<1>2. \A r \in S : Worth(f[r], price[r], D)
  OBVIOUS
<1>3. \A g : Body(g) = AddsUp(f, S, g)
  BY DEF AddsUp, Some
<1>4. IsFiniteSet(S) /\ \A r \in S : f[r] \in Fractions
  BY <1>2 DEF Counts, Worth
<1>. HIDE DEF Body, f
<1>5. iter = Body(iter)
  <2>1. \E g : g = AddsUp(f, S, g)
    BY <1>4, AddsUpExists
  <2>. QED BY <1>3, <2>1
<1>. HIDE DEF iter
<1>6. Worth(iter[S], SumOver(price, S), D)
  BY <1>2, <1>3, <1>5, AddsUpWorth
<1>. QED BY <1>1, <1>6

\* With the rate derived from the bills, what the fleet's own rows cost is its bill.
LEMMA OwnRowsCarryTheBill ==
  ASSUME NEW R, NEW bills, NEW rates, Priceable(R, bills, rates), NEW auto,
         BlendedFleetRate(auto, R, bills) # {}, \A r, q \in R : r.pool = q.pool => r.hosted = q.hosted,
         NEW S, S \subseteq OwnRows(R), NEW d \in Dollars(R, auto, bills, rates, S)
  PROVE  /\ AtMost(d, <<FleetBill(bills), 1>>)
         /\ S = OwnRows(R) => Equal(d, <<FleetBill(bills), 1>>)
<1>. DEFINE bill == FleetBill(bills)
            all == Minutes(OwnRows(R))
            spent == [r \in OwnRows(R) |-> r.minutes]
            price == [r \in OwnRows(R) |-> r.minutes * bill]
<1>1. bill \in Nat /\ all \in Units /\ BlendedFleetRate(auto, R, bills) = {<<bill, all>>}
  BY BlendedIs
<1>2. IsFiniteSet(OwnRows(R)) /\ \A r \in OwnRows(R) : r.minutes \in Nat
  BY FS_Subset DEF Priceable, OwnRows
<1>3. Counts(spent, OwnRows(R)) /\ all = SumOver(spent, OwnRows(R))
  BY <1>2, MinutesAre
<1>. HIDE DEF bill, all
<1>4. Counts(price, OwnRows(R))
  BY <1>1, <1>2 DEF Counts
<1>5. ASSUME NEW r \in OwnRows(R) PROVE Worth(Priced(R, auto, bills, rates, r), price[r], all)
  <2>. DEFINE X == RateFor(R, auto, bills, rates, r.pool)
              a == <<bill, all>>
              unit == [c \in X |-> bill]
  <2>1. r.pool \notin HostedPools(R)
    BY DEF HostedPools, OwnRows, Priceable
  <2>2. X = {a}
    BY <1>1, <2>1 DEF RateFor
  <2>3. Worth(a, bill, all)
    BY <1>1 DEF Worth, Fractions, Equal, Units
  <2>4. unit[a] = bill
    BY <2>2
  <2>. HIDE DEF a, X, unit
  <2>5. Counts(unit, X)
    BY <1>1, <2>2, <2>4, FS_Singleton DEF Counts
  <2>6. SumOver(unit, X) = bill
    <3>1. X \ {a} = {} /\ a \in X
      BY <2>2
    <3>2. SumOver(unit, X) = unit[a] + SumOver(unit, {})
      BY <2>5, <3>1, SumIs
    <3>3. SumOver(unit, {}) = 0
      BY <2>5, SumIs, CountsLess
    <3>. QED BY <1>1, <2>4, <3>2, <3>3
  <2>7. \A c \in X : Worth(c, unit[c], all)
    BY <2>2, <2>3, <2>4
  <2>8. r.minutes \in Nat
    BY <1>2
  <2>9. Worth(Priced(R, auto, bills, rates, r), r.minutes * SumOver(unit, X), all)
    BY <1>1, <2>5, <2>7, <2>8, PricedWorth DEF X
  <2>. QED BY <2>6, <2>9
<1>6. Counts(price, S)
  BY <1>4, CountsLess
<1>7. Worth(d, SumOver(price, S), all)
  <2>1. \A r \in S : Worth(Priced(R, auto, bills, rates, r), price[r], all)
    BY <1>5
  <2>. HIDE DEF price
  <2>. QED BY <1>1, <1>6, <2>1, DollarsWorth
<1>8. SumOver(price, S) \in Nat /\ SumOver(price, S) <= bill * all /\ (S = OwnRows(R) => SumOver(price, S) = bill * all)
  <2>1. \A r \in OwnRows(R) : price[r] = bill * spent[r]
    BY <1>1, <1>2
  <2>. HIDE DEF price, spent
  <2>2. SumOver(price, OwnRows(R)) = bill * all
    BY <1>1, <1>3, <2>1, SumTimes
  <2>3. SumOver(price, S) <= SumOver(price, OwnRows(R))
    BY <1>4, SumOfLess
  <2>. QED BY <1>6, <2>2, <2>3, SumIs
<1>. HIDE DEF price, spent
<1>. DEFINE n == SumOver(price, S)
            p == d[1]
            q == d[2]
<1>9. p \in Nat /\ q \in Nat /\ p * all = n * q /\ n \in Nat /\ n <= bill * all /\ (S = OwnRows(R) => n = bill * all)
  BY <1>7, <1>8, WorthIs, FractionIs
<1>. HIDE DEF n, p, q
<1>10. all \in Nat /\ all # 0 /\ bill \in Nat /\ bill * q \in Nat
  BY <1>1, <1>9 DEF Units
<1>11. n * q <= (bill * all) * q /\ (bill * all) * q = (bill * q) * all
  <2>1. \A x, y, z \in Nat : x <= y => x * z <= y * z
    <3>. SUFFICES ASSUME NEW x \in Nat, NEW y \in Nat, NEW z \in Nat, x <= y PROVE x * z <= y * z
      OBVIOUS
    <3>1. (y - x) * z \in Nat /\ (y - x) * z = y * z - x * z /\ x * z \in Nat /\ y * z \in Nat
      OBVIOUS
    <3>. QED BY <3>1
  <2>. QED BY <1>9, <1>10, <2>1
<1>12. p <= bill * q
  <2>. SUFFICES ASSUME ~ (p <= bill * q) PROVE FALSE
    OBVIOUS
  <2>1. p - bill * q - 1 \in Nat
    BY <1>9, <1>10
  <2>2. (p - bill * q - 1) * all \in Nat /\ (p - bill * q - 1) * all = p * all - (bill * q) * all - all
    BY <1>9, <1>10, <2>1
  <2>3. p * all \in Nat /\ (bill * q) * all \in Nat
    BY <1>9, <1>10
  <2>. QED BY <1>9, <1>10, <1>11, <2>2, <2>3
<1>13. S = OwnRows(R) => p = bill * q
  <2>. SUFFICES ASSUME S = OwnRows(R) PROVE p = bill * q
    OBVIOUS
  <2>1. p * all = (bill * q) * all
    BY <1>9, <1>11
  <2>2. \A x, y \in Nat : x * all = y * all => x = y
    BY <1>10
  <2>. QED BY <1>9, <1>10, <2>1, <2>2
<1>. QED BY <1>9, <1>12, <1>13 DEF AtMost, Equal, p, q, bill

\* All the rows have a common unit in which they can be priced.
LEMMA RowsHaveAPrice ==
  ASSUME NEW R, NEW bills, NEW rates, Priceable(R, bills, rates), NEW auto
  PROVE  \E D \in Units : \E price : /\ Counts(price, R)
                                     /\ \A r \in R : Worth(Priced(R, auto, bills, rates, r), price[r], D)
<1>. DEFINE X(r) == RateFor(R, auto, bills, rates, r.pool)
            good == {s \in SUBSET R : /\ UNION {X(r) : r \in s} \subseteq Fractions
                                      /\ IsFiniteSet(UNION {X(r) : r \in s})}
            all == UNION {X(r) : r \in R}
<1>1. \A r \in R : X(r) \subseteq Fractions /\ IsFiniteSet(X(r))
  BY RatesAre
<1>. HIDE DEF X
<1>2. {} \in good
  <2>1. UNION {X(r) : r \in {}} = {}
    OBVIOUS
  <2>. QED BY <2>1, FS_EmptySet
<1>3. ASSUME NEW s \in SUBSET R, NEW r \in R, s \in good PROVE s \cup {r} \in good
  <2>1. UNION {X(q) : q \in s \cup {r}} = (UNION {X(q) : q \in s}) \cup X(r)
    OBVIOUS
  <2>2. IsFiniteSet((UNION {X(q) : q \in s}) \cup X(r))
    BY <1>1, <1>3, FS_Union
  <2>. QED BY <1>1, <1>3, <2>1, <2>2
<1>4. IsFiniteSet(R) /\ \A r \in R : r.minutes \in Nat
  BY DEF Priceable
<1>. HIDE DEF good
<1>5. R \in good
  <2>1. Grows(good, R)
    BY <1>2, <1>3 DEF Grows
  <2>. QED BY <1>4, <2>1, Growing
<1>6. IsFiniteSet(all) /\ all \subseteq Fractions
  BY <1>5 DEF good
<1>7. \A r \in R : X(r) \subseteq all
  OBVIOUS
<1>. HIDE DEF all
<1>8. PICK D \in Units : \A a \in all : \E n \in Nat : Worth(a, n, D)
  BY <1>6, CommonUnits
<1>. DEFINE unit == [a \in all |-> CHOOSE n \in Nat : Worth(a, n, D)]
            price == [r \in R |-> r.minutes * SumOver(unit, X(r))]
<1>9. \A a \in all : unit[a] \in Nat /\ Worth(a, unit[a], D)
  BY <1>8
<1>. HIDE DEF unit
<1>10. ASSUME NEW r \in R
       PROVE  price[r] \in Nat /\ Worth(Priced(R, auto, bills, rates, r), price[r], D)
  <2>1. Counts(unit, X(r)) /\ \A a \in X(r) : Worth(a, unit[a], D)
    BY <1>1, <1>7, <1>9 DEF Counts
  <2>2. Worth(Priced(R, auto, bills, rates, r), r.minutes * SumOver(unit, X(r)), D)
    BY <1>4, <1>8, <2>1, PricedWorth DEF X
  <2>3. SumOver(unit, X(r)) \in Nat
    BY <2>1, SumIs
  <2>4. r.minutes * SumOver(unit, X(r)) \in Nat
    BY <1>4, <2>3
  <2>. QED BY <2>2, <2>4
<1>11. Counts(price, R)
  BY <1>4, <1>10 DEF Counts
<1>. HIDE DEF price
<1>. QED BY <1>8, <1>10, <1>11

\* The total of a single figure is that figure.
LEMMA SingleTotal ==
  ASSUME NEW D \in Units, NEW n \in Nat, NEW d, Worth(d, n, D)
  PROVE  Worth(Total(LAMBDA x : x, {d}), n, D)
<1>. DEFINE S == {d}
            f == [x \in S |-> x]
            v == [x \in S |-> n]
            Body(g) == [s \in SUBSET S |-> IF s = {} THEN Zero
                          ELSE Plus(CHOOSE x \in s : TRUE, g[s \ {CHOOSE x \in s : TRUE}])]
            iter == CHOOSE g : g = Body(g)
<1>1. Total(LAMBDA x : x, S) = iter[S]
  BY DEF Total, MapThenFoldSet
<1>2. Counts(v, S) /\ \A x \in S : Worth(f[x], v[x], D)
  BY FS_Singleton DEF Counts
<1>3. \A g : Body(g) = AddsUp(f, S, g)
  BY DEF AddsUp, Some
<1>4. IsFiniteSet(S) /\ \A x \in S : f[x] \in Fractions
  BY <1>2, FS_Singleton DEF Worth
<1>5. v[d] = n /\ d \in S /\ S \ {d} = {}
  OBVIOUS
<1>. HIDE DEF Body, f, v, S
<1>6. iter = Body(iter)
  <2>1. \E g : g = AddsUp(f, S, g)
    BY <1>4, AddsUpExists
  <2>. QED BY <1>3, <2>1
<1>. HIDE DEF iter
<1>7. Worth(iter[S], SumOver(v, S), D)
  BY <1>2, <1>3, <1>6, AddsUpWorth
<1>8. SumOver(v, S) = n
  <2>1. SumOver(v, S) = n + SumOver(v, {}) /\ SumOver(v, {}) = 0
    BY <1>2, <1>5, SumIs, CountsLess
  <2>. QED BY <2>1
<1>. QED BY <1>1, <1>7, <1>8 DEF S

\* What the tab shows of a repository, and of all of them together.
ShownOf(L, R, repo) == CostOfRepo(R, L.auto, L.bills, L.rates, repo).total.dollars
DollarsOf(L, R, repo) == Total(LAMBDA x : x, ShownOf(L, R, repo))
ShownOfAll(L, R) == Total(LAMBDA repo : DollarsOf(L, R, repo), {r.repo : r \in R})

\* The repositories are shown what all their rows are worth.
LEMMA RepositoriesAddUp ==
  ASSUME NEW L, NEW R, Priceable(R, L.bills, L.rates), HasRates(R, L.auto, L.bills, L.rates),
         NEW D \in Units, NEW price, Counts(price, R),
         \A r \in R : Worth(Priced(R, L.auto, L.bills, L.rates, r), price[r], D)
  PROVE  Worth(ShownOfAll(L, R), SumOver(price, R), D)
<1>. DEFINE repoOf == [r \in R |-> r.repo]
            S == {r.repo : r \in R}
            mine(repo) == {r \in R : r.repo = repo}
            f == [repo \in S |-> DollarsOf(L, R, repo)]
            sums == [repo \in S |-> SumOver(price, mine(repo))]
            Body(g) == [s \in SUBSET S |-> IF s = {} THEN Zero
                          ELSE Plus(DollarsOf(L, R, CHOOSE x \in s : TRUE),
                                    g[s \ {CHOOSE x \in s : TRUE}])]
            iter == CHOOSE g : g = Body(g)
<1>1. ShownOfAll(L, R) = iter[S]
  BY DEF ShownOfAll, Total, MapThenFoldSet
<1>2. IsFiniteSet(S)
  <2>1. S = {repoOf[r] : r \in R} /\ IsFiniteSet(R)
    BY DEF Priceable
  <2>. HIDE DEF S, repoOf
  <2>. QED BY <2>1, ImageIs
<1>3. \A g : Body(g) = AddsUp(f, S, g)
  <2>1. \A s \in SUBSET S : s # {} => (CHOOSE x \in s : TRUE) \in S
    OBVIOUS
  <2>2. \A s \in SUBSET S : s # {} => f[CHOOSE x \in s : TRUE]
                                      = DollarsOf(L, R, CHOOSE x \in s : TRUE)
    BY <2>1
  <2>. HIDE DEF f, S
  <2>. QED BY <2>2 DEF AddsUp, Some
<1>4. ASSUME NEW repo \in S
      PROVE  sums[repo] = SumOver(price, Part(R, repoOf, repo)) /\ sums[repo] \in Nat
             /\ Worth(f[repo], sums[repo], D)
  <2>. DEFINE own == mine(repo)
              d == Total(LAMBDA r : Priced(R, L.auto, L.bills, L.rates, r), own)
  <2>1. ShownOf(L, R, repo) = Dollars(R, L.auto, L.bills, L.rates, own)
    BY DEF ShownOf, CostOfRepo, Figure
  <2>2. Dollars(R, L.auto, L.bills, L.rates, own) = {d}
    BY DEF Dollars
  <2>3. own \subseteq R /\ own = Part(R, repoOf, repo) /\ sums[repo] = SumOver(price, own)
    BY DEF Part
  <2>4. \A r \in own : Worth(Priced(R, L.auto, L.bills, L.rates, r), price[r], D)
    BY <2>3
  <2>5. f[repo] = Total(LAMBDA x : x, ShownOf(L, R, repo))
    BY DEF DollarsOf
  <2>. HIDE DEF own, d, f, sums, repoOf, S
  <2>6. Counts(price, own)
    BY <2>3, CountsLess
  <2>7. SumOver(price, own) \in Nat
    BY <2>6, SumIs
  <2>8. Worth(d, SumOver(price, own), D)
    <3>1. \A e \in Dollars(R, L.auto, L.bills, L.rates, own) : Worth(e, SumOver(price, own), D)
      BY <2>4, <2>6, DollarsWorth
    <3>. QED BY <2>2, <3>1
  <2>9. Worth(Total(LAMBDA x : x, {d}), SumOver(price, own), D)
    BY <2>7, <2>8, SingleTotal
  <2>. QED BY <2>1, <2>2, <2>3, <2>5, <2>7, <2>9
<1>5. IsFiniteSet(S) /\ \A repo \in S : f[repo] \in Fractions
  BY <1>2, <1>4 DEF Worth
<1>6. Counts(sums, S) /\ SumOver(sums, S) = SumOver(price, R)
  <2>1. \A r \in R : repoOf[r] \in S
    OBVIOUS
  <2>2. \A repo \in S : sums[repo] = SumOver(price, Part(R, repoOf, repo))
    BY <1>4
  <2>. HIDE DEF S, repoOf, sums
  <2>. QED BY <1>2, <2>1, <2>2, SumOfParts
<1>7. \A repo \in S : Worth(f[repo], sums[repo], D)
  BY <1>4
<1>. HIDE DEF Body, f, S, sums
<1>8. iter = Body(iter)
  <2>1. \E g : g = AddsUp(f, S, g)
    BY <1>5, AddsUpExists
  <2>. QED BY <1>3, <2>1
<1>. HIDE DEF iter
<1>9. Worth(iter[S], SumOver(sums, S), D)
  BY <1>3, <1>6, <1>7, <1>8, AddsUpWorth
<1>. QED BY <1>1, <1>6, <1>9

\* The lane shows what all the rows are worth when all their events have a stage.
LEMMA LaneAddsUp ==
  ASSUME NEW L, NEW R, Priceable(R, L.bills, L.rates), \A r \in R : r.event \in StageEvents,
         NEW d \in CostSummary(R, L.auto, L.bills, L.rates).total
  PROVE  Equal(d, ShownOfAll(L, R))
<1>1. {r \in R : r.event \in StageEvents} = R
  OBVIOUS
<1>2. d \in Dollars(R, L.auto, L.bills, L.rates, R)
  BY <1>1 DEF CostSummary
<1>3. HasRates(R, L.auto, L.bills, L.rates)
  BY <1>2 DEF Dollars
<1>9. PICK D \in Units : \E price : /\ Counts(price, R)
                                     /\ \A r \in R : Worth(Priced(R, L.auto, L.bills, L.rates, r), price[r], D)
  BY RowsHaveAPrice
<1>4. PICK price : /\ Counts(price, R)
                   /\ \A r \in R : Worth(Priced(R, L.auto, L.bills, L.rates, r), price[r], D)
  BY <1>9
<1>5. Worth(d, SumOver(price, R), D)
  BY <1>2, <1>4, DollarsWorth
<1>6. Worth(ShownOfAll(L, R), SumOver(price, R), D)
  BY <1>3, <1>4, RepositoriesAddUp
<1>7. SumOver(price, R) \in Nat
  BY <1>4, SumIs
<1>. QED BY <1>4, <1>5, <1>6, <1>7, SameWorth

\* The kept rows of a ledger can be priced.
LEMMA KeptRows ==
  ASSUME NEW L, IsLedger(L)
  PROVE  Priceable(Kept(L.rows, {}, {}), L.bills, L.rates)
<1>. DEFINE R == Kept(L.rows, {}, {})
<1>1. R \subseteq L.rows
  BY DEF Kept
<1>2. IsFiniteSet(L.rows)
  BY DEF IsLedger
<1>. HIDE DEF R
<1>3. IsFiniteSet(R)
  BY <1>1, <1>2, FS_Subset
<1>4. Priceable(R, L.bills, L.rates)
  BY <1>1, <1>3 DEF IsLedger, Priceable
<1>. QED BY <1>4 DEF R

\* For any ledger of finitely many rows and bills and any rates, in whole dollars: with
\* the derived rate the fleet's jobs carry exactly its bill and nothing attributed to
\* the fleet exceeds it, and the cost lane shows what the repositories' tabs add up to.
THEOREM BillsAreExplained == ASSUME part = "cost" => IsLedger(input) PROVE BillIsExplained
<1>. SUFFICES ASSUME part = "cost" PROVE BillIsExplained
  BY DEF BillIsExplained
<1>. DEFINE L == input
            R == Kept(L.rows, {}, {})
            bill == FleetBill(L.bills)
            lane == CostSummary(R, L.auto, L.bills, L.rates).total
            unmixed == \A r, q \in R : r.pool = q.pool => r.hosted = q.hosted
            blended == BlendedFleetRate(L.auto, R, L.bills)
<1>1. Priceable(R, L.bills, L.rates)
  BY KeptRows
<1>2. ASSUME unmixed, blended # {}
      PROVE  /\ \A d \in Dollars(R, L.auto, L.bills, L.rates, {r \in R : ~r.hosted}) : Equal(d, <<bill, 1>>)
             /\ \A a \in CostActuals(R, L.auto, L.bills, L.rates, "fleet", 4).attributed : AtMost(a, <<bill, 1>>)
  <2>1. {r \in R : ~r.hosted} = OwnRows(R)
    BY DEF OwnRows
  <2>2. ASSUME NEW days PROVE {r \in R : "fleet" \in Scopes(r) /\ r.day \in days} \subseteq OwnRows(R)
    BY <1>1 DEF Scopes, OwnRows, Priceable
  <2>3. PICK days : CostActuals(R, L.auto, L.bills, L.rates, "fleet", 4).attributed
                      = Attributed(R, L.auto, L.bills, L.rates, "fleet", days)
    BY DEF CostActuals
  <2>. DEFINE S == {r \in R : "fleet" \in Scopes(r) /\ r.day \in days}
  <2>4. CostActuals(R, L.auto, L.bills, L.rates, "fleet", 4).attributed = Dollars(R, L.auto, L.bills, L.rates, S)
    BY <2>3 DEF Attributed
  <2>5. S \subseteq OwnRows(R)
    BY <2>2
  <2>. HIDE DEF R, S, bill
  <2>6. \A a \in Dollars(R, L.auto, L.bills, L.rates, S) : AtMost(a, <<FleetBill(L.bills), 1>>)
    BY <1>1, <1>2, <2>5, OwnRowsCarryTheBill
  <2>7. \A d \in Dollars(R, L.auto, L.bills, L.rates, OwnRows(R)) : Equal(d, <<FleetBill(L.bills), 1>>)
    BY <1>1, <1>2, OwnRowsCarryTheBill
  <2>. QED BY <2>1, <2>4, <2>6, <2>7 DEF bill
<1>3. \A repo : lane = {} <=> ShownOf(L, R, repo) = {}
  BY DEF CostSummary, ShownOf, CostOfRepo, Figure, Dollars
<1>4. (\A r \in R : r.event \in StageEvents) => \A d \in lane : Equal(d, ShownOfAll(L, R))
  <2>. HIDE DEF R
  <2>. QED BY <1>1, LaneAddsUp
<1>. HIDE DEF R, L
<1>. QED BY <1>2, <1>3, <1>4 DEF BillIsExplained, FleetBill, ShownOf, ShownOfAll, DollarsOf, R, L

(***************************************************************************)
(* Slack.                                                                  *)
(***************************************************************************)
\* The largest and the smallest of a finite set of integers are in it.
LEMMA Extremes ==
  ASSUME NEW S, IsFiniteSet(S), S \subseteq Int, S # {}
  PROVE  /\ Max(S) \in S /\ \A x \in S : x <= Max(S)
         /\ Min(S) \in S /\ \A x \in S : Min(S) <= x
<1>. DEFINE good == {s \in SUBSET S : s = {} \/ ((\E x \in s : \A y \in s : y <= x)
                                                 /\ (\E x \in s : \A y \in s : x <= y))}
<1>1. {} \in good
  OBVIOUS
<1>2. ASSUME NEW s \in SUBSET S, NEW x \in S, s \in good, x \notin s PROVE s \cup {x} \in good
  <2>1. CASE s = {}
    BY <2>1
  <2>2. CASE s # {}
    <3>1. PICK a \in s : \A y \in s : y <= a
      BY <1>2, <2>2
    <3>2. PICK b \in s : \A y \in s : b <= y
      BY <1>2, <2>2
    <3>3. \E c \in s \cup {x} : \A y \in s \cup {x} : y <= c
      <4>1. CASE x <= a
        BY <3>1, <4>1
      <4>2. CASE ~ (x <= a)
        BY <3>1, <4>2
      <4>. QED BY <4>1, <4>2
    <3>4. \E c \in s \cup {x} : \A y \in s \cup {x} : c <= y
      <4>1. CASE b <= x
        BY <3>2, <4>1
      <4>2. CASE ~ (b <= x)
        BY <3>2, <4>2
      <4>. QED BY <4>1, <4>2
    <3>. QED BY <3>3, <3>4
  <2>. QED BY <2>1, <2>2
<1>. HIDE DEF good
<1>3. S \in good
  <2>1. Grows(good, S)
    BY <1>1, <1>2 DEF Grows
  <2>. QED BY <2>1, Growing
<1>4. \E x \in S : \A y \in S : x >= y
  BY <1>3 DEF good
<1>5. \E x \in S : \A y \in S : x <= y
  BY <1>3 DEF good
<1>6. Max(S) \in S /\ \A x \in S : Max(S) >= x
  BY <1>4 DEF Max
<1>7. Min(S) \in S /\ \A x \in S : Min(S) <= x
  BY <1>5 DEF Min
<1>. QED BY <1>6, <1>7

\* What is true of an element when it is of all those of smaller rank is true of all.
Climbs(good, D, rank) ==
  /\ rank \in [D -> Nat]
  /\ \A d \in D : (\A c \in D : rank[c] < rank[d] => c \in good) => d \in good

\* Induction over a rank.
LEMMA Climbing ==
  ASSUME NEW D, NEW rank, NEW good, Climbs(good, D, rank) PROVE D \subseteq good
<1>. DEFINE bad == {d \in D : d \notin good}
            ranks == {rank[d] : d \in bad}
            least == Min(ranks)
<1>. SUFFICES ASSUME bad # {} PROVE FALSE
  OBVIOUS
<1>1. ranks \subseteq Nat /\ ranks # {}
  BY DEF Climbs
<1>2. least \in ranks /\ \A k \in ranks : least <= k
  <2>. HIDE DEF ranks
  <2>. QED BY <1>1, HasMin
<1>3. PICK d \in bad : least = rank[d]
  BY <1>2
<1>4. \A c \in D : rank[c] < rank[d] => c \in good
  <2>. HIDE DEF least
  <2>. SUFFICES ASSUME NEW c \in D, rank[c] < rank[d], c \in bad PROVE FALSE
    OBVIOUS
  <2>1. rank[c] \in ranks /\ rank[c] \in Nat /\ rank[d] \in Nat
    BY DEF Climbs
  <2>. QED BY <1>2, <1>3, <2>1
<1>. QED BY <1>4 DEF Climbs

\* A chain of steps has a value after each of them.
IsChain(step, V, base, bound) == bound \in Nat /\ base \in V /\ step \in [V -> V]
Chains(g, step, base, bound) ==
  \A i \in 0 .. bound : g[i] = IF i = 0 THEN base ELSE step[g[i - 1]]

\* A chain of steps exists.
LEMMA ChainIs ==
  ASSUME NEW V, NEW base, NEW step, NEW bound, IsChain(step, V, base, bound)
  PROVE  \E g \in [0 .. bound -> V] : Chains(g, step, base, bound)
<1>. DEFINE D == 0 .. bound
            rank == [i \in D |-> i]
            Does(i, g) == IF i = 0 THEN base ELSE step[g[i - 1]]
            F == [i \in D |-> [g \in [D -> V] |-> Does(i, g)]]
            n == bound + 1
<1>1. bound \in Nat /\ base \in V /\ V # {}
  BY DEF IsChain
<1>2. rank \in [D -> Nat] /\ n \in Nat /\ \A i \in D : rank[i] < n
  BY <1>1
<1>3. F \in [D -> [[D -> V] -> V]]
  <2>1. \A i \in D, g \in [D -> V] : Does(i, g) \in V
    <3>. TAKE i \in D, g \in [D -> V]
    <3>1. CASE i = 0
      BY <1>1, <3>1
    <3>2. CASE i # 0
      <4>1. i - 1 \in D
        BY <1>1, <3>2
      <4>2. g[i - 1] \in V
        BY <4>1
      <4>. QED BY <3>2, <4>2 DEF IsChain
    <3>. QED BY <3>1, <3>2
  <2>. HIDE DEF D, Does
  <2>. QED BY <2>1
<1>4. Reads(F, D, V, rank)
  <2>. SUFFICES ASSUME NEW i \in D, NEW g \in [D -> V], NEW h \in [D -> V],
                       \A c \in D : rank[c] < rank[i] => g[c] = h[c]
                PROVE  Does(i, g) = Does(i, h)
    BY DEF Reads
  <2>1. CASE i = 0
    BY <2>1
  <2>2. CASE i # 0
    <3>1. i - 1 \in D /\ rank[i - 1] < rank[i]
      BY <1>1, <2>2
    <3>2. g[i - 1] = h[i - 1]
      BY <3>1
    <3>. QED BY <2>2, <3>2
  <2>. QED BY <2>1, <2>2
<1>. HIDE DEF F, rank, Does, n, D
<1>5. IsRecursion(F, D, V, rank, n)
  BY <1>1, <1>2, <1>3, <1>4 DEF IsRecursion
<1>6. PICK g \in [D -> V] : \A i \in D : g[i] = F[i][g]
  BY <1>5, Recursion
<1>7. \A i \in D : g[i] = Does(i, g)
  BY <1>6 DEF F
<1>. QED BY <1>7 DEF D, Does, Chains

(***************************************************************************)
(* A graph of finitely many nodes: E the edges that count, w the weights;  *)
(* every need has a smaller rank.                                          *)
(***************************************************************************)
IsDag(D, E, w, rank, depth) ==
  /\ IsFiniteSet(D) /\ D # {} /\ w \in [D -> Nat]
  /\ \A n \in D : E[n] \subseteq D
  /\ depth \in Nat /\ rank \in [D -> Nat]
  /\ \A n \in D : rank[n] <= depth
  /\ \A n \in D : \A m \in E[n] : rank[m] < rank[n]

\* Every node finishes after the last of its needs.
Finishes(D, E, w, f) ==
  /\ f \in [D -> Nat]
  /\ \A n \in D : /\ f[n] >= w[n]
                  /\ \A m \in E[n] : f[n] >= w[n] + f[m]
                  /\ f[n] = w[n] \/ \E m \in E[n] : f[n] = w[n] + f[m]

\* e is when the last one does.
Ends(D, f, e) == (\A n \in D : f[n] <= e) /\ (\E n \in D : f[n] = e)

\* And may finish no later than its dependents allow.
Allows(D, E, w, e, l) ==
  /\ l \in [D -> Int]
  /\ \A n \in D : /\ \A m \in D : n \in E[m] => l[n] <= l[m] - w[m]
                  /\ \/ (\A m \in D : n \notin E[m]) /\ l[n] = e
                     \/ \E m \in D : n \in E[m] /\ l[n] = l[m] - w[m]

\* In an acyclic graph the earliest finish of a job is no later than the latest one
\* allowed, and that is no later than the end.
LEMMA NoEarlierThanItCan ==
  ASSUME NEW D, NEW E, NEW w, NEW rank, NEW depth, IsDag(D, E, w, rank, depth),
         NEW f, Finishes(D, E, w, f), NEW e, Ends(D, f, e), NEW l, Allows(D, E, w, e, l)
  PROVE  \A n \in D : f[n] <= l[n] /\ l[n] <= e
<1>. DEFINE height == [n \in D |-> depth - rank[n]]
            good == {n \in D : f[n] <= l[n] /\ l[n] <= e}
<1>1. Climbs(good, D, height)
  <2>1. height \in [D -> Nat]
    BY DEF IsDag
  <2>2. ASSUME NEW n \in D, \A m \in D : height[m] < height[n] => m \in good PROVE n \in good
    <3>1. f[n] \in Nat /\ l[n] \in Int /\ e \in Nat /\ f[n] <= e
      BY DEF Finishes, Allows, Ends
    <3>2. CASE (\A m \in D : n \notin E[m]) /\ l[n] = e
      BY <3>1, <3>2
    <3>3. CASE \E m \in D : n \in E[m] /\ l[n] = l[m] - w[m]
      <4>1. PICK m \in D : n \in E[m] /\ l[n] = l[m] - w[m]
        BY <3>3
      <4>2. height[m] < height[n]
        BY <4>1 DEF IsDag
      <4>3. f[m] <= l[m] /\ l[m] <= e
        BY <2>2, <4>2
      <4>4. f[m] >= w[m] + f[n] /\ f[m] \in Nat /\ l[m] \in Int /\ w[m] \in Nat
        BY <4>1 DEF Finishes, Allows, IsDag
      <4>. QED BY <3>1, <4>1, <4>3, <4>4
    <3>. QED BY <3>2, <3>3 DEF Allows
  <2>. HIDE DEF good, height
  <2>. QED BY <2>1, <2>2 DEF Climbs
<1>. HIDE DEF height, good
<1>2. D \subseteq good
  BY <1>1, Climbing
<1>. QED BY <1>2 DEF good

\* n weighs k more.
Heavier(w, n, k, w2) == w2 = [w EXCEPT ![n] = @ + k]

\* A node grows by its slack and more: the whole run takes as much longer.
LEMMA GrownBySlack ==
  ASSUME NEW D, NEW E, NEW w, NEW rank, NEW depth, IsDag(D, E, w, rank, depth),
         NEW f, Finishes(D, E, w, f), NEW e, Ends(D, f, e), NEW l, Allows(D, E, w, e, l),
         NEW n \in D, NEW more \in Nat,
         NEW w2, Heavier(w, n, l[n] - f[n] + more, w2),
         NEW f2, Finishes(D, E, w2, f2), NEW e2, Ends(D, f2, e2)
  PROVE  e2 = e + more
<1>1. \A m \in D : f[m] <= l[m] /\ l[m] <= e /\ f[m] \in Nat /\ l[m] \in Int /\ w[m] \in Nat /\ rank[m] \in Nat
  <2>1. \A m \in D : f[m] <= l[m] /\ l[m] <= e
    BY NoEarlierThanItCan
  <2>2. \A m \in D : f[m] \in Nat /\ l[m] \in Int /\ w[m] \in Nat /\ rank[m] \in Nat
    BY DEF Finishes, Allows, IsDag
  <2>. QED BY <2>1, <2>2
<1>2. e \in Nat /\ e2 \in Nat /\ \A m \in D : f2[m] \in Nat
  BY DEF Finishes, Ends
<1>3. w2[n] = w[n] + (l[n] - f[n] + more) /\ \A m \in D : m # n => w2[m] = w[m]
  BY DEF IsDag, Heavier
<1>4. \A m \in D : \A p \in E[m] : p \in D /\ rank[p] < rank[m] /\ l[p] <= l[m] - w[m]
  BY DEF IsDag, Allows
<1>. DEFINE slack == l[n] - f[n] + more
<1>5. slack \in Nat
  BY <1>1
<1>. HIDE DEF slack
<1>6. \A m \in D : rank[m] < rank[n] => f2[m] = f[m]
  <2>. DEFINE good == {m \in D : rank[m] < rank[n] => f2[m] = f[m]}
  <2>1. ASSUME NEW m \in D, \A p \in D : rank[p] < rank[m] => p \in good PROVE m \in good
    <3>. SUFFICES ASSUME rank[m] < rank[n] PROVE f2[m] = f[m]
      OBVIOUS
    <3>1. m # n /\ w2[m] = w[m]
      BY <1>1, <1>3
    <3>2. \A p \in E[m] : p \in D /\ f2[p] = f[p]
      BY <1>1, <1>4, <2>1
    <3>3. /\ f2[m] >= w[m] /\ \A p \in E[m] : f2[m] >= w[m] + f[p]
          /\ f2[m] = w[m] \/ \E p \in E[m] : f2[m] = w[m] + f[p]
      BY <3>1, <3>2 DEF Finishes
    <3>4. /\ f[m] >= w[m] /\ \A p \in E[m] : f[m] >= w[m] + f[p]
          /\ f[m] = w[m] \/ \E p \in E[m] : f[m] = w[m] + f[p]
      BY DEF Finishes
    <3>5. f2[m] <= f[m]
      BY <1>1, <1>2, <1>4, <3>3, <3>4
    <3>6. f[m] <= f2[m]
      BY <1>1, <1>2, <1>4, <3>3, <3>4
    <3>. QED BY <1>1, <1>2, <3>5, <3>6
  <2>. HIDE DEF good
  <2>2. Climbs(good, D, rank)
    BY <2>1 DEF Climbs, IsDag
  <2>3. D \subseteq good
    BY <2>2, Climbing
  <2>. QED BY <2>3 DEF good
<1>7. f2[n] = l[n] + more
  <2>1. \A p \in E[n] : p \in D /\ f2[p] = f[p]
    BY <1>4, <1>6
  <2>2. /\ f2[n] >= w[n] + slack /\ \A p \in E[n] : f2[n] >= w[n] + slack + f[p]
        /\ f2[n] = w[n] + slack \/ \E p \in E[n] : f2[n] = w[n] + slack + f[p]
    BY <1>3, <2>1 DEF Finishes, slack
  <2>3. /\ f[n] >= w[n] /\ \A p \in E[n] : f[n] >= w[n] + f[p]
        /\ f[n] = w[n] \/ \E p \in E[n] : f[n] = w[n] + f[p]
    BY DEF Finishes
  <2>4. f2[n] <= f[n] + slack
    BY <1>1, <1>2, <1>4, <1>5, <2>2, <2>3
  <2>5. f[n] + slack <= f2[n]
    BY <1>1, <1>2, <1>4, <1>5, <2>2, <2>3
  <2>. QED BY <1>1, <1>2, <2>4, <2>5 DEF slack
<1>8. \A m \in D : f2[m] <= l[m] + more
  <2>. DEFINE good == {m \in D : f2[m] <= l[m] + more}
  <2>1. ASSUME NEW m \in D, \A p \in D : rank[p] < rank[m] => p \in good PROVE m \in good
    <3>1. CASE m = n
      BY <1>1, <1>7, <3>1
    <3>2. CASE m # n
      <4>1. f2[m] = w[m] \/ \E p \in E[m] : f2[m] = w[m] + f2[p]
        BY <1>3, <3>2 DEF Finishes
      <4>2. \A p \in E[m] : p \in D /\ f2[p] <= l[p] + more /\ l[p] <= l[m] - w[m]
        BY <1>4, <2>1
      <4>3. f[m] >= w[m]
        BY DEF Finishes
      <4>4. CASE f2[m] = w[m]
        BY <1>1, <1>2, <4>3, <4>4
      <4>5. CASE \E p \in E[m] : f2[m] = w[m] + f2[p]
        BY <1>1, <1>2, <4>2, <4>5
      <4>. QED BY <4>1, <4>4, <4>5
    <3>. QED BY <3>1, <3>2
  <2>. HIDE DEF good
  <2>2. Climbs(good, D, rank)
    BY <2>1 DEF Climbs, IsDag
  <2>3. D \subseteq good
    BY <2>2, Climbing
  <2>. QED BY <2>3 DEF good
<1>9. e2 <= e + more
  <2>1. PICK m \in D : f2[m] = e2
    BY DEF Ends
  <2>. QED BY <1>1, <1>2, <1>8, <2>1
<1>10. \A m \in D : e2 >= f2[m] + (e - l[m])
  <2>. DEFINE height == [m \in D |-> depth - rank[m]]
              good == {m \in D : e2 >= f2[m] + (e - l[m])}
  <2>1. height \in [D -> Nat]
    BY DEF IsDag
  <2>2. ASSUME NEW m \in D, \A q \in D : height[q] < height[m] => q \in good PROVE m \in good
    <3>1. CASE (\A q \in D : m \notin E[q]) /\ l[m] = e
      <4>1. f2[m] <= e2
        BY DEF Ends
      <4>. QED BY <1>2, <3>1, <4>1
    <3>2. CASE \E q \in D : m \in E[q] /\ l[m] = l[q] - w[q]
      <4>1. PICK q \in D : m \in E[q] /\ l[m] = l[q] - w[q]
        BY <3>2
      <4>2. height[q] < height[m]
        BY <4>1 DEF IsDag
      <4>3. e2 >= f2[q] + (e - l[q])
        BY <2>2, <4>2
      <4>4. f2[q] >= w2[q] + f2[m]
        BY <4>1 DEF Finishes
      <4>5. w2[q] >= w[q] /\ w2[q] \in Nat
        <5>1. CASE q = n
          BY <1>1, <1>3, <1>5, <5>1 DEF slack
        <5>2. CASE q # n
          BY <1>1, <1>3, <5>2
        <5>. QED BY <5>1, <5>2
      <4>. QED BY <1>1, <1>2, <4>1, <4>3, <4>4, <4>5
    <3>. QED BY <3>1, <3>2 DEF Allows
  <2>. HIDE DEF good, height
  <2>3. Climbs(good, D, height)
    BY <2>1, <2>2 DEF Climbs
  <2>4. D \subseteq good
    BY <2>3, Climbing
  <2>. QED BY <2>4 DEF good
<1>11. e2 >= e + more
  BY <1>1, <1>2, <1>7, <1>10
<1>. QED BY <1>2, <1>9, <1>11

\* A graph of MCModels: any needs, any weights.
IsGraph(N) ==
  /\ IsFiniteSet(DOMAIN N) /\ N = [n \in DOMAIN N |-> N[n]]
  /\ \A n \in DOMAIN N : /\ N[n].weight \in Nat
                         /\ N[n] = [needs |-> N[n].needs, weight |-> N[n].weight]
EdgesOf(N)   == [n \in DOMAIN N |-> KnownEdges(N, n)]
WeightsOf(N) == [n \in DOMAIN N |-> N[n].weight]

\* Without a cycle, the stage of Kahn's order is a rank.
LEMMA OrderIsARank ==
  ASSUME NEW N, IsGraph(N), HasCriticalPath(N)
  PROVE  \E rank : IsDag(DOMAIN N, EdgesOf(N), WeightsOf(N), rank, Cardinality(DOMAIN N))
<1>. DEFINE D == DOMAIN N
            E == EdgesOf(N)
            K == Cardinality(D)
            next == [s \in SUBSET D |-> {n \in D : E[n] \subseteq s}]
            Body(g) == [i \in 0 .. K |-> IF i = 0 THEN {}
                                         ELSE {n \in D : KnownEdges(N, n) \subseteq g[i - 1]}]
            done == CHOOSE g : g = Body(g)
<1>1. Ordered(N) = done[K]
  BY DEF Ordered
<1>2. IsFiniteSet(D) /\ D # {} /\ K \in Nat /\ done[K] = D
  BY <1>1, FS_CardinalityType DEF HasCriticalPath, IsGraph
<1>3. \A n \in D : E[n] = KnownEdges(N, n) /\ E[n] \subseteq D
  BY DEF EdgesOf, KnownEdges
<1>. HIDE DEF D, E, K
<1>4. \E g : g = Body(g)
  <2>1. IsChain(next, SUBSET D, {}, K)
    BY <1>2 DEF IsChain
  <2>2. PICK g \in [0 .. K -> SUBSET D] : Chains(g, next, {}, K)
    BY <2>1, ChainIs
  <2>3. \A i \in 0 .. K : g[i] = IF i = 0 THEN {} ELSE {n \in D : KnownEdges(N, n) \subseteq g[i - 1]}
    <3>. TAKE i \in 0 .. K
    <3>1. i # 0 => i - 1 \in 0 .. K /\ g[i - 1] \in SUBSET D
      BY <1>2
    <3>2. g[i] = IF i = 0 THEN {} ELSE next[g[i - 1]]
      BY <2>2 DEF Chains
    <3>3. CASE i = 0
      BY <3>2, <3>3
    <3>4. CASE i # 0
      <4>1. next[g[i - 1]] = {n \in D : E[n] \subseteq g[i - 1]}
        BY <3>1, <3>4
      <4>2. {n \in D : E[n] \subseteq g[i - 1]} = {n \in D : KnownEdges(N, n) \subseteq g[i - 1]}
        BY <1>3
      <4>. QED BY <3>2, <3>4, <4>1, <4>2
    <3>. QED BY <3>3, <3>4
  <2>4. g = Body(g)
    BY <2>2, <2>3
  <2>. QED BY <2>4
<1>5. done = Body(done)
  BY <1>4
<1>. HIDE DEF done
<1>6. \A i \in 0 .. K : done[i] = IF i = 0 THEN {} ELSE {n \in D : KnownEdges(N, n) \subseteq done[i - 1]}
  BY <1>5
<1>. HIDE DEF Body
<1>. DEFINE stages(n) == {i \in 0 .. K : n \in done[i]}
            rank == [n \in D |-> Min(stages(n))]
<1>7. ASSUME NEW n \in D
      PROVE  rank[n] \in 0 .. K /\ n \in done[rank[n]] /\ \A i \in 0 .. K : n \in done[i] => rank[n] <= i
  <2>1. stages(n) \subseteq Nat /\ K \in stages(n)
    BY <1>2
  <2>2. rank[n] = Min(stages(n))
    OBVIOUS
  <2>. HIDE DEF stages, rank
  <2>3. rank[n] \in stages(n) /\ \A i \in stages(n) : rank[n] <= i
    BY <2>1, <2>2, HasMin
  <2>. QED BY <2>3 DEF stages
<1>8. \A n \in D : rank[n] \in Nat /\ rank[n] <= K
  BY <1>2, <1>7
<1>9. rank \in [D -> Nat]
  BY <1>8
<1>. HIDE DEF rank
<1>10. ASSUME NEW n \in D, NEW m \in E[n] PROVE rank[m] < rank[n]
  <2>. DEFINE i == rank[n]
  <2>1. i \in 0 .. K /\ n \in done[i] /\ i # 0
    BY <1>2, <1>6, <1>7
  <2>. HIDE DEF i, stages, next
  <2>0. done[i] = {p \in D : KnownEdges(N, p) \subseteq done[i - 1]}
    BY <1>6, <2>1
  <2>2. E[n] \subseteq done[i - 1] /\ i - 1 \in 0 .. K /\ m \in D
    BY <1>2, <1>3, <2>1, <2>0
  <2>3. rank[m] <= i - 1 /\ rank[m] \in Nat
    BY <1>7, <1>8, <2>2
  <2>. QED BY <1>2, <2>1, <2>3 DEF i
<1>11. WeightsOf(N) \in [D -> Nat]
  BY DEF WeightsOf, IsGraph, D
<1>12. IsDag(D, E, WeightsOf(N), rank, K)
  BY <1>2, <1>3, <1>8, <1>9, <1>10, <1>11 DEF IsDag
<1>. QED BY <1>12 DEF D, E, K

\* What a node finishes after.
LEMMA LastOf ==
  ASSUME NEW S, IsFiniteSet(S), NEW f, \A m \in S : f[m] \in Nat
  PROVE  LET T == {0} \cup {f[m] : m \in S}
         IN Max(T) \in T /\ Max(T) \in Nat /\ \A x \in T : x <= Max(T)
<1>. DEFINE I == {f[m] : m \in S}
            T == {0} \cup I
<1>1. IsFiniteSet(I)
  BY ImageIs
<1>2. I \subseteq Nat
  OBVIOUS
<1>. HIDE DEF I
<1>3. IsFiniteSet(T)
  BY <1>1, FS_Union, FS_Singleton
<1>4. T \subseteq Int /\ T \subseteq Nat /\ T # {}
  BY <1>2
<1>. HIDE DEF T
<1>5. Max(T) \in T /\ \A x \in T : x <= Max(T)
  BY <1>3, <1>4, Extremes
<1>. QED BY <1>4, <1>5 DEF T, I

\* EarliestFinish finishes each job right after the last of those it needs, and
\* EndToEnd is when the last job finishes.
LEMMA EarliestIs ==
  ASSUME NEW N, NEW rank, NEW depth, IsDag(DOMAIN N, EdgesOf(N), WeightsOf(N), rank, depth)
  PROVE  /\ Finishes(DOMAIN N, EdgesOf(N), WeightsOf(N), EarliestFinish(N))
         /\ Ends(DOMAIN N, EarliestFinish(N), EndToEnd(N))
<1>. DEFINE D == DOMAIN N
            E == EdgesOf(N)
            w == WeightsOf(N)
            last(n, g) == Max({0} \cup {g[m] : m \in E[n]})
            F == [n \in D |-> [g \in [D -> Nat] |-> w[n] + last(n, g)]]
            Body(g) == [n \in D |-> N[n].weight + Max({0} \cup {g[m] : m \in KnownEdges(N, n)})]
            f == CHOOSE g : g = Body(g)
<1>1. EarliestFinish(N) = f
  BY DEF EarliestFinish
<1>2. \A n \in D : E[n] = KnownEdges(N, n) /\ w[n] = N[n].weight
  BY DEF EdgesOf, WeightsOf
<1>3. IsDag(D, E, w, rank, depth)
  OBVIOUS
<1>. HIDE DEF D, E, w
<1>4. \A n \in D : IsFiniteSet(E[n]) /\ E[n] \subseteq D /\ w[n] \in Nat
  BY <1>3, FS_Subset DEF IsDag
<1>5. \A g : Body(g) = [n \in D |-> w[n] + last(n, g)]
  BY <1>2
<1>6. \A n \in D, g \in [D -> Nat] : /\ last(n, g) \in {0} \cup {g[m] : m \in E[n]} /\ last(n, g) \in Nat
                                     /\ \A m \in E[n] : g[m] <= last(n, g)
  <2>. TAKE n \in D, g \in [D -> Nat]
  <2>1. \A m \in E[n] : g[m] \in Nat
    BY <1>4
  <2>. DEFINE T == {0} \cup {g[m] : m \in E[n]}
  <2>2. Max(T) \in T /\ Max(T) \in Nat /\ \A x \in T : x <= Max(T)
    BY <1>4, <2>1, LastOf
  <2>. QED BY <2>2
<1>7. PICK g \in [D -> Nat] : \A n \in D : g[n] = w[n] + last(n, g)
  <2>1. F \in [D -> [[D -> Nat] -> Nat]]
    <3>1. \A n \in D, g \in [D -> Nat] : w[n] + last(n, g) \in Nat
      BY <1>4, <1>6
    <3>. HIDE DEF last
    <3>. QED BY <3>1
  <2>2. Reads(F, D, Nat, rank)
    <3>. SUFFICES ASSUME NEW n \in D, NEW g \in [D -> Nat], NEW h \in [D -> Nat],
                         \A m \in D : rank[m] < rank[n] => g[m] = h[m]
                  PROVE  F[n][g] = F[n][h]
      BY DEF Reads
    <3>1. \A m \in E[n] : g[m] = h[m]
      BY <1>3, <1>4 DEF IsDag
    <3>2. {g[m] : m \in E[n]} = {h[m] : m \in E[n]}
      BY <3>1
    <3>. QED BY <3>2
  <2>3. rank \in [D -> Nat] /\ depth + 1 \in Nat /\ \A n \in D : rank[n] < depth + 1
    BY <1>3 DEF IsDag
  <2>. DEFINE bound == depth + 1
  <2>4. bound \in Nat /\ \A n \in D : rank[n] < bound
    BY <2>3
  <2>. HIDE DEF F, bound
  <2>5. IsRecursion(F, D, Nat, rank, bound)
    BY <2>1, <2>2, <2>3, <2>4 DEF IsRecursion
  <2>6. PICK g \in [D -> Nat] : \A n \in D : g[n] = F[n][g]
    BY <2>5, Recursion
  <2>7. \A n \in D : g[n] = w[n] + last(n, g)
    BY <2>6 DEF F
  <2>. QED BY <2>7
<1>. HIDE DEF last, Body
<1>8. f = Body(f)
  <2>1. g = Body(g)
    BY <1>5, <1>7
  <2>. QED BY <2>1
<1>. HIDE DEF f
<1>9. f = g
  <2>. DEFINE good == {n \in D : f[n] = g[n]}
  <2>1. ASSUME NEW n \in D, \A m \in D : rank[m] < rank[n] => m \in good PROVE n \in good
    <3>1. \A m \in E[n] : f[m] = g[m]
      BY <1>3, <1>4, <2>1 DEF IsDag
    <3>2. {f[m] : m \in E[n]} = {g[m] : m \in E[n]}
      BY <3>1
    <3>3. last(n, f) = last(n, g)
      BY <3>2 DEF last
    <3>. QED BY <1>5, <1>7, <1>8, <3>3
  <2>. HIDE DEF good
  <2>2. Climbs(good, D, rank)
    BY <1>3, <2>1 DEF Climbs, IsDag
  <2>3. D \subseteq good
    BY <2>2, Climbing
  <2>4. DOMAIN f = D
    BY <1>5, <1>8
  <2>5. f = [n \in D |-> f[n]]
    BY <1>5, <1>8
  <2>. QED BY <1>7, <2>3, <2>5 DEF good
<1>10. Finishes(D, E, w, f)
  <2>1. f \in [D -> Nat] /\ \A n \in D : f[n] = w[n] + last(n, f)
    BY <1>7, <1>9
  <2>2. \A n \in D : /\ last(n, f) \in Nat /\ w[n] \in Nat /\ (last(n, f) = 0 \/ \E m \in E[n] : last(n, f) = f[m])
                     /\ \A m \in E[n] : f[m] <= last(n, f) /\ f[m] \in Nat
    BY <1>4, <1>6, <2>1
  <2>. QED BY <2>1, <2>2 DEF Finishes
<1>11. Ends(D, f, EndToEnd(N))
  <2>. DEFINE T == {f[n] : n \in D}
  <2>1. EndToEnd(N) = Max(T)
    BY <1>1 DEF EndToEnd, D
  <2>2. IsFiniteSet(D) /\ D # {}
    BY <1>3 DEF IsDag
  <2>3. IsFiniteSet(T)
    BY <2>2, ImageIs
  <2>4. T # {} /\ T \subseteq Int
    BY <1>10, <2>2 DEF Finishes
  <2>5. Max(T) \in T /\ \A x \in T : x <= Max(T)
    <3>. HIDE DEF T
    <3>. QED BY <2>3, <2>4, Extremes
  <2>. QED BY <2>1, <2>5 DEF Ends
<1>. QED BY <1>1, <1>10, <1>11 DEF D, E, w

\* LatestFinish is the latest finish that leaves the end where it is.
LEMMA LatestIs ==
  ASSUME NEW N, NEW rank, NEW depth, IsDag(DOMAIN N, EdgesOf(N), WeightsOf(N), rank, depth)
  PROVE  Allows(DOMAIN N, EdgesOf(N), WeightsOf(N), EndToEnd(N), LatestFinish(N))
<1>. DEFINE D == DOMAIN N
            E == EdgesOf(N)
            w == WeightsOf(N)
            e == EndToEnd(N)
            deps == [n \in D |-> Dependents(N, n)]
            allowed(n, g) == {g[m] - w[m] : m \in deps[n]}
            Does(n, g) == IF deps[n] = {} THEN e ELSE Min(allowed(n, g))
            F == [n \in D |-> [g \in [D -> Int] |-> Does(n, g)]]
            Body(g) == [n \in D |-> IF Dependents(N, n) = {} THEN EndToEnd(N)
                                    ELSE Min({g[m] - N[m].weight : m \in Dependents(N, n)})]
            l == CHOOSE g : g = Body(g)
            height == [n \in D |-> depth - rank[n]]
            bound == depth + 1
<1>1. LatestFinish(N) = l
  BY DEF LatestFinish
<1>2. \A n \in D : deps[n] = {m \in D : n \in E[m]} /\ w[n] = N[n].weight
  BY DEF EdgesOf, WeightsOf, Dependents
<1>3. IsDag(D, E, w, rank, depth) /\ e \in Nat
  BY EarliestIs DEF Ends, Finishes
<1>4. \A g : Body(g) = [n \in D |-> Does(n, g)]
  <2>1. \A n \in D : \A g : allowed(n, g) = {g[m] - N[m].weight : m \in Dependents(N, n)}
    <3>. TAKE n \in D
    <3>1. \A m \in Dependents(N, n) : w[m] = N[m].weight
      BY <1>2
    <3>. QED BY <3>1
  <2>. HIDE DEF allowed, w, E
  <2>. QED BY <2>1
<1>. HIDE DEF D, E, w, e, deps, Body
<1>5. \A n \in D : IsFiniteSet(deps[n]) /\ deps[n] \subseteq D
  BY <1>2, <1>3, FS_Subset DEF IsDag
<1>6. \A n \in D, g \in [D -> Int] :
        deps[n] # {} => /\ Min(allowed(n, g)) \in allowed(n, g) /\ Min(allowed(n, g)) \in Int
                        /\ \A m \in deps[n] : Min(allowed(n, g)) <= g[m] - w[m]
  <2>. TAKE n \in D, g \in [D -> Int]
  <2>. SUFFICES ASSUME deps[n] # {}
                PROVE  /\ Min(allowed(n, g)) \in allowed(n, g) /\ Min(allowed(n, g)) \in Int
                       /\ \A m \in deps[n] : Min(allowed(n, g)) <= g[m] - w[m]
    OBVIOUS
  <2>. DEFINE diff == [m \in D |-> g[m] - w[m]]
              T == allowed(n, g)
  <2>1. \A m \in deps[n] : m \in D /\ diff[m] = g[m] - w[m] /\ diff[m] \in Int
    BY <1>3, <1>5 DEF IsDag
  <2>2. T = {diff[m] : m \in deps[n]}
    BY <2>1
  <2>. HIDE DEF diff
  <2>3. IsFiniteSet(T)
    <3>. HIDE DEF T
    <3>. QED BY <1>5, <2>2, ImageIs
  <2>4. T # {} /\ T \subseteq Int
    BY <2>1
  <2>5. Min(T) \in T /\ \A x \in T : Min(T) <= x
    <3>. HIDE DEF T
    <3>. QED BY <2>3, <2>4, Extremes
  <2>. QED BY <2>4, <2>5
<1>7. height \in [D -> Nat] /\ bound \in Nat /\ \A n \in D : height[n] < bound
  BY <1>3 DEF IsDag
<1>8. \A n \in D : \A m \in deps[n] : height[m] < height[n]
  BY <1>2, <1>3 DEF IsDag
<1>. HIDE DEF height, bound
<1>9. PICK g \in [D -> Int] : \A n \in D : g[n] = Does(n, g)
  <2>1. F \in [D -> [[D -> Int] -> Int]]
    <3>1. \A n \in D, g \in [D -> Int] : Does(n, g) \in Int
      <4>. HIDE DEF allowed
      <4>. QED BY <1>3, <1>6
    <3>. HIDE DEF Does
    <3>. QED BY <3>1
  <2>2. Reads(F, D, Int, height)
    <3>. SUFFICES ASSUME NEW n \in D, NEW g \in [D -> Int], NEW h \in [D -> Int],
                         \A m \in D : height[m] < height[n] => g[m] = h[m]
                  PROVE  F[n][g] = F[n][h]
      BY DEF Reads
    <3>1. \A m \in deps[n] : g[m] = h[m]
      BY <1>5, <1>8
    <3>2. allowed(n, g) = allowed(n, h)
      BY <3>1
    <3>. QED BY <3>2
  <2>. HIDE DEF F
  <2>3. IsRecursion(F, D, Int, height, bound)
    <3>1. Int # {}
      OBVIOUS
    <3>. QED BY <1>7, <2>1, <2>2, <3>1 DEF IsRecursion
  <2>4. PICK g \in [D -> Int] : \A n \in D : g[n] = F[n][g]
    BY <2>3, Recursion
  <2>5. \A n \in D : g[n] = Does(n, g)
    BY <2>4 DEF F
  <2>. QED BY <2>5
<1>. HIDE DEF Does
<1>10. l = Body(l)
  <2>1. g = Body(g)
    BY <1>4, <1>9
  <2>. QED BY <2>1
<1>. HIDE DEF l
<1>11. \A n \in D : l[n] = Does(n, l)
  BY <1>4, <1>10
<1>12. l = g
  <2>. DEFINE good == {n \in D : l[n] = g[n]}
  <2>1. ASSUME NEW n \in D, \A m \in D : height[m] < height[n] => m \in good PROVE n \in good
    <3>1. \A m \in deps[n] : l[m] = g[m]
      BY <1>5, <1>8, <2>1
    <3>2. allowed(n, l) = allowed(n, g)
      BY <3>1
    <3>3. Does(n, l) = Does(n, g)
      BY <3>2 DEF Does
    <3>. QED BY <1>9, <1>11, <3>3
  <2>. HIDE DEF good
  <2>2. Climbs(good, D, height)
    BY <1>7, <2>1 DEF Climbs
  <2>3. D \subseteq good
    BY <2>2, Climbing
  <2>4. l = [n \in D |-> l[n]]
    BY <1>4, <1>10
  <2>. QED BY <1>9, <2>3, <2>4 DEF good
<1>13. Allows(D, E, w, e, l)
  <2>1. l \in [D -> Int]
    BY <1>9, <1>12
  <2>2. ASSUME NEW n \in D
        PROVE  /\ \A m \in D : n \in E[m] => l[n] <= l[m] - w[m]
               /\ \/ (\A m \in D : n \notin E[m]) /\ l[n] = e
                  \/ \E m \in D : n \in E[m] /\ l[n] = l[m] - w[m]
    <3>1. deps[n] = {m \in D : n \in E[m]}
      BY <1>2
    <3>2. CASE deps[n] = {}
      BY <1>11, <3>1, <3>2 DEF Does
    <3>3. CASE deps[n] # {}
      <4>1. l[n] = Min(allowed(n, l))
        BY <1>11, <3>3 DEF Does
      <4>2. l[n] \in allowed(n, l) /\ \A m \in deps[n] : l[n] <= l[m] - w[m]
        BY <1>6, <2>1, <3>3, <4>1
      <4>. QED BY <3>1, <4>2
    <3>. QED BY <3>2, <3>3
  <2>. QED BY <2>1, <2>2 DEF Allows
<1>. QED BY <1>1, <1>13 DEF D, E, w, e

\* A node of the critical path may not finish later than it does.
LEMMA PathIs ==
  ASSUME NEW N, NEW rank, NEW depth, IsDag(DOMAIN N, EdgesOf(N), WeightsOf(N), rank, depth),
         NEW n \in CriticalPath(N)
  PROVE  n \in DOMAIN N /\ LatestFinish(N)[n] = EarliestFinish(N)[n]
<1>. DEFINE D == DOMAIN N
            E == EdgesOf(N)
            w == WeightsOf(N)
            e == EndToEnd(N)
            f == EarliestFinish(N)
            l == LatestFinish(N)
            K == Cardinality(D)
            more(s) == {ArgMax(N, KnownEdges(N, m)) : m \in {p \in s : KnownEdges(N, p) # {}}}
            first == {ArgMax(N, DOMAIN N)}
            Body(g) == [i \in 0 .. K |-> IF i = 0 THEN {ArgMax(N, DOMAIN N)}
                          ELSE g[i - 1] \cup {ArgMax(N, KnownEdges(N, m)) : m \in {p \in g[i - 1] : KnownEdges(N, p) # {}}}]
            walk == CHOOSE g : g = Body(g)
            critical == {m \in D : l[m] = f[m]}
            next == [s \in SUBSET D |-> s \cup more(s)]
<1>1. CriticalPath(N) = walk[K]
  BY DEF CriticalPath
<1>2. /\ IsDag(D, E, w, rank, depth) /\ Finishes(D, E, w, f) /\ Ends(D, f, e)
      /\ Allows(D, E, w, e, l)
  BY EarliestIs, LatestIs
<1>3. \A m \in D : f[m] <= l[m] /\ l[m] <= e
  <2>. HIDE DEF D, E, w, e, f, l
  <2>. QED BY <1>2, NoEarlierThanItCan
<1>4. \A m \in D : E[m] = KnownEdges(N, m)
  BY DEF EdgesOf
<1>5. IsFiniteSet(D) /\ D # {} /\ K \in Nat /\ \A m \in D : E[m] \subseteq D /\ IsFiniteSet(E[m])
  BY <1>2, FS_CardinalityType, FS_Subset DEF IsDag
<1>6. ASSUME NEW S, S \subseteq D, S # {} PROVE ArgMax(N, S) \in S /\ \A m \in S : f[m] <= f[ArgMax(N, S)]
  <2>. DEFINE T == {f[m] : m \in S}
  <2>1. IsFiniteSet(S)
    BY <1>5, <1>6, FS_Subset
  <2>2. IsFiniteSet(T)
    <3>. HIDE DEF f
    <3>. QED BY <2>1, ImageIs
  <2>3. T \subseteq Int /\ T # {}
    <3>1. \A m \in S : f[m] \in Int
      BY <1>2, <1>6 DEF Finishes
    <3>. HIDE DEF f
    <3>. QED BY <1>6, <3>1
  <2>4. Max(T) \in T /\ \A x \in T : x <= Max(T)
    <3>. HIDE DEF T
    <3>. QED BY <2>2, <2>3, Extremes
  <2>5. \E p \in S : \A m \in S : f[m] <= f[p]
    <3>. HIDE DEF f
    <3>. QED BY <2>4
  <2>. QED BY <2>5 DEF ArgMax
<1>7. first \in SUBSET critical
  <2>. DEFINE p == ArgMax(N, D)
  <2>1. p \in D /\ \A m \in D : f[m] <= f[p]
    BY <1>5, <1>6
  <2>. HIDE DEF p, f, l, e, D
  <2>2. e = f[p]
    <3>1. PICK m \in D : f[m] = e
      BY <1>2 DEF Ends
    <3>2. f[m] <= f[p] /\ f[p] <= e /\ f[p] \in Nat /\ f[m] \in Nat
      BY <1>2, <2>1 DEF Ends, Finishes
    <3>. QED BY <3>1, <3>2
  <2>3. l[p] = f[p]
    <3>1. f[p] <= l[p] /\ l[p] <= e /\ l[p] \in Int /\ f[p] \in Nat
      BY <1>2, <1>3, <2>1 DEF Finishes, Allows
    <3>. QED BY <2>2, <3>1
  <2>. QED BY <2>1, <2>3 DEF p, D
<1>8. ASSUME NEW m \in critical, E[m] # {} PROVE ArgMax(N, E[m]) \in critical
  <2>. DEFINE p == ArgMax(N, E[m])
  <2>1. m \in D /\ l[m] = f[m] /\ E[m] \subseteq D
    BY <1>5
  <2>2. p \in E[m] /\ \A q \in E[m] : f[q] <= f[p]
    BY <1>6, <1>8, <2>1
  <2>. HIDE DEF p, f, l, e, D, w, E
  <2>3. f[p] \in Nat /\ f[m] \in Nat /\ w[m] \in Nat /\ l[p] \in Int /\ p \in D
    BY <1>2, <2>1, <2>2 DEF Finishes, Allows, IsDag
  <2>4. f[m] = w[m] + f[p]
    <3>1. f[m] >= w[m] + f[p] /\ (f[m] = w[m] \/ \E q \in E[m] : f[m] = w[m] + f[q])
      BY <1>2, <2>1, <2>2 DEF Finishes
    <3>2. \A q \in E[m] : f[q] \in Nat
      BY <1>2, <2>1 DEF Finishes
    <3>. QED BY <2>2, <2>3, <3>1, <3>2
  <2>5. l[p] <= l[m] - w[m]
    BY <1>2, <2>1, <2>2, <2>3 DEF Allows
  <2>6. l[p] = f[p]
    BY <1>3, <2>1, <2>3, <2>4, <2>5
  <2>. QED BY <2>3, <2>6 DEF p
<1>. HIDE DEF D, E, w, e, f, l, K
<1>9. \A s \in SUBSET D : more(s) \in SUBSET D /\ (s \subseteq critical => more(s) \subseteq critical)
  <2>. TAKE s \in SUBSET D
  <2>1. more(s) \subseteq D
    <3>1. \A m \in s : KnownEdges(N, m) # {} => ArgMax(N, KnownEdges(N, m)) \in D
      BY <1>4, <1>5, <1>6
    <3>. QED BY <3>1
  <2>2. s \subseteq critical => more(s) \subseteq critical
    <3>1. s \subseteq critical => \A m \in s : KnownEdges(N, m) # {} => ArgMax(N, KnownEdges(N, m)) \in critical
      BY <1>4, <1>8
    <3>. QED BY <3>1
  <2>. QED BY <2>1, <2>2
<1>. HIDE DEF more, first
<1>10. first \in SUBSET D
  BY <1>7
<1>11. \A g : Body(g) = [i \in 0 .. K |-> IF i = 0 THEN first ELSE g[i - 1] \cup more(g[i - 1])]
  BY DEF first, more
<1>. HIDE DEF Body, critical
<1>12. \E g : g = Body(g)
  <2>1. IsChain(next, SUBSET D, first, K)
    <3>1. next \in [SUBSET D -> SUBSET D]
      BY <1>9
    <3>. QED BY <1>5, <1>10, <3>1 DEF IsChain
  <2>2. PICK g \in [0 .. K -> SUBSET D] : Chains(g, next, first, K)
    <3>. HIDE DEF next
    <3>. QED BY <2>1, ChainIs
  <2>3. \A i \in 0 .. K : g[i] = IF i = 0 THEN first ELSE g[i - 1] \cup more(g[i - 1])
    <3>. TAKE i \in 0 .. K
    <3>1. i # 0 => i - 1 \in 0 .. K /\ g[i - 1] \in SUBSET D
      BY <1>5
    <3>2. g[i] = IF i = 0 THEN first ELSE next[g[i - 1]]
      BY <2>2 DEF Chains
    <3>. QED BY <3>1, <3>2
  <2>4. g = Body(g)
    BY <1>11, <2>2, <2>3
  <2>. QED BY <2>4
<1>13. walk = Body(walk)
  BY <1>12
<1>. HIDE DEF walk, next
<1>14. \A i \in 0 .. K : walk[i] = IF i = 0 THEN first ELSE walk[i - 1] \cup more(walk[i - 1])
  BY <1>11, <1>13
<1>. DEFINE good == {i \in Nat : i \in 0 .. K => walk[i] \in SUBSET D /\ walk[i] \subseteq critical}
<1>15. good = Nat
  <2>1. 0 \in good
    <3>1. 0 \in 0 .. K => walk[0] = first
      BY <1>14
    <3>. QED BY <1>7, <1>10, <3>1
  <2>2. ASSUME NEW i \in good PROVE i + 1 \in good
    <3>. SUFFICES ASSUME i + 1 \in 0 .. K PROVE walk[i + 1] \in SUBSET D /\ walk[i + 1] \subseteq critical
      OBVIOUS
    <3>1. i \in Nat /\ i \in 0 .. K /\ i + 1 # 0 /\ (i + 1) - 1 = i
      BY <1>5
    <3>2. walk[i + 1] = walk[i] \cup more(walk[i])
      BY <1>14, <3>1
    <3>3. walk[i] \in SUBSET D /\ walk[i] \subseteq critical
      BY <3>1
    <3>. QED BY <1>9, <3>2, <3>3
  <2>3. good \subseteq Nat
    OBVIOUS
  <2>. HIDE DEF good
  <2>. QED BY <2>1, <2>2, <2>3, Counting
<1>16. walk[K] \subseteq critical
  BY <1>5, <1>15
<1>17. n \in walk[K]
  BY <1>1
<1>. QED BY <1>16, <1>17 DEF critical, D, f, l

\* A graph with a heavier node has the same edges.
LEMMA HeavierNode ==
  ASSUME NEW N, IsGraph(N), NEW n \in DOMAIN N, NEW k \in Nat,
         NEW N2, N2 = [N EXCEPT ![n].weight = @ + k]
  PROVE  /\ DOMAIN N2 = DOMAIN N /\ EdgesOf(N2) = EdgesOf(N)
         /\ WeightsOf(N2) = [WeightsOf(N) EXCEPT ![n] = @ + k]
<1>1. DOMAIN N2 = DOMAIN N
  BY DEF IsGraph
<1>2. \A m \in DOMAIN N : N2[m] = IF m = n THEN [N[m] EXCEPT !.weight = @ + k] ELSE N[m]
  BY DEF IsGraph
<1>3. \A m \in DOMAIN N : /\ N2[m].needs = N[m].needs
                          /\ N2[m].weight = IF m = n THEN N[m].weight + k ELSE N[m].weight
  BY <1>2 DEF IsGraph
<1>4. EdgesOf(N2) = EdgesOf(N)
  BY <1>1, <1>3 DEF EdgesOf, KnownEdges
<1>5. WeightsOf(N2) = [WeightsOf(N) EXCEPT ![n] = @ + k]
  BY <1>1, <1>3 DEF WeightsOf
<1>. QED BY <1>1, <1>4, <1>5

\* For any finite graph without a cycle and any weights: a node may grow by exactly its
\* slack before the whole run takes longer, and the critical path has none
\* (computeCriticalPath).
THEOREM SlacksAreExact == ASSUME part = "path" => IsGraph(input) PROVE SlackIsExact
<1>. SUFFICES ASSUME part = "path", HasCriticalPath(input), NEW n \in DOMAIN input
              PROVE  LET grown(k) == EndToEnd([input EXCEPT ![n].weight = @ + k])
                     IN /\ grown(Slack(input, n)) = EndToEnd(input)
                        /\ grown(Slack(input, n) + 1) = EndToEnd(input) + 1
                        /\ n \in CriticalPath(input) => Slack(input, n) = 0
  BY DEF SlackIsExact
<1>. DEFINE N == input
            D == DOMAIN N
            E == EdgesOf(N)
            w == WeightsOf(N)
            f == EarliestFinish(N)
            l == LatestFinish(N)
            e == EndToEnd(N)
            K == Cardinality(D)
<1>1. IsGraph(N) /\ HasCriticalPath(N)
  OBVIOUS
<1>. HIDE DEF N
<1>2. PICK rank : IsDag(D, E, w, rank, K)
  BY <1>1, OrderIsARank
<1>3. Finishes(D, E, w, f) /\ Ends(D, f, e) /\ Allows(D, E, w, e, l)
  BY <1>2, EarliestIs, LatestIs
<1>4. Slack(N, n) = l[n] - f[n]
  BY DEF Slack
<1>5. n \in D
  BY DEF N
<1>6. f[n] <= l[n] /\ f[n] \in Nat /\ l[n] \in Int /\ e \in Nat
  <2>. HIDE DEF D, E, w, f, l, e, K
  <2>1. f[n] <= l[n]
    BY <1>2, <1>3, <1>5, NoEarlierThanItCan
  <2>. QED BY <1>3, <1>5, <2>1 DEF Finishes, Ends, Allows
<1>7. ASSUME NEW more \in Nat
      PROVE  EndToEnd([N EXCEPT ![n].weight = @ + (l[n] - f[n] + more)]) = e + more
  <2>. DEFINE k == l[n] - f[n] + more
              N2 == [N EXCEPT ![n].weight = @ + k]
              w2 == WeightsOf(N2)
              f2 == EarliestFinish(N2)
              e2 == EndToEnd(N2)
  <2>1. k \in Nat
    BY <1>6
  <2>2. DOMAIN N2 = D /\ EdgesOf(N2) = E /\ w2 = [w EXCEPT ![n] = @ + k]
    <3>. HIDE DEF k
    <3>. QED BY <1>1, <1>5, <2>1, HeavierNode
  <2>. HIDE DEF N2, w, f, l, e, D, E, K
  <2>3. Heavier(w, n, l[n] - f[n] + more, w2)
    BY <2>2 DEF Heavier, k
  <2>4. w2 \in [D -> Nat]
    <3>1. w \in [D -> Nat]
      BY <1>2 DEF IsDag
    <3>. HIDE DEF k
    <3>. QED BY <1>5, <2>1, <2>2, <3>1
  <2>. HIDE DEF k, w2
  <2>5. IsDag(DOMAIN N2, EdgesOf(N2), w2, rank, K)
    BY <1>2, <2>2, <2>4 DEF IsDag
  <2>6. Finishes(D, E, w2, f2) /\ Ends(D, f2, e2)
    <3>1. Finishes(DOMAIN N2, EdgesOf(N2), w2, f2) /\ Ends(DOMAIN N2, f2, e2)
      BY <2>5, EarliestIs DEF w2
    <3>. HIDE DEF f2, e2
    <3>. QED BY <2>2, <3>1
  <2>. HIDE DEF f2, e2
  <2>7. e2 = e + more
    BY <1>2, <1>3, <1>5, <2>3, <2>6, GrownBySlack
  <2>. QED BY <2>7 DEF e2, N2, k
<1>8. EndToEnd([N EXCEPT ![n].weight = @ + (l[n] - f[n])]) = e
  <2>1. l[n] - f[n] + 0 = l[n] - f[n] /\ e + 0 = e
    BY <1>6
  <2>2. 0 \in Nat
    OBVIOUS
  <2>. HIDE DEF l, f, e
  <2>3. EndToEnd([N EXCEPT ![n].weight = @ + (l[n] - f[n] + 0)]) = e + 0
    BY <1>7, <2>2
  <2>. QED BY <2>1, <2>3
<1>9. EndToEnd([N EXCEPT ![n].weight = @ + (l[n] - f[n] + 1)]) = e + 1
  BY <1>7
<1>10. n \in CriticalPath(N) => l[n] - f[n] = 0
  <2>1. n \in CriticalPath(N) => l[n] = f[n]
    BY <1>2, PathIs
  <2>. QED BY <1>6, <2>1
<1>. HIDE DEF D, E, w, f, l, e, K
<1>. QED BY <1>4, <1>8, <1>9, <1>10 DEF N, e

(***************************************************************************)
(* Busiest instants.                                                       *)
(***************************************************************************)
\* The operators of the library are those of Metrics.
LEMMA SameMax == ASSUME NEW S PROVE M!Max(S) = Max(S)
BY DEF M!Max, Max

\* The instance's minimum is the library's.
LEMMA SameMin == ASSUME NEW S PROVE M!Min(S) = Min(S)
BY DEF M!Min, Min

\* The instance's cardinality is the library's.
LEMMA SameCardinality == ASSUME NEW S PROVE M!Cardinality(S) = Cardinality(S)
BY DEF M!Cardinality, Cardinality

\* A query of the tab: a window that has begun after time 0.
IsQuery(q) == q.window \in DOMAIN M!WindowDays /\ q.now \in Nat /\ M!From(q) \in Nat

\* The window of a query is a span that ends now, in steps of a positive length.
LEMMA QueryIs ==
  ASSUME NEW q, IsQuery(q)
  PROVE  /\ M!From(q) \in Nat /\ q.now \in Nat /\ M!Length(q) \in Nat \ {0}
         /\ M!From(q) = q.now - M!Length(q) /\ M!From(q) < q.now
         /\ M!Step(q) \in Nat \ {0}
<1>1. \A w \in DOMAIN M!WindowDays : M!WindowDays[w] \in Nat \ {0}
  BY DEF M!WindowDays
<1>2. Day \in Nat \ {0} /\ Hour \in Nat \ {0}
  BY MetricsAssumption
<1>3. \A d, k \in Nat \ {0} : d * k \in Nat \ {0}
  OBVIOUS
<1>4. M!Length(q) \in Nat \ {0}
  <2>. DEFINE days == M!WindowDays[q.window]
  <2>1. days \in Nat \ {0}
    BY <1>1 DEF IsQuery
  <2>2. M!Length(q) = days * Day
    BY DEF M!Length
  <2>. HIDE DEF days
  <2>. QED BY <1>2, <1>3, <2>1, <2>2
<1>5. M!From(q) = q.now - M!Length(q)
  BY DEF M!From
<1>6. M!Step(q) \in Nat \ {0}
  BY <1>2 DEF M!Step
<1>. QED BY <1>4, <1>5, <1>6 DEF IsQuery

\* Every bucket between those of two instants has an instant between them.
LEMMA BucketsBetween ==
  ASSUME NEW q, IsQuery(q), NEW a \in Nat, NEW x \in Nat, a < x
  PROVE  /\ \A t \in a .. x - 1 : M!BucketOf(q, t) \in M!BucketOf(q, a) .. M!BucketOf(q, x - 1)
         /\ \A b \in M!BucketOf(q, a) .. M!BucketOf(q, x - 1) :
              \E t \in a .. x - 1 : M!BucketOf(q, t) = b
<1>. DEFINE k == M!Step(q)
<1>1. k \in Nat \ {0} /\ \A t \in Nat : M!BucketOf(q, t) = t \div k
  BY QueryIs DEF M!BucketOf
<1>. HIDE DEF k
<1>2. \A t \in Nat : t \div k \in Nat /\ k * (t \div k) <= t /\ t < k * (t \div k) + k
  BY <1>1
<1>3. x - 1 \in Nat
  OBVIOUS
<1>4. \A s, t \in Nat : s <= t => s \div k <= t \div k
  <2>. SUFFICES ASSUME NEW s \in Nat, NEW t \in Nat, s <= t, ~ (s \div k <= t \div k) PROVE FALSE
    OBVIOUS
  <2>. DEFINE m == s \div k
              n == t \div k
  <2>1. m \in Nat /\ n \in Nat /\ k * m <= s /\ t < k * n + k
    BY <1>2
  <2>2. m - n - 1 \in Nat
    BY <2>1
  <2>. HIDE DEF m, n
  <2>3. k * (m - n - 1) \in Nat /\ k * (m - n - 1) = k * m - k * n - k /\ k * m \in Nat /\ k * n \in Nat
    BY <1>1, <2>1, <2>2
  <2>. QED BY <1>1, <2>1, <2>3
<1>5. ASSUME NEW t \in a .. x - 1 PROVE M!BucketOf(q, t) \in M!BucketOf(q, a) .. M!BucketOf(q, x - 1)
  <2>1. t \in Nat /\ a <= t /\ t <= x - 1
    OBVIOUS
  <2>2. a \div k <= t \div k /\ t \div k <= (x - 1) \div k
    BY <1>3, <1>4, <2>1
  <2>3. a \div k \in Nat /\ t \div k \in Nat /\ (x - 1) \div k \in Nat
    BY <1>2, <1>3, <2>1
  <2>. QED BY <1>1, <1>3, <2>1, <2>2, <2>3
<1>6. ASSUME NEW b \in M!BucketOf(q, a) .. M!BucketOf(q, x - 1)
      PROVE  \E t \in a .. x - 1 : M!BucketOf(q, t) = b
  <2>1. b \in (a \div k) .. ((x - 1) \div k)
    BY <1>1, <1>3
  <2>2. a \div k \in Nat /\ (x - 1) \div k \in Nat /\ k * ((x - 1) \div k) <= x - 1
    BY <1>2, <1>3
  <2>3. CASE b = a \div k
    <3>1. a \in a .. x - 1 /\ M!BucketOf(q, a) = b
      BY <1>1, <2>3
    <3>. QED BY <3>1
  <2>4. CASE b # a \div k
    <3>. DEFINE t == k * b
                m == a \div k
                n == (x - 1) \div k
    <3>1. b \in Nat /\ m + 1 <= b /\ b <= n /\ m \in Nat /\ n \in Nat
      BY <2>1, <2>2, <2>4
    <3>2. a < k * m + k /\ k * n <= x - 1
      BY <1>2, <2>2
    <3>. HIDE DEF m, n
    <3>3. k * (b - m - 1) \in Nat /\ k * (b - m - 1) = k * b - k * m - k
      <4>1. b - m - 1 \in Nat
        BY <3>1
      <4>. QED BY <1>1, <3>1, <4>1
    <3>4. k * (n - b) \in Nat /\ k * (n - b) = k * n - k * b
      <4>1. n - b \in Nat
        BY <3>1
      <4>. QED BY <1>1, <3>1, <4>1
    <3>5. t \in Nat /\ k * m \in Nat /\ k * n \in Nat
      BY <1>1, <3>1
    <3>6. t \in a .. x - 1
      BY <1>1, <3>2, <3>3, <3>4, <3>5
    <3>7. t \div k = b
      <4>1. t \div k \in Nat /\ k * (t \div k) <= t /\ t < k * (t \div k) + k
        BY <1>2, <3>5
      <4>. DEFINE d == t \div k
      <4>. HIDE DEF d
      <4>2. d \in Nat /\ k * d <= k * b /\ k * b < k * d + k
        BY <4>1 DEF d
      <4>3. ~ (d > b)
        <5>. SUFFICES ASSUME d > b PROVE FALSE
          OBVIOUS
        <5>1. d - b - 1 \in Nat
          BY <3>1, <4>2
        <5>2. k * (d - b - 1) \in Nat /\ k * (d - b - 1) = k * d - k * b - k /\ k * d \in Nat /\ k * b \in Nat
          BY <1>1, <3>1, <4>2, <5>1
        <5>. QED BY <1>1, <4>2, <5>2
      <4>4. ~ (d < b)
        <5>. SUFFICES ASSUME d < b PROVE FALSE
          OBVIOUS
        <5>1. b - d - 1 \in Nat
          BY <3>1, <4>2
        <5>2. k * (b - d - 1) \in Nat /\ k * (b - d - 1) = k * b - k * d - k /\ k * d \in Nat /\ k * b \in Nat
          BY <1>1, <3>1, <4>2, <5>1
        <5>. QED BY <1>1, <4>2, <5>2
      <4>5. d = b
        BY <3>1, <4>2, <4>3, <4>4
      <4>. QED BY <4>5 DEF d
    <3>8. M!BucketOf(q, t) = b
      BY <1>1, <3>5, <3>7
    <3>. QED BY <3>6, <3>8
  <2>. QED BY <2>3, <2>4
<1>. QED BY <1>5, <1>6

(***************************************************************************)
(* Peaks per bucket, and what they are of: level[t] is how many ran at t.  *)
(***************************************************************************)
Peaks == UNION {[B -> Int] : B \in SUBSET Int}

MarkedOn(q, a, x, n) ==
  IF n <= 0 \/ x <= a THEN {} ELSE M!BucketOf(q, a) .. M!BucketOf(q, x - 1)

Marks(m, peaks, O, n) ==
  /\ m \in Peaks /\ DOMAIN m = O \cup DOMAIN peaks
  /\ \A b \in DOMAIN m : m[b] \in Int
  /\ \A b \in DOMAIN m :
       IF b \notin O THEN m[b] = peaks[b]
       ELSE /\ m[b] >= n /\ (b \in DOMAIN peaks => m[b] >= peaks[b])
            /\ m[b] = n \/ (b \in DOMAIN peaks /\ m[b] = peaks[b])

\* Mark raises the peaks of the buckets that the span overlaps to the level, and leaves
\* the others.
LEMMA MarkIs ==
  ASSUME NEW q, IsQuery(q), NEW peaks \in Peaks, NEW a \in Int, NEW x \in Int, NEW n \in Int
  PROVE  Marks(M!Mark(q, peaks, a, x, n), peaks, MarkedOn(q, a, x, n), n)
<1>. DEFINE O == MarkedOn(q, a, x, n)
            m == M!Mark(q, peaks, a, x, n)
            top(b) == Max({M!PeakIn(peaks, b), n})
<1>1. m = [b \in O \cup DOMAIN peaks |-> IF b \in O THEN top(b) ELSE peaks[b]]
  <2>1. CASE n <= 0 \/ x <= a
    BY <2>1 DEF M!Mark, MarkedOn
  <2>2. CASE ~ (n <= 0 \/ x <= a)
    <3>. DEFINE B == M!BucketOf(q, a) .. M!BucketOf(q, x - 1)
    <3>1. O = B
      BY <2>2 DEF MarkedOn
    <3>2. m = [b \in B \cup DOMAIN peaks |-> IF b \in B THEN Max({M!PeakIn(peaks, b), n}) ELSE peaks[b]]
      BY <2>2, SameMax DEF M!Mark
    <3>. HIDE DEF B, O, m
    <3>. QED BY <3>1, <3>2
  <2>. QED BY <2>1, <2>2
<1>2. DOMAIN peaks \subseteq Int /\ \A b \in DOMAIN peaks : peaks[b] \in Int
  BY DEF Peaks
<1>3. O \subseteq Int
  BY DEF MarkedOn
<1>4. O # {} => n > 0
  BY DEF MarkedOn
<1>5. \A b : top(b) \in {M!PeakIn(peaks, b), n} /\ top(b) >= n /\ top(b) >= M!PeakIn(peaks, b)
             /\ M!PeakIn(peaks, b) \in Int /\ top(b) \in Int
  <2>. TAKE b
  <2>1. M!PeakIn(peaks, b) \in Int
    BY <1>2 DEF M!PeakIn
  <2>. DEFINE p == M!PeakIn(peaks, b)
              S == {p, n}
  <2>2. IsFiniteSet(S)
    <3>1. IsFiniteSet({p}) /\ S = {p} \cup {n} /\ IsFiniteSet({n})
      BY FS_Singleton
    <3>. HIDE DEF S
    <3>. QED BY <3>1, FS_Union
  <2>3. S \subseteq Int /\ S # {}
    BY <2>1
  <2>4. Max(S) \in S /\ \A y \in S : y <= Max(S)
    <3>. HIDE DEF S
    <3>. QED BY <2>2, <2>3, Extremes
  <2>5. top(b) = Max(S)
    OBVIOUS
  <2>. HIDE DEF top
  <2>. QED BY <2>1, <2>4, <2>5
<1>. HIDE DEF O, top
<1>6. m \in Peaks
  <2>. DEFINE B == O \cup DOMAIN peaks
  <2>1. B \in SUBSET Int
    BY <1>2, <1>3
  <2>2. m \in [B -> Int]
    BY <1>1, <1>2, <1>5
  <2>. HIDE DEF B, m
  <2>. QED BY <2>1, <2>2 DEF Peaks
<1>7. ASSUME NEW b \in DOMAIN m
      PROVE  IF b \notin O THEN m[b] = peaks[b]
             ELSE /\ m[b] >= n /\ (b \in DOMAIN peaks => m[b] >= peaks[b])
                  /\ m[b] = n \/ (b \in DOMAIN peaks /\ m[b] = peaks[b])
  <2>1. CASE b \notin O
    BY <1>1, <2>1
  <2>2. CASE b \in O
    <3>1. m[b] = top(b) /\ n > 0
      BY <1>1, <1>4, <2>2
    <3>2. top(b) \in {M!PeakIn(peaks, b), n} /\ top(b) >= n /\ top(b) >= M!PeakIn(peaks, b)
      BY <1>5
    <3>3. M!PeakIn(peaks, b) = IF b \in DOMAIN peaks THEN peaks[b] ELSE 0
      BY DEF M!PeakIn
    <3>. QED BY <1>5, <2>2, <3>1, <3>2, <3>3
  <2>. QED BY <2>1, <2>2
<1>8. DOMAIN m = O \cup DOMAIN peaks
  BY <1>1
<1>9. \A b \in DOMAIN m : m[b] \in Int
  BY <1>1, <1>2, <1>5
<1>. HIDE DEF m
<1>10. Marks(m, peaks, O, n)
  BY <1>6, <1>7, <1>8, <1>9 DEF Marks
<1>. QED BY <1>10 DEF m, O

\* The peaks are those of the instants from the beginning up to, without, upTo.
PeaksUpTo(q, peaks, upTo, level) ==
  /\ peaks \in Peaks
  /\ \A b \in DOMAIN peaks : /\ peaks[b] > 0
                             /\ \E t \in M!From(q) .. upTo - 1 : M!BucketOf(q, t) = b /\ level[t] = peaks[b]
  /\ \A t \in M!From(q) .. upTo - 1 :
       level[t] > 0 => M!BucketOf(q, t) \in DOMAIN peaks /\ level[t] <= peaks[M!BucketOf(q, t)]

\* Marking a span of one level carries the peaks on to the end of the span.
LEMMA MarkGoesOn ==
  ASSUME NEW q, IsQuery(q), NEW level \in [Nat -> Nat], NEW a \in Nat, M!From(q) <= a, NEW x \in Nat, a <= x,
         NEW peaks, PeaksUpTo(q, peaks, a, level), NEW n \in Int, \A t \in a .. x - 1 : level[t] = n
  PROVE  PeaksUpTo(q, M!Mark(q, peaks, a, x, n), x, level)
<1>. DEFINE m == M!Mark(q, peaks, a, x, n)
            O == MarkedOn(q, a, x, n)
            F == M!From(q)
            bucket(t) == M!BucketOf(q, t)
<1>1. peaks \in Peaks
  BY DEF PeaksUpTo
<1>0. Marks(m, peaks, O, n)
  BY <1>1, MarkIs
<1>2. /\ m \in Peaks /\ DOMAIN m = O \cup DOMAIN peaks
      /\ \A b \in DOMAIN m : m[b] \in Int
      /\ \A b \in DOMAIN m :
           IF b \notin O THEN m[b] = peaks[b]
           ELSE /\ m[b] >= n /\ (b \in DOMAIN peaks => m[b] >= peaks[b])
                /\ m[b] = n \/ (b \in DOMAIN peaks /\ m[b] = peaks[b])
  <2>. HIDE DEF m, O
  <2>. QED BY <1>0 DEF Marks
<1>3. F \in Nat
  BY QueryIs
<1>4. \A b \in DOMAIN peaks : peaks[b] \in Int /\ peaks[b] > 0 /\ \E t \in F .. a - 1 : bucket(t) = b /\ level[t] = peaks[b]
  <2>1. \A b \in DOMAIN peaks : peaks[b] \in Int
    BY <1>1 DEF Peaks
  <2>2. \A b \in DOMAIN peaks :
          peaks[b] > 0 /\ \E t \in M!From(q) .. a - 1 : M!BucketOf(q, t) = b /\ level[t] = peaks[b]
    BY Zenon DEF PeaksUpTo
  <2>. QED BY <2>1, <2>2
<1>5. \A t \in F .. a - 1 : level[t] > 0 => bucket(t) \in DOMAIN peaks /\ level[t] <= peaks[bucket(t)]
  BY DEF PeaksUpTo
<1>6. O # {} => n > 0 /\ a < x /\ O = bucket(a) .. bucket(x - 1)
  BY DEF MarkedOn
<1>7. n > 0 /\ a < x => O = bucket(a) .. bucket(x - 1)
  BY DEF MarkedOn
<1>8. a < x => /\ \A t \in a .. x - 1 : bucket(t) \in bucket(a) .. bucket(x - 1)
               /\ \A b \in bucket(a) .. bucket(x - 1) : \E t \in a .. x - 1 : bucket(t) = b
  BY BucketsBetween
<1>9. \A t \in F .. a - 1 : t \in F .. x - 1
  BY <1>3
<1>10. \A t \in a .. x - 1 : t \in F .. x - 1 /\ a < x
  BY <1>3
<1>. HIDE DEF m, O, F, bucket
<1>11. ASSUME NEW b \in DOMAIN m
       PROVE  m[b] > 0 /\ \E t \in F .. x - 1 : bucket(t) = b /\ level[t] = m[b]
  <2>1. CASE b \in DOMAIN peaks /\ m[b] = peaks[b]
    BY <1>4, <1>9, <2>1
  <2>2. CASE b \in O /\ m[b] = n
    <3>1. n > 0 /\ a < x /\ b \in bucket(a) .. bucket(x - 1)
      BY <1>6, <2>2
    <3>2. PICK t \in a .. x - 1 : bucket(t) = b
      BY <1>8, <3>1
    <3>. QED BY <1>10, <2>2, <3>1, <3>2
  <2>. QED BY <1>2, <2>1, <2>2
<1>12. ASSUME NEW t \in F .. x - 1, level[t] > 0 PROVE bucket(t) \in DOMAIN m /\ level[t] <= m[bucket(t)]
  <2>. DEFINE b == bucket(t)
  <2>0. level[t] \in Nat
    BY <1>3
  <2>1. CASE t \in F .. a - 1
    <3>1. b \in DOMAIN peaks /\ level[t] <= peaks[b] /\ peaks[b] \in Int
      BY <1>4, <1>5, <1>12, <2>1
    <3>2. b \in DOMAIN m
      BY <1>2, <3>1
    <3>3. m[b] \in Int
      BY <1>2, <3>2
    <3>. HIDE DEF b
    <3>4. m[b] >= peaks[b]
      <4>1. CASE b \in O
        BY <1>2, <3>1, <3>2, <4>1
      <4>2. CASE b \notin O
        BY <1>2, <3>1, <3>2, <4>2
      <4>. QED BY <4>1, <4>2
    <3>5. level[t] <= m[b]
      BY <2>0, <3>1, <3>3, <3>4
    <3>. QED BY <3>2, <3>5 DEF b
  <2>2. CASE t \in a .. x - 1
    <3>1. level[t] = n /\ a < x /\ n > 0
      BY <1>10, <1>12, <2>2
    <3>2. b \in O
      BY <1>7, <1>8, <2>2, <3>1
    <3>. HIDE DEF b
    <3>3. b \in DOMAIN m /\ m[b] >= n
      BY <1>2, <3>2
    <3>. QED BY <3>1, <3>3 DEF b
  <2>3. t \in F .. a - 1 \/ t \in a .. x - 1
    BY <1>3
  <2>. QED BY <2>1, <2>2, <2>3
<1>. QED BY <1>2, <1>11, <1>12 DEF PeaksUpTo, m, F, bucket

(***************************************************************************)
(* The sweep.                                                              *)
(***************************************************************************)
\* Spans of jobs within the window of a query.
IsSpans(q, S) ==
  /\ IsQuery(q) /\ IsFiniteSet(S)
  /\ \A s \in S : /\ s.from \in Nat /\ s.to \in Nat
                  /\ M!From(q) <= s.from /\ s.from < s.to /\ s.to <= q.now
TimesOf(S) == {s.from : s \in S} \cup {s.to : s \in S}
ChangeAt(S, t) == Cardinality({s \in S : s.from = t}) - Cardinality({s \in S : s.to = t})
Running(S, t)  == Cardinality({s \in S : s.from <= t /\ t < s.to})
LevelOf(S)     == [t \in Nat |-> Running(S, t)]

\* Where the sweep is: the peaks so far, how many jobs run, and since when.
Sweeps == [peaks : Peaks, level : Int, at : Int]
Begun(q) == [peaks |-> <<>>, level |-> 0, at |-> M!From(q)]
Advance(q, S, t, acc) ==
  [peaks |-> M!Mark(q, acc.peaks, acc.at, t, acc.level), level |-> acc.level + ChangeAt(S, t), at |-> t]
SweepsOn(q, S, g) ==
  [s \in SUBSET TimesOf(S) |-> IF s = {} THEN Begun(q) ELSE Advance(q, S, Max(s), g[s \ {Max(s)}])]
Swept(q, S) == CHOOSE g : g = SweepsOn(q, S, g)

\* The times at which something begins or ends are finitely many numbers within the window.
LEMMA TimesAre ==
  ASSUME NEW q, NEW S, IsSpans(q, S)
  PROVE  /\ IsFiniteSet(TimesOf(S)) /\ TimesOf(S) \subseteq Nat
         /\ \A t \in TimesOf(S) : M!From(q) <= t /\ t <= q.now
<1>. DEFINE begin == [s \in S |-> s.from]
            end   == [s \in S |-> s.to]
            B == {begin[s] : s \in S}
            E == {end[s] : s \in S}
<1>1. TimesOf(S) = B \cup E
  BY DEF TimesOf
<1>2. IsFiniteSet(S)
  BY DEF IsSpans
<1>3. IsFiniteSet(B)
  <2>. HIDE DEF begin
  <2>. QED BY <1>2, ImageIs
<1>4. IsFiniteSet(E)
  <2>. HIDE DEF end
  <2>. QED BY <1>2, ImageIs
<1>5. IsFiniteSet(B \cup E)
  <2>. HIDE DEF B, E
  <2>. QED BY <1>3, <1>4, FS_Union
<1>6. M!From(q) \in Nat /\ q.now \in Nat
  BY QueryIs DEF IsSpans
<1>7. \A t \in B \cup E : t \in Nat /\ M!From(q) <= t /\ t <= q.now
  BY <1>6 DEF IsSpans
<1>. HIDE DEF B, E
<1>. QED BY <1>1, <1>5, <1>7

\* Before the sweep no bucket has a peak.
LEMMA EmptyIsPeaks == <<>> \in Peaks /\ DOMAIN <<>> = {}
<1>1. <<>> \in [{} -> Int] /\ {} \in SUBSET Int /\ DOMAIN <<>> = {}
  OBVIOUS
<1>. QED BY <1>1 DEF Peaks

\* A step of the sweep goes from a place to a place.
LEMMA Advances ==
  ASSUME NEW q, NEW S, IsSpans(q, S), NEW t \in TimesOf(S), NEW acc \in Sweeps
  PROVE  Advance(q, S, t, acc) \in Sweeps
<1>. DEFINE m == M!Mark(q, acc.peaks, acc.at, t, acc.level)
            c == ChangeAt(S, t)
<1>1. acc.peaks \in Peaks /\ acc.at \in Int /\ acc.level \in Int /\ t \in Int
  BY TimesAre DEF Sweeps
<1>2. m \in Peaks
  <2>1. Marks(m, acc.peaks, MarkedOn(q, acc.at, t, acc.level), acc.level)
    BY <1>1, MarkIs DEF IsSpans
  <2>. HIDE DEF m
  <2>. QED BY <2>1 DEF Marks
<1>3. c \in Int
  <2>1. IsFiniteSet({s \in S : s.from = t}) /\ IsFiniteSet({s \in S : s.to = t})
    BY FS_Subset DEF IsSpans
  <2>. QED BY <2>1, FS_CardinalityType DEF ChangeAt
<1>4. Advance(q, S, t, acc) = [peaks |-> m, level |-> acc.level + c, at |-> t]
  BY DEF Advance
<1>. HIDE DEF m, c
<1>. QED BY <1>1, <1>2, <1>3, <1>4 DEF Sweeps

\* The recursion of the fold has a solution.
LEMMA SweptIs ==
  ASSUME NEW q, NEW S, IsSpans(q, S)
  PROVE  Swept(q, S) = SweepsOn(q, S, Swept(q, S))
<1>. DEFINE T == TimesOf(S)
            taken == [s \in SUBSET T |-> Max(s)]
            op == [t \in T |-> [acc \in Sweeps |-> Advance(q, S, t, acc)]]
            base == Begun(q)
<1>1. IsFiniteSet(T) /\ T \subseteq Int
  BY TimesAre
<1>2. \A s \in SUBSET T : s # {} => Max(s) \in s
  <2>. HIDE DEF T
  <2>. TAKE s \in SUBSET T
  <2>1. IsFiniteSet(s) /\ s \subseteq Int
    BY <1>1, FS_Subset
  <2>. QED BY <2>1, Extremes
<1>3. Takes(taken, T)
  <2>. HIDE DEF T
  <2>. QED BY <1>2 DEF Takes
<1>4. base \in Sweeps
  <2>1. M!From(q) \in Int
    BY QueryIs DEF IsSpans
  <2>. QED BY <2>1, EmptyIsPeaks DEF Begun, Sweeps
<1>5. op \in [T -> [Sweeps -> Sweeps]]
  <2>1. \A t \in T, acc \in Sweeps : Advance(q, S, t, acc) \in Sweeps
    BY Advances
  <2>. HIDE DEF T
  <2>. QED BY <2>1
<1>. HIDE DEF T, taken, op, base
<1>6. IsFoldOver(op, base, taken, T, Sweeps)
  BY <1>1, <1>3, <1>4, <1>5 DEF IsFoldOver
<1>7. PICK g \in [SUBSET T -> Sweeps] : Folds(g, op, base, taken, T)
  BY <1>6, FoldIs
<1>8. \A s \in SUBSET T : g[s] = IF s = {} THEN Begun(q) ELSE Advance(q, S, Max(s), g[s \ {Max(s)}])
  <2>. TAKE s \in SUBSET T
  <2>1. g[s] = IF s = {} THEN base ELSE op[taken[s]][g[s \ {taken[s]}]]
    BY <1>7 DEF Folds
  <2>2. CASE s = {}
    BY <2>1, <2>2 DEF base
  <2>3. CASE s # {}
    <3>1. taken[s] = Max(s) /\ Max(s) \in T /\ g[s \ {Max(s)}] \in Sweeps
      BY <1>2, <1>7, <2>3 DEF taken
    <3>. QED BY <2>1, <2>3, <3>1 DEF op
  <2>. QED BY <2>2, <2>3
<1>9. g = SweepsOn(q, S, g)
  BY <1>7, <1>8 DEF SweepsOn, T
<1>. QED BY <1>9 DEF Swept

\* Between two times of the sweep the number of jobs is that of those that have begun
\* less that of those that have ended.
Underway(S, s) == Cardinality({p \in S : p.from \in s}) - Cardinality({p \in S : p.to \in s})

\* Between two times of the sweep exactly the jobs underway run.
LEMMA LevelBetween ==
  ASSUME NEW q, NEW S, IsSpans(q, S), NEW s \in SUBSET TimesOf(S),
         NEW at \in Nat, \A y \in s : y <= at,
         NEW x \in Nat, \A y \in TimesOf(S) : y < x => y \in s,
         NEW t \in Nat, at <= t, t < x
  PROVE  Running(S, t) = Underway(S, s)
<1>. DEFINE A == {p \in S : p.from \in s}
            B == {p \in S : p.to \in s}
            R == {p \in S : p.from <= t /\ t < p.to}
<1>1. \A p \in S : /\ p.from \in Nat /\ p.to \in Nat /\ p.from < p.to
                   /\ p.from \in TimesOf(S) /\ p.to \in TimesOf(S)
  BY DEF IsSpans, TimesOf
<1>2. \A y \in TimesOf(S) : y \in Nat /\ (y \in s <=> y <= t)
  BY TimesAre
<1>3. R = A \ B /\ A \cap B = B
  BY <1>1, <1>2
<1>4. IsFiniteSet(A) /\ IsFiniteSet(B)
  BY FS_Subset DEF IsSpans
<1>. HIDE DEF A, B, R
<1>5. Cardinality(R) = Cardinality(A) - Cardinality(B)
  <2>1. Cardinality(A \ B) = Cardinality(A) - Cardinality(A \cap B)
    BY <1>4, FS_Difference
  <2>. QED BY <1>3, <2>1
<1>. QED BY <1>5 DEF A, B, R, Running, Underway

\* A time of the sweep changes the number of jobs underway by what begins and ends then.
LEMMA LevelGoesOn ==
  ASSUME NEW q, NEW S, IsSpans(q, S), NEW s \in SUBSET TimesOf(S), NEW x \in TimesOf(S), x \notin s
  PROVE  Underway(S, s \cup {x}) = Underway(S, s) + ChangeAt(S, x)
<1>. DEFINE A == {p \in S : p.from \in s}
            B == {p \in S : p.to \in s}
            Ax == {p \in S : p.from = x}
            Bx == {p \in S : p.to = x}
            C == {p \in S : p.from \in s \cup {x}}
            D == {p \in S : p.to \in s \cup {x}}
<1>1. C = A \cup Ax /\ D = B \cup Bx /\ A \cap Ax = {} /\ B \cap Bx = {}
  OBVIOUS
<1>2. IsFiniteSet(A) /\ IsFiniteSet(B)
  BY FS_Subset DEF IsSpans
<1>3. IsFiniteSet(Ax) /\ IsFiniteSet(Bx)
  BY FS_Subset DEF IsSpans
<1>4. Underway(S, s \cup {x}) = Cardinality(C) - Cardinality(D) /\ Underway(S, s) = Cardinality(A) - Cardinality(B)
      /\ ChangeAt(S, x) = Cardinality(Ax) - Cardinality(Bx)
  BY DEF Underway, ChangeAt
<1>. HIDE DEF A, B, C, D, Ax, Bx
<1>5. Cardinality(C) = Cardinality(A) + Cardinality(Ax) /\ Cardinality(D) = Cardinality(B) + Cardinality(Bx)
  <2>1. Cardinality({}) = 0
    BY FS_EmptySet
  <2>2. Cardinality(A \cup Ax) = Cardinality(A) + Cardinality(Ax) - Cardinality(A \cap Ax)
    BY <1>2, <1>3, FS_Union
  <2>3. Cardinality(B \cup Bx) = Cardinality(B) + Cardinality(Bx) - Cardinality(B \cap Bx)
    BY <1>2, <1>3, FS_Union
  <2>4. Cardinality(A) \in Nat /\ Cardinality(Ax) \in Nat /\ Cardinality(B) \in Nat /\ Cardinality(Bx) \in Nat
    BY <1>2, <1>3, FS_CardinalityType
  <2>5. /\ Cardinality(C) = Cardinality(A \cup Ax) /\ Cardinality(A \cap Ax) = 0
        /\ Cardinality(D) = Cardinality(B \cup Bx) /\ Cardinality(B \cap Bx) = 0
    BY Zenon, <1>1, <2>1
  <2>. DEFINE both == Cardinality(A \cup Ax)
              none == Cardinality(A \cap Ax)
              over == Cardinality(B \cup Bx)
              nil == Cardinality(B \cap Bx)
  <2>6. both = Cardinality(A) + Cardinality(Ax) - none /\ over = Cardinality(B) + Cardinality(Bx) - nil
    BY <2>2, <2>3
  <2>7. Cardinality(C) = both /\ Cardinality(D) = over /\ none = 0 /\ nil = 0
    BY Zenon, <2>5
  <2>. HIDE DEF both, none, over, nil
  <2>. QED BY <2>4, <2>6, <2>7
<1>6. Cardinality(A) \in Nat /\ Cardinality(Ax) \in Nat /\ Cardinality(B) \in Nat /\ Cardinality(Bx) \in Nat
  BY <1>2, <1>3, FS_CardinalityType
<1>. QED BY <1>4, <1>5, <1>6

\* The level is a number at every instant.
LEMMA LevelIsNat ==
  ASSUME NEW q, NEW S, IsSpans(q, S) PROVE LevelOf(S) \in [Nat -> Nat]
<1>1. \A t \in Nat : Running(S, t) \in Nat
  <2>. TAKE t \in Nat
  <2>1. IsFiniteSet({s \in S : s.from <= t /\ t < s.to})
    BY FS_Subset DEF IsSpans
  <2>. QED BY <2>1, FS_CardinalityType DEF Running
<1>. QED BY <1>1 DEF LevelOf

\* What the sweep has done when it has taken a set of times.
SweptUpTo(q, S, s, acc) ==
  /\ acc.at \in Nat /\ M!From(q) <= acc.at /\ acc.at <= q.now
  /\ \A y \in s : y <= acc.at
  /\ acc.at = M!From(q) \/ acc.at \in s
  /\ acc.level = Underway(S, s)
  /\ PeaksUpTo(q, acc.peaks, acc.at, LevelOf(S))

\* The sweep begins having taken no time.
LEMMA SweepBegins ==
  ASSUME NEW q, NEW S, IsSpans(q, S) PROVE SweptUpTo(q, S, {}, Begun(q))
<1>. DEFINE F == M!From(q)
<1>1. F \in Nat /\ q.now \in Nat /\ F < q.now
  BY QueryIs DEF IsSpans
<1>2. Begun(q).at = F /\ Begun(q).level = 0 /\ Begun(q).peaks = <<>>
  BY DEF Begun
<1>3. Underway(S, {}) = 0
  <2>1. {p \in S : p.from \in {}} = {} /\ {p \in S : p.to \in {}} = {}
    OBVIOUS
  <2>. QED BY <2>1, FS_EmptySet DEF Underway
<1>4. PeaksUpTo(q, <<>>, F, LevelOf(S))
  <2>. HIDE DEF F
  <2>1. F .. F - 1 = {}
    BY <1>1
  <2>. QED BY <2>1, EmptyIsPeaks DEF PeaksUpTo, F
<1>. HIDE DEF F
<1>. QED BY <1>1, <1>2, <1>3, <1>4 DEF SweptUpTo, F

\* Taking the next time carries the sweep on.
LEMMA SweepContinues ==
  ASSUME NEW q, NEW S, IsSpans(q, S), NEW s \in SUBSET TimesOf(S), NEW x \in TimesOf(S), x \notin s,
         \A y \in s : y < x, \A y \in TimesOf(S) : y < x => y \in s,
         NEW acc, SweptUpTo(q, S, s, acc)
  PROVE  SweptUpTo(q, S, s \cup {x}, Advance(q, S, x, acc))
<1>. DEFINE F == M!From(q)
            next == Advance(q, S, x, acc)
            m == M!Mark(q, acc.peaks, acc.at, x, acc.level)
<1>1. F \in Nat /\ q.now \in Nat
  BY QueryIs DEF IsSpans
<1>2. x \in Nat /\ F <= x /\ x <= q.now
  BY TimesAre
<1>3. acc.at \in Nat /\ F <= acc.at /\ acc.at <= x
  BY <1>1, <1>2 DEF SweptUpTo
<1>4. acc.level = Underway(S, s) /\ \A y \in s : y <= acc.at
  BY DEF SweptUpTo
<1>5. acc.level \in Int
  <2>1. IsFiniteSet({p \in S : p.from \in s}) /\ IsFiniteSet({p \in S : p.to \in s})
    BY FS_Subset DEF IsSpans
  <2>. QED BY <1>4, <2>1, FS_CardinalityType DEF Underway
<1>6. \A t \in acc.at .. x - 1 : LevelOf(S)[t] = acc.level
  <2>. SUFFICES ASSUME NEW t \in acc.at .. x - 1 PROVE LevelOf(S)[t] = acc.level
    OBVIOUS
  <2>1. t \in Nat /\ acc.at <= t /\ t < x
    BY <1>2, <1>3
  <2>2. Running(S, t) = Underway(S, s)
    BY <1>2, <1>3, <1>4, <2>1, LevelBetween
  <2>. QED BY <1>4, <2>1, <2>2 DEF LevelOf
<1>7. PeaksUpTo(q, m, x, LevelOf(S))
  <2>1. LevelOf(S) \in [Nat -> Nat] /\ IsQuery(q) /\ PeaksUpTo(q, acc.peaks, acc.at, LevelOf(S))
    BY LevelIsNat DEF IsSpans, SweptUpTo
  <2>. QED BY <1>2, <1>3, <1>5, <1>6, <2>1, MarkGoesOn
<1>8. next.peaks = m /\ next.level = acc.level + ChangeAt(S, x) /\ next.at = x
  BY DEF Advance
<1>9. next.level = Underway(S, s \cup {x})
  BY <1>4, <1>8, LevelGoesOn
<1>10. \A y \in s \cup {x} : y <= x
  <2>1. s \subseteq Nat
    BY TimesAre
  <2>. QED BY <1>2, <2>1
<1>. HIDE DEF m, next
<1>. QED BY <1>2, <1>7, <1>8, <1>9, <1>10 DEF SweptUpTo, next, m

\* A set of times that misses none before any of its own.
TakenInOrder(S, s) == \A x \in s, y \in TimesOf(S) : y <= x => y \in s

\* The fold of SweepBucketPeaks takes every time of the sweep.
LEMMA SweepIs ==
  ASSUME NEW q, NEW S, IsSpans(q, S)
  PROVE  SweptUpTo(q, S, TimesOf(S), Swept(q, S)[TimesOf(S)])
<1>. DEFINE T == TimesOf(S)
            g == Swept(q, S)
            taken == [s \in SUBSET T |-> Max(s)]
            good == {s \in SUBSET T : TakenInOrder(S, s) => SweptUpTo(q, S, s, g[s])}
<1>1. IsFiniteSet(T) /\ T \subseteq Nat
  BY TimesAre
<1>2. \A s \in SUBSET T : s # {} => Max(s) \in s /\ \A y \in s : y <= Max(s)
  <2>. HIDE DEF T
  <2>. TAKE s \in SUBSET T
  <2>1. IsFiniteSet(s)
    BY <1>1, FS_Subset
  <2>2. s \subseteq Int
    BY <1>1
  <2>. QED BY <2>1, <2>2, Extremes
<1>3. Takes(taken, T)
  <2>. HIDE DEF T
  <2>. QED BY <1>2 DEF Takes
<1>4. \A s \in SUBSET T : g[s] = IF s = {} THEN Begun(q) ELSE Advance(q, S, Max(s), g[s \ {Max(s)}])
  <2>1. g = SweepsOn(q, S, g)
    BY SweptIs
  <2>. HIDE DEF g
  <2>. QED BY <2>1 DEF SweepsOn
<1>. HIDE DEF g
<1>5. {} \in good
  BY <1>4, SweepBegins
<1>6. ASSUME NEW s \in SUBSET T, s # {}, s \ {taken[s]} \in good PROVE s \in good
  <2>. SUFFICES ASSUME TakenInOrder(S, s) PROVE SweptUpTo(q, S, s, g[s])
    OBVIOUS
  <2>. DEFINE x == Max(s)
              r == s \ {x}
  <2>1. x \in s /\ \A y \in s : y <= x
    BY <1>2, <1>6
  <2>2. taken[s] = x
    OBVIOUS
  <2>3. s \subseteq Nat
    BY <1>1
  <2>. HIDE DEF x
  <2>4. \A y \in r : y < x
    BY <2>1, <2>3
  <2>5. \A y \in T : y < x => y \in r
    BY <1>1, <2>1, <2>3 DEF TakenInOrder
  <2>6. TakenInOrder(S, r)
    <3>. SUFFICES ASSUME NEW z \in r, NEW y \in T, y <= z PROVE y \in r
      BY DEF TakenInOrder
    <3>1. y \in s
      BY DEF TakenInOrder
    <3>2. y # x
      BY <1>1, <2>1, <2>3, <2>4
    <3>. QED BY <3>1, <3>2
  <2>7. SweptUpTo(q, S, r, g[r])
    BY <1>6, <2>2, <2>6
  <2>8. r \in SUBSET TimesOf(S) /\ x \in TimesOf(S) /\ x \notin r /\ r \cup {x} = s
    BY <2>1
  <2>9. SweptUpTo(q, S, r \cup {x}, Advance(q, S, x, g[r]))
    <3>. HIDE DEF r, T
    <3>1. \A y \in TimesOf(S) : y < x => y \in r
      BY <2>5 DEF T
    <3>. QED BY <2>4, <2>7, <2>8, <3>1, SweepContinues
  <2>10. g[s] = Advance(q, S, x, g[r])
    BY <1>4, <1>6 DEF x
  <2>. QED BY <2>8, <2>9, <2>10
<1>. HIDE DEF good, taken
<1>7. GoesOn(good, taken, T)
  BY <1>5, <1>6 DEF GoesOn
<1>8. T \in good
  <2>. HIDE DEF T
  <2>. QED BY <1>1, <1>3, <1>7, Taking
<1>. QED BY <1>8 DEF good, TakenInOrder, g

\* What SweepBucketPeaks answers for the spans.
PeaksOf(q, S) ==
  LET swept == Swept(q, S)[TimesOf(S)] IN M!Mark(q, swept.peaks, swept.at, q.now, swept.level)

\* What the sweep answers are the peaks of the level up to now.
LEMMA PeaksOfAre ==
  ASSUME NEW q, NEW S, IsSpans(q, S) PROVE PeaksUpTo(q, PeaksOf(q, S), q.now, LevelOf(S))
<1>. DEFINE acc == Swept(q, S)[TimesOf(S)]
            F == M!From(q)
<1>1. SweptUpTo(q, S, TimesOf(S), acc)
  BY SweepIs
<1>2. PeaksOf(q, S) = M!Mark(q, acc.peaks, acc.at, q.now, acc.level)
  BY DEF PeaksOf
<1>. HIDE DEF acc
<1>3. F \in Nat /\ q.now \in Nat /\ acc.at \in Nat /\ F <= acc.at /\ acc.at <= q.now
  BY <1>1, QueryIs DEF SweptUpTo, IsSpans
<1>4. acc.level = Underway(S, TimesOf(S)) /\ \A y \in TimesOf(S) : y <= acc.at
  BY <1>1 DEF SweptUpTo
<1>5. acc.level \in Int
  <2>1. IsFiniteSet({p \in S : p.from \in TimesOf(S)}) /\ IsFiniteSet({p \in S : p.to \in TimesOf(S)})
    BY FS_Subset DEF IsSpans
  <2>. QED BY <1>4, <2>1, FS_CardinalityType DEF Underway
<1>6. \A t \in acc.at .. q.now - 1 : LevelOf(S)[t] = acc.level
  <2>. SUFFICES ASSUME NEW t \in acc.at .. q.now - 1 PROVE LevelOf(S)[t] = acc.level
    OBVIOUS
  <2>1. t \in Nat /\ acc.at <= t /\ t < q.now
    BY <1>3
  <2>2. Running(S, t) = Underway(S, TimesOf(S))
    BY <1>3, <1>4, <2>1, LevelBetween
  <2>. QED BY <1>4, <2>1, <2>2 DEF LevelOf
<1>7. LevelOf(S) \in [Nat -> Nat] /\ IsQuery(q) /\ PeaksUpTo(q, acc.peaks, acc.at, LevelOf(S))
  BY <1>1, LevelIsNat DEF IsSpans, SweptUpTo
<1>. QED BY <1>2, <1>3, <1>5, <1>6, <1>7, MarkGoesOn

(***************************************************************************)
(* The intervals of the jobs, clipped.                                     *)
(***************************************************************************)
Clip(q, i) == [id |-> i, from |-> M!Max({i.from, M!From(q)}), to |-> M!Min({i.to, q.now})]
SpansOf(q, I) == {c \in {Clip(q, i) : i \in I} : c.from < c.to}

\* SweepBucketPeaks is the sweep over the clipped intervals.
LEMMA SweepIsPeaksOf ==
  ASSUME NEW q, NEW I PROVE M!SweepBucketPeaks(q, I) = PeaksOf(q, SpansOf(q, I))
<1>. DEFINE S == SpansOf(q, I)
<1>1. \A s : M!Max(s) = Max(s)
  BY SameMax
<1>2. S = {c \in {[id |-> i, from |-> M!Max({i.from, M!From(q)}), to |-> M!Min({i.to, q.now})] : i \in I} : c.from < c.to}
  BY DEF SpansOf, Clip
<1>. QED BY <1>1 DEF M!SweepBucketPeaks, M!MapThenFoldSet, PeaksOf, Swept, SweepsOn, Advance, Begun,
     TimesOf, ChangeAt, SpansOf, Clip, M!Max, Max, M!Cardinality, Cardinality

\* The larger and the smaller of two.
LEMMA OfTwo ==
  ASSUME NEW a \in Int, NEW b \in Int
  PROVE  /\ Max({a, b}) = IF a >= b THEN a ELSE b
         /\ Min({a, b}) = IF a <= b THEN a ELSE b
<1>1. CASE a = b
  BY <1>1 DEF Max, Min
<1>2. CASE a < b
  BY <1>2 DEF Max, Min
<1>3. CASE a > b
  BY <1>3 DEF Max, Min
<1>. QED BY <1>1, <1>2, <1>3

\* A bound of a set that is in it is its largest.
LEMMA TopIs ==
  ASSUME NEW S, S \subseteq Int, NEW m \in S, \A x \in S : x <= m PROVE Max(S) = m
<1>1. \A x \in S : m >= x
  OBVIOUS
<1>2. Max(S) \in S /\ \A x \in S : Max(S) >= x
  BY <1>1 DEF Max
<1>3. Max(S) \in Int /\ m \in Int /\ Max(S) >= m /\ m >= Max(S)
  BY <1>1, <1>2
<1>. HIDE DEF Max
<1>. QED BY <1>3

\* Jobs with a beginning and an end.
IsIntervals(I) == IsFiniteSet(I) /\ \A i \in I : i.from \in Int /\ i.to \in Int

\* Clipping keeps the number of jobs that run at every instant of the window.
LEMMA SpansAre ==
  ASSUME NEW q, IsQuery(q), NEW I, IsIntervals(I)
  PROVE  /\ IsSpans(q, SpansOf(q, I))
         /\ \A t \in M!From(q) .. q.now - 1 :
              LevelOf(SpansOf(q, I))[t] = Cardinality({i \in I : i.from <= t /\ t < i.to})
<1>. DEFINE F == M!From(q)
            S == SpansOf(q, I)
            all == {Clip(q, i) : i \in I}
<1>1. F \in Nat /\ q.now \in Nat /\ F < q.now
  BY QueryIs
<1>2. ASSUME NEW i \in I
      PROVE  /\ Clip(q, i).id = i
             /\ Clip(q, i).from \in Nat /\ Clip(q, i).from = IF i.from >= F THEN i.from ELSE F
             /\ Clip(q, i).to \in Int /\ Clip(q, i).to = IF i.to <= q.now THEN i.to ELSE q.now
  <2>1. i.from \in Int /\ i.to \in Int
    BY DEF IsIntervals
  <2>2. M!Max({i.from, F}) = IF i.from >= F THEN i.from ELSE F
    BY <1>1, <2>1, SameMax, OfTwo
  <2>3. M!Min({i.to, q.now}) = IF i.to <= q.now THEN i.to ELSE q.now
    BY <1>1, <2>1, SameMin, OfTwo
  <2>4. Clip(q, i).id = i /\ Clip(q, i).from = M!Max({i.from, F}) /\ Clip(q, i).to = M!Min({i.to, q.now})
    BY DEF Clip
  <2>. HIDE DEF F
  <2>. QED BY <1>1, <2>1, <2>2, <2>3, <2>4
<1>3. IsFiniteSet(all)
  <2>. DEFINE clip == [i \in I |-> Clip(q, i)]
  <2>1. all = {clip[i] : i \in I}
    OBVIOUS
  <2>. HIDE DEF clip, all
  <2>. QED BY <2>1, ImageIs DEF IsIntervals
<1>4. S = {c \in all : c.from < c.to}
  BY DEF SpansOf
<1>5. IsFiniteSet(S)
  <2>. HIDE DEF all, S
  <2>. QED BY <1>3, <1>4, FS_Subset
<1>6. ASSUME NEW c \in S
      PROVE  /\ c.from \in Nat /\ c.to \in Nat /\ F <= c.from /\ c.from < c.to /\ c.to <= q.now
  <2>1. PICK i \in I : c = Clip(q, i)
    BY <1>4
  <2>. HIDE DEF F, S
  <2>. QED BY <1>1, <1>2, <1>4, <2>1
<1>7. IsSpans(q, S)
  <2>. HIDE DEF S
  <2>. QED BY <1>5, <1>6 DEF IsSpans
<1>8. ASSUME NEW t \in F .. q.now - 1
      PROVE  LevelOf(S)[t] = Cardinality({i \in I : i.from <= t /\ t < i.to})
  <2>. DEFINE R == {c \in S : c.from <= t /\ t < c.to}
              J == {i \in I : i.from <= t /\ t < i.to}
              clip == [i \in J |-> Clip(q, i)]
  <2>0. t \in Nat /\ F <= t /\ t < q.now
    BY <1>1
  <2>1. \A i \in I : i.from \in Int /\ i.to \in Int
    BY DEF IsIntervals
  <2>2. \A i \in J : Clip(q, i) \in R
    <3>. TAKE i \in J
    <3>1. Clip(q, i).from <= t /\ t < Clip(q, i).to
      <4>. HIDE DEF F
      <4>. QED BY <1>1, <1>2, <2>0, <2>1
    <3>2. Clip(q, i).from < Clip(q, i).to
      BY <1>2, <2>0, <3>1
    <3>. QED BY <1>4, <3>1, <3>2
  <2>3. \A c \in R : \E i \in J : c = Clip(q, i)
    <3>. TAKE c \in R
    <3>1. PICK i \in I : c = Clip(q, i)
      BY <1>4
    <3>2. i.from <= t /\ t < i.to
      <4>1. Clip(q, i).from <= t /\ t < Clip(q, i).to
        BY <3>1
      <4>. HIDE DEF F
      <4>. QED BY <1>1, <1>2, <2>0, <2>1, <4>1
    <3>. QED BY <3>1, <3>2
  <2>4. R = {clip[i] : i \in J}
    <3>1. \A i \in J : clip[i] = Clip(q, i)
      OBVIOUS
    <3>. HIDE DEF clip, R, J
    <3>. QED BY <2>2, <2>3, <3>1
  <2>5. \A i, j \in J : clip[i] = clip[j] => i = j
    BY <1>2
  <2>6. IsFiniteSet(J)
    BY FS_Subset DEF IsIntervals
  <2>7. LevelOf(S)[t] = Cardinality(R)
    BY <2>0 DEF LevelOf, Running
  <2>. HIDE DEF clip, R, J
  <2>8. Cardinality(R) = Cardinality(J)
    BY <2>4, <2>5, <2>6, ImageIs
  <2>. QED BY <2>7, <2>8 DEF J
<1>. QED BY <1>7, <1>8

(***************************************************************************)
(* What the tab draws.                                                     *)
(***************************************************************************)
\* The history of a fleet: finitely many rows, with times.
HasJobs(db) ==
  /\ IsFiniteSet(db.durations)
  /\ \A r \in db.durations : r.at \in Int /\ r.secs \in Int /\ r.started \in Int

\* The intervals of a fleet's rows are finitely many, with a beginning and an end.
LEMMA IntervalsAre ==
  ASSUME NEW db, HasJobs(db), NEW since PROVE IsIntervals(M!CheckIntervals(db, since))
<1>. DEFINE I == M!CheckIntervals(db, since)
            D == {r \in db.durations : r.at >= since}
            of == [r \in D |-> [name |-> r.name, event |-> r.event, from |-> M!StartOf(r), to |-> r.at]]
<1>1. I = {of[r] : r \in D}
  BY DEF M!CheckIntervals, M!Since
<1>2. IsFiniteSet(D)
  BY FS_Subset DEF HasJobs
<1>3. \A i \in I : i.from \in Int /\ i.to \in Int
  <2>1. \A r \in D : of[r].from = M!StartOf(r) /\ of[r].to = r.at
    OBVIOUS
  <2>2. \A r \in D : M!StartOf(r) \in Int /\ r.at \in Int
    BY DEF M!StartOf, HasJobs
  <2>. HIDE DEF of, D, I
  <2>. QED BY <1>1, <2>1, <2>2
<1>. HIDE DEF I, D, of
<1>4. IsFiniteSet(I)
  BY <1>1, <1>2, ImageIs
<1>. QED BY <1>3, <1>4 DEF IsIntervals, I

\* The jobs of a pool, its peaks, and how many of its jobs ran at t.
PoolJobs(q, db, pools, p) == {r \in M!CheckIntervals(db, M!From(q)) : M!PoolKeyOf(pools, r) = p}
PoolPeaks(q, db, pools, p) == M!SweepBucketPeaks(q, PoolJobs(q, db, pools, p))
RanAt(q, db, pools, p, t) ==
  Cardinality({r \in M!CheckIntervals(db, M!From(q)) : M!PoolKeyOf(pools, r) = p /\ r.from <= t /\ t < r.to})
Ran(q, db, pools, p) == [t \in M!From(q) .. q.now - 1 |-> RanAt(q, db, pools, p, t)]

\* The peaks of a pool are those of the number of its jobs that ran.
LEMMA PoolPeaksAre ==
  ASSUME NEW q, IsQuery(q), NEW db, HasJobs(db), NEW pools, NEW p
  PROVE  /\ Ran(q, db, pools, p) \in [M!From(q) .. q.now - 1 -> Nat]
         /\ PeaksUpTo(q, PoolPeaks(q, db, pools, p), q.now, Ran(q, db, pools, p))
<1>. DEFINE J == PoolJobs(q, db, pools, p)
            S == SpansOf(q, J)
            F == M!From(q)
            W == F .. q.now - 1
            ran == Ran(q, db, pools, p)
            peaks == PoolPeaks(q, db, pools, p)
<1>1. IsIntervals(J)
  <2>1. IsIntervals(M!CheckIntervals(db, F))
    BY IntervalsAre
  <2>. QED BY <2>1, FS_Subset DEF IsIntervals, PoolJobs
<1>2. IsSpans(q, S) /\ \A t \in W : LevelOf(S)[t] = Cardinality({i \in J : i.from <= t /\ t < i.to})
  <2>. HIDE DEF J
  <2>. QED BY <1>1, SpansAre
<1>3. F \in Nat /\ q.now \in Nat
  BY QueryIs
<1>4. \A t : {i \in J : i.from <= t /\ t < i.to}
               = {r \in M!CheckIntervals(db, F) : M!PoolKeyOf(pools, r) = p /\ r.from <= t /\ t < r.to}
  BY DEF PoolJobs
<1>5. \A t \in W : LevelOf(S)[t] = RanAt(q, db, pools, p, t) /\ ran[t] = RanAt(q, db, pools, p, t)
  <2>. HIDE DEF S, J
  <2>. QED BY <1>2, <1>4 DEF RanAt, Ran
<1>6. peaks = PeaksOf(q, S)
  BY SweepIsPeaksOf DEF PoolPeaks
<1>7. PeaksUpTo(q, peaks, q.now, LevelOf(S))
  BY <1>2, <1>6, PeaksOfAre
<1>8. LevelOf(S) \in [Nat -> Nat]
  BY <1>2, LevelIsNat
<1>. HIDE DEF S, J, peaks
<1>9. PeaksUpTo(q, peaks, q.now, ran)
  <2>1. \A t \in F .. q.now - 1 : ran[t] = LevelOf(S)[t]
    BY <1>5
  <2>. HIDE DEF ran
  <2>. QED BY <1>7, <2>1 DEF PeaksUpTo
<1>10. ran \in [W -> Nat]
  <2>1. \A t \in W : t \in Nat /\ LevelOf(S)[t] \in Nat
    BY <1>3, <1>8
  <2>. QED BY <1>5, <2>1 DEF Ran
<1>. QED BY <1>9, <1>10 DEF peaks

\* The curve of a pool that ran something.
LEMMA CurveIs ==
  ASSUME NEW q, NEW db, NEW pools, NEW p,
         p \in {M!PoolKeyOf(pools, r) : r \in M!CheckIntervals(db, M!From(q))}
  PROVE  LET curve == M!Concurrency(q, db, pools)
             peaks == PoolPeaks(q, db, pools, p)
         IN  /\ p \in DOMAIN curve <=> DOMAIN peaks # {}
             /\ p \in DOMAIN curve => /\ curve[p].buckets = peaks
                                      /\ curve[p].peak = Max({peaks[b] : b \in DOMAIN peaks})
<1>. DEFINE curve == M!Concurrency(q, db, pools)
            peaks(x) == PoolPeaks(q, db, pools, x)
            all == {M!PoolKeyOf(pools, r) : r \in M!CheckIntervals(db, M!From(q))}
            shown == {x \in all : DOMAIN peaks(x) # {}}
<1>1. curve = [x \in shown |-> [peak |-> M!Max({peaks(x)[b] : b \in DOMAIN peaks(x)}), buckets |-> peaks(x)]]
  BY DEF M!Concurrency, PoolPeaks, PoolJobs
<1>2. p \in all
  OBVIOUS
<1>. HIDE DEF curve, peaks, all
<1>3. M!Max({peaks(p)[b] : b \in DOMAIN peaks(p)}) = Max({peaks(p)[b] : b \in DOMAIN peaks(p)})
  BY SameMax
<1>4. p \in DOMAIN curve <=> DOMAIN peaks(p) # {}
  BY <1>1, <1>2
<1>5. p \in DOMAIN curve => /\ curve[p].buckets = peaks(p)
                            /\ curve[p].peak = Max({peaks(p)[b] : b \in DOMAIN peaks(p)})
  BY <1>1, <1>3
<1>. QED BY <1>4, <1>5 DEF curve, peaks

\* The busiest instants of the tab, for every query, every history and every table of
\* pools: a bucket shows the peak of the jobs that ran, and only buckets with one are
\* shown (sweepBucketPeaks).
THEOREM PeaksExact ==
  ASSUME NEW q, IsQuery(q), NEW db, HasJobs(db), NEW pools PROVE PeaksAreExact(q, db, pools)
<1>. DEFINE F == M!From(q)
            W == F .. q.now - 1
            curve == M!Concurrency(q, db, pools)
            rows == M!CheckIntervals(db, F)
            bucket(t) == M!BucketOf(q, t)
            buckets == {bucket(t) : t \in W}
            instants(b) == {t \in W : bucket(t) = b}
            shown(p, b) == IF p \in DOMAIN curve /\ b \in DOMAIN curve[p].buckets
                           THEN curve[p].buckets[b] ELSE 0
<1>. SUFFICES ASSUME NEW p \in {M!PoolKeyOf(pools, r) : r \in rows}
     PROVE  /\ \A b \in buckets : shown(p, b) = Max({0} \cup {RanAt(q, db, pools, p, t) : t \in instants(b)})
            /\ p \in DOMAIN curve => /\ curve[p].peak = Max({RanAt(q, db, pools, p, t) : t \in W})
                                    /\ DOMAIN curve[p].buckets \subseteq buckets
  BY DEF PeaksAreExact, RanAt
<1>. DEFINE peaks == PoolPeaks(q, db, pools, p)
            ran == Ran(q, db, pools, p)
<1>1. ran \in [W -> Nat] /\ PeaksUpTo(q, peaks, q.now, ran)
  BY PoolPeaksAre
<1>2. \A t \in W : ran[t] = RanAt(q, db, pools, p, t)
  BY DEF Ran
<1>3. /\ p \in DOMAIN curve <=> DOMAIN peaks # {}
      /\ p \in DOMAIN curve => /\ curve[p].buckets = peaks
                               /\ curve[p].peak = Max({peaks[b] : b \in DOMAIN peaks})
  BY CurveIs
<1>4. F \in Nat /\ q.now \in Nat /\ F < q.now
  BY QueryIs
<1>. HIDE DEF peaks, ran
<1>5. \A b \in DOMAIN peaks : peaks[b] \in Int /\ peaks[b] > 0 /\ \E t \in W : bucket(t) = b /\ ran[t] = peaks[b]
  BY <1>1 DEF PeaksUpTo, Peaks
<1>6. \A t \in W : ran[t] > 0 => bucket(t) \in DOMAIN peaks /\ ran[t] <= peaks[bucket(t)]
  BY <1>1 DEF PeaksUpTo
<1>. HIDE DEF curve, bucket, W
<1>7. ASSUME NEW b \in buckets PROVE shown(p, b) = Max({0} \cup {ran[t] : t \in instants(b)})
  <2>. DEFINE Z == {0} \cup {ran[t] : t \in instants(b)}
              m == shown(p, b)
  <2>1. Z \subseteq Int
    BY <1>1
  <2>2. m = IF b \in DOMAIN peaks THEN peaks[b] ELSE 0
    BY <1>3
  <2>3. m \in Z /\ \A z \in Z : z <= m
    <3>1. CASE b \in DOMAIN peaks
      <4>1. m = peaks[b] /\ peaks[b] \in Int /\ peaks[b] > 0
        BY <1>5, <2>2, <3>1
      <4>2. PICK t \in W : bucket(t) = b /\ ran[t] = peaks[b]
        BY <1>5, <3>1
      <4>3. \A u \in W : bucket(u) = b => ran[u] <= peaks[b]
        <5>. TAKE u \in W
        <5>. HAVE bucket(u) = b
        <5>1. ran[u] \in Nat
          BY <1>1
        <5>. QED BY <1>6, <4>1, <5>1
      <4>. HIDE DEF m
      <4>. QED BY <4>1, <4>2, <4>3
    <3>2. CASE b \notin DOMAIN peaks
      <4>1. m = 0
        BY <2>2, <3>2
      <4>2. \A u \in W : bucket(u) = b => ran[u] <= 0
        <5>. TAKE u \in W
        <5>. HAVE bucket(u) = b
        <5>1. ran[u] \in Nat
          BY <1>1
        <5>. QED BY <1>6, <3>2, <5>1
      <4>. HIDE DEF m
      <4>. QED BY <4>1, <4>2
    <3>. QED BY <3>1, <3>2
  <2>. HIDE DEF Z, m
  <2>4. Max(Z) = m
    BY <2>1, <2>3, TopIs
  <2>. QED BY <2>4 DEF Z, m
<1>8. ASSUME p \in DOMAIN curve PROVE curve[p].peak = Max({ran[t] : t \in W})
  <2>. DEFINE Z == {ran[t] : t \in W}
              Y == {peaks[b] : b \in DOMAIN peaks}
              m == Max(Z)
  <2>1. Z \subseteq Int /\ Y \subseteq Int
    BY <1>1, <1>5
  <2>2. IsFiniteSet(Z)
    <3>1. IsFiniteSet(W)
      BY <1>4, FS_Interval DEF W
    <3>. QED BY <3>1, ImageIs
  <2>3. Z # {}
    <3>1. F \in W
      BY <1>4 DEF W
    <3>. HIDE DEF F
    <3>. QED BY <3>1
  <2>4. m \in Z /\ \A z \in Z : z <= m
    <3>. HIDE DEF Z
    <3>. QED BY <2>1, <2>2, <2>3, Extremes
  <2>. HIDE DEF m
  <2>5. \A y \in Y : y <= m
    <3>. TAKE y \in Y
    <3>1. PICK b \in DOMAIN peaks : y = peaks[b]
      OBVIOUS
    <3>2. PICK t \in W : ran[t] = y
      BY <1>5, <3>1
    <3>. QED BY <2>4, <3>2
  <2>6. m \in Y
    <3>1. PICK b \in DOMAIN peaks : TRUE
      BY <1>3, <1>8
    <3>2. peaks[b] \in Int /\ peaks[b] > 0 /\ peaks[b] <= m
      BY <1>5, <2>5, <3>1
    <3>3. PICK t \in W : ran[t] = m
      BY <2>4
    <3>4. m \in Int /\ m > 0
      BY <2>1, <2>4, <3>2
    <3>5. bucket(t) \in DOMAIN peaks /\ m <= peaks[bucket(t)]
      BY <1>6, <3>3, <3>4
    <3>6. peaks[bucket(t)] <= m /\ peaks[bucket(t)] \in Int
      BY <1>5, <2>5, <3>5
    <3>7. peaks[bucket(t)] = m
      BY <3>4, <3>5, <3>6
    <3>. QED BY <3>5, <3>7
  <2>7. Max(Y) = m
    <3>. HIDE DEF Y
    <3>. QED BY <2>1, <2>5, <2>6, TopIs
  <2>8. curve[p].peak = Max(Y)
    BY <1>3, <1>8
  <2>. QED BY <2>7, <2>8 DEF m
<1>9. ASSUME p \in DOMAIN curve PROVE DOMAIN curve[p].buckets \subseteq buckets
  BY <1>3, <1>5, <1>9
<1>10. \A b : {ran[t] : t \in instants(b)} = {RanAt(q, db, pools, p, t) : t \in instants(b)}
  BY <1>2
<1>11. {ran[t] : t \in W} = {RanAt(q, db, pools, p, t) : t \in W}
  BY <1>2
<1>. HIDE DEF instants, buckets, shown
<1>12. \A b \in buckets : shown(p, b) = Max({0} \cup {RanAt(q, db, pools, p, t) : t \in instants(b)})
  BY <1>7, <1>10
<1>13. p \in DOMAIN curve => /\ curve[p].peak = Max({RanAt(q, db, pools, p, t) : t \in W})
                            /\ DOMAIN curve[p].buckets \subseteq buckets
  BY <1>8, <1>9, <1>11
<1>. QED BY <1>12, <1>13 DEF instants, buckets, shown, W, curve, bucket

(***************************************************************************)
(* Counts.                                                                 *)
(***************************************************************************)
LEMMA TotalIs == ASSUME NEW f PROVE TotalOf(f) = SumOver(f, DOMAIN f)
BY DEF TotalOf, SumOver, MapThenSumSet, MapThenFoldSet

\* The sum of ones over a finite set is its cardinality.
LEMMA OnesAre ==
  ASSUME NEW S, IsFiniteSet(S)
  PROVE  Counts([x \in S |-> 1], S) /\ SumOver([x \in S |-> 1], S) = Cardinality(S)
<1>. DEFINE f == [x \in S |-> 1]
            good == {s \in SUBSET S : SumOver(f, s) = Cardinality(s)}
<1>1. Counts(f, S) /\ Counts(f, {}) /\ \A x \in S : f[x] = 1
  BY FS_EmptySet DEF Counts
<1>. HIDE DEF f
<1>2. {} \in good
  BY <1>1, SumIs, FS_EmptySet
<1>3. ASSUME NEW s \in SUBSET S, NEW x \in S, s \in good, x \notin s PROVE s \cup {x} \in good
  <2>1. IsFiniteSet(s)
    BY FS_Subset
  <2>2. Cardinality(s \cup {x}) = Cardinality(s) + 1 /\ Cardinality(s) \in Nat
    BY <1>3, <2>1, FS_AddElement, FS_CardinalityType
  <2>3. SumOver(f, s \cup {x}) = f[x] + SumOver(f, s)
    BY <1>1, <1>3, SumAdds
  <2>. QED BY <1>1, <1>3, <2>2, <2>3
<1>. HIDE DEF good
<1>4. Grows(good, S)
  BY <1>2, <1>3 DEF Grows
<1>5. S \in good
  BY <1>4, Growing
<1>. QED BY <1>1, <1>5 DEF good, f

\* The rows of a finite set, counted by what they have in common.
LEMMA PartsCount ==
  ASSUME NEW S, IsFiniteSet(S), NEW key, NEW K, IsFiniteSet(K), \A x \in S : key[x] \in K,
         NEW counts, DOMAIN counts = K, \A k \in K : counts[k] = Cardinality(Part(S, key, k))
  PROVE  TotalOf(counts) = Cardinality(S)
<1>. DEFINE f == [x \in S |-> 1]
<1>1. Counts(f, S) /\ SumOver(f, S) = Cardinality(S)
  BY OnesAre
<1>2. ASSUME NEW k \in K PROVE counts[k] = SumOver(f, Part(S, key, k))
  <2>. DEFINE P == Part(S, key, k)
  <2>1. P \subseteq S
    BY DEF Part
  <2>2. IsFiniteSet(P)
    BY <2>1, FS_Subset
  <2>. HIDE DEF P
  <2>3. SumOver([x \in P |-> 1], P) = Cardinality(P) /\ Counts([x \in P |-> 1], P)
    BY <2>2, OnesAre
  <2>4. \A x \in P : f[x] = [y \in P |-> 1][x]
    BY <2>1
  <2>. DEFINE g == [y \in P |-> 1]
  <2>. HIDE DEF f, g
  <2>5. SumOver(f, P) = SumOver(g, P)
    BY <2>3, <2>4, SumSame DEF g
  <2>. QED BY <2>3, <2>5 DEF g, P
<1>. HIDE DEF f
<1>3. SumOver(counts, K) = SumOver(f, S)
  BY <1>1, <1>2, SumOfParts
<1>. QED BY <1>1, <1>3, TotalIs

\* Rows counted by bucket, and the image of a finite set of rows.
LEMMA BucketsCount ==
  ASSUME NEW q, NEW rows, IsFiniteSet(rows) PROVE TotalOf(M!BucketCounts(q, rows)) = Cardinality(rows)
<1>. DEFINE key == [r \in rows |-> M!BucketOf(q, r.at)]
            K == {key[r] : r \in rows}
            counts == M!BucketCounts(q, rows)
<1>1. IsFiniteSet(K)
  <2>. HIDE DEF key
  <2>. QED BY ImageIs
<1>2. \A r \in rows : key[r] \in K
  OBVIOUS
<1>3. counts = [b \in {M!BucketOf(q, r.at) : r \in rows} |-> M!Cardinality({r \in rows : M!BucketOf(q, r.at) = b})]
  BY DEF M!BucketCounts
<1>4. DOMAIN counts = K
  <2>1. K = {M!BucketOf(q, r.at) : r \in rows}
    OBVIOUS
  <2>. HIDE DEF K, counts
  <2>. QED BY <1>3, <2>1
<1>5. ASSUME NEW b \in K PROVE counts[b] = Cardinality(Part(rows, key, b))
  <2>1. {r \in rows : M!BucketOf(q, r.at) = b} = Part(rows, key, b)
    BY DEF Part
  <2>2. b \in {M!BucketOf(q, r.at) : r \in rows}
    OBVIOUS
  <2>3. counts[b] = M!Cardinality({r \in rows : M!BucketOf(q, r.at) = b})
    <3>. HIDE DEF counts, K
    <3>. QED BY <1>3, <2>2
  <2>. QED BY <2>1, <2>3, SameCardinality
<1>. HIDE DEF key, K, counts
<1>. QED BY <1>1, <1>2, <1>4, <1>5, PartsCount DEF counts

(***************************************************************************)
(* The runner plan and the tab.                                            *)
(***************************************************************************)
\* A fleet's history: a row per check, event and completion; an attempt at a check on a
\* commit completes once.
IsFleet(db) ==
  /\ HasJobs(db)
  /\ \A r, s \in db.durations : <<r.name, r.event, r.at>> = <<s.name, s.event, s.at>> => r = s
  /\ \A r, s \in db.durations :
       <<r.name, r.event, r.sha, r.attempt>> = <<s.name, s.event, s.sha, s.attempt>> /\ r.attempt # 0 => r.at = s.at

\* The rows of a history since a time, and which of them are reclaims and flakes.
LEMMA RowsAre ==
  ASSUME NEW db, HasJobs(db), NEW since
  PROVE  /\ M!Identifiable(db, since) = {r \in db.durations : r.at >= since /\ r.sha # M!None}
         /\ IsFiniteSet(M!Identifiable(db, since))
         /\ M!ReclaimRows(db, since) \subseteq M!Identifiable(db, since)
         /\ IsFiniteSet(M!ReclaimRows(db, since))
         /\ M!FlakeRows(db, since) \subseteq M!Identifiable(db, since)
         /\ IsFiniteSet(M!FlakeRows(db, since))
<1>1. M!Identifiable(db, since) = {r \in db.durations : r.at >= since /\ r.sha # M!None}
  BY DEF M!Identifiable, M!Since
<1>2. IsFiniteSet(M!Identifiable(db, since))
  <2>1. M!Identifiable(db, since) \subseteq db.durations
    BY <1>1
  <2>. QED BY <2>1, FS_Subset DEF HasJobs
<1>3. M!ReclaimRows(db, since) \subseteq M!Identifiable(db, since)
  BY DEF M!ReclaimRows
<1>4. M!FlakeRows(db, since) \subseteq M!Identifiable(db, since)
  BY DEF M!FlakeRows
<1>. QED BY <1>1, <1>2, <1>3, <1>4, FS_Subset

\* A reclaimed job has an interval of its own, and so has the success that resolved it.
LEMMA ReclaimsAreFewer ==
  ASSUME NEW db, IsFleet(db), NEW pools, NEW since
  PROVE  LET spot == M!OnSpot(pools, M!ReclaimRows(db, since))
             jobs == M!OnSpot(pools, M!CheckIntervals(db, since))
         IN  /\ IsFiniteSet(spot) /\ IsFiniteSet(jobs)
             /\ Cardinality(spot) \in Nat /\ Cardinality(jobs) \in Nat
             /\ Cardinality(spot) > 0 => Cardinality(spot) < Cardinality(jobs)
<1>. DEFINE spot == M!OnSpot(pools, M!ReclaimRows(db, since))
            jobs == M!OnSpot(pools, M!CheckIntervals(db, since))
            span(r) == [name |-> r.name, event |-> r.event, from |-> M!StartOf(r), to |-> r.at]
            D == {r \in db.durations : r.at >= since}
<1>0. HasJobs(db)
  BY DEF IsFleet
<1>1. IsFiniteSet(spot) /\ spot \subseteq M!ReclaimRows(db, since)
  <2>1. spot \subseteq M!ReclaimRows(db, since)
    BY DEF M!OnSpot
  <2>. HIDE DEF spot
  <2>. QED BY <1>0, <2>1, RowsAre, FS_Subset
<1>2. IsFiniteSet(jobs)
  <2>1. jobs \subseteq M!CheckIntervals(db, since) /\ IsFiniteSet(M!CheckIntervals(db, since))
    BY <1>0, IntervalsAre DEF M!OnSpot, IsIntervals
  <2>. HIDE DEF jobs
  <2>. QED BY <2>1, FS_Subset
<1>3. M!CheckIntervals(db, since) = {span(r) : r \in D}
  BY DEF M!CheckIntervals, M!Since
<1>4. Cardinality(spot) \in Nat /\ Cardinality(jobs) \in Nat
  <2>. HIDE DEF spot, jobs
  <2>. QED BY <1>1, <1>2, FS_CardinalityType
<1>5. ASSUME Cardinality(spot) > 0 PROVE Cardinality(spot) < Cardinality(jobs)
  <2>1. PICK c \in spot : TRUE
    <3>1. spot # {}
      <4>. HIDE DEF spot
      <4>. QED BY <1>5, FS_EmptySet
    <3>. HIDE DEF spot
    <3>. QED BY <3>1
  <2>2. ASSUME NEW r \in spot
        PROVE  r \in D /\ r.conclusion = "CANCELLED" /\ M!IsSpotPool(M!PoolKeyOf(pools, r))
    <3>1. r \in M!ReclaimRows(db, since) /\ M!IsSpotPool(M!PoolKeyOf(pools, r))
      BY DEF M!OnSpot
    <3>2. r \in M!Identifiable(db, since) /\ r.conclusion = "CANCELLED"
      BY <3>1 DEF M!ReclaimRows
    <3>. QED BY <1>0, <3>1, <3>2, RowsAre
  <2>3. PICK s \in D : s.name = c.name /\ s.event = c.event /\ s.conclusion = "SUCCESS"
    <3>1. c \in M!ReclaimRows(db, since)
      BY <2>1 DEF M!OnSpot
    <3>2. PICK s \in M!Identifiable(db, since) : M!Resolves(s, c)
      BY <3>1 DEF M!ReclaimRows
    <3>3. s \in D
      BY <1>0, <3>2, RowsAre
    <3>. QED BY <3>2, <3>3 DEF M!Resolves
  <2>. DEFINE S == spot \cup {s}
              of == [r \in S |-> span(r)]
              T == {of[r] : r \in S}
  <2>4. \A r \in S : r \in D /\ M!IsSpotPool(M!PoolKeyOf(pools, r))
    <3>1. M!PoolKeyOf(pools, s) = M!PoolKeyOf(pools, c)
      BY <2>3 DEF M!PoolKeyOf
    <3>. HIDE DEF spot, D
    <3>. QED BY <2>1, <2>2, <2>3, <3>1
  <2>5. s \notin spot
    <3>. HIDE DEF spot, D
    <3>. QED BY <2>2, <2>3
  <2>6. T \subseteq jobs
    <3>. SUFFICES ASSUME NEW r \in S PROVE of[r] \in jobs
      OBVIOUS
    <3>1. of[r] = span(r) /\ span(r).name = r.name /\ span(r).event = r.event
      OBVIOUS
    <3>2. span(r) \in M!CheckIntervals(db, since)
      BY <1>3, <2>4
    <3>. HIDE DEF S, of, span
    <3>3. M!PoolKeyOf(pools, span(r)) = M!PoolKeyOf(pools, r)
      BY <3>1 DEF M!PoolKeyOf
    <3>4. M!IsSpotPool(M!PoolKeyOf(pools, span(r)))
      BY <2>4, <3>3
    <3>. QED BY <3>1, <3>2, <3>4 DEF M!OnSpot
  <2>7. \A r, o \in S : of[r] = of[o] => r = o
    <3>. SUFFICES ASSUME NEW r \in S, NEW o \in S, of[r] = of[o] PROVE r = o
      OBVIOUS
    <3>1. r.name = o.name /\ r.event = o.event /\ r.at = o.at
      OBVIOUS
    <3>2. r \in db.durations /\ o \in db.durations
      BY <2>4
    <3>. QED BY <3>1, <3>2 DEF IsFleet
  <2>. HIDE DEF spot, jobs
  <2>8. IsFiniteSet(S) /\ Cardinality(S) = Cardinality(spot) + 1
    BY <1>1, <2>5, FS_AddElement
  <2>. HIDE DEF S, of
  <2>9. IsFiniteSet(T) /\ Cardinality(T) = Cardinality(S)
    BY <2>7, <2>8, ImageIs
  <2>. HIDE DEF T
  <2>10. Cardinality(T) <= Cardinality(jobs)
    BY <1>2, <2>6, FS_Subset
  <2>. QED BY <1>4, <2>8, <2>9, <2>10
<1>. QED BY <1>1, <1>2, <1>4, <1>5

\* The percentile of samples is the value of one of them.
LEMMA PercentileIs ==
  ASSUME NEW S, IsFiniteSet(S), S # {}, \A s \in S : s.value \in Int, NEW p \in Nat, p <= 100
  PROVE  M!Percentile(S, M!ValueOf, p) \in Int
<1>. DEFINE n == Cardinality(S)
            rank == (p * n + 99) \div 100
            values == {s.value : s \in S}
            under(v) == {s \in S : s.value <= v}
            Z == {v \in values : Cardinality(under(v)) >= rank}
<1>1. n \in Nat
  BY FS_CardinalityType
<1>2. rank \in Int /\ rank <= n
  <2>. HIDE DEF n
  <2>1. p * n \in Nat
    BY <1>1
  <2>2. (100 - p) * n \in Nat /\ (100 - p) * n = 100 * n - p * n
    <3>1. 100 - p \in Nat
      OBVIOUS
    <3>. QED BY <1>1, <3>1
  <2>. DEFINE a == p * n
  <2>3. a \in Nat /\ a <= 100 * n
    BY <1>1, <2>1, <2>2
  <2>. HIDE DEF a
  <2>4. (a + 99) \div 100 \in Int /\ (a + 99) \div 100 <= n
    BY <1>1, <2>3
  <2>. QED BY <2>4 DEF a
<1>3. IsFiniteSet(values) /\ values \subseteq Int /\ values # {}
  <2>. DEFINE of == [s \in S |-> s.value]
  <2>1. values = {of[s] : s \in S}
    OBVIOUS
  <2>2. IsFiniteSet(values)
    <3>. HIDE DEF of, values
    <3>. QED BY <2>1, ImageIs
  <2>. QED BY <2>2
<1>4. Max(values) \in Z
  <2>1. Max(values) \in values /\ \A v \in values : v <= Max(values)
    <3>. HIDE DEF values
    <3>. QED BY <1>3, Extremes
  <2>2. under(Max(values)) = S
    <3>1. \A t : (\A s \in S : s.value <= t) => under(t) = S
      OBVIOUS
    <3>2. \A s \in S : s.value <= Max(values)
      BY <2>1
    <3>. HIDE DEF under
    <3>. QED BY <3>1, <3>2
  <2>. HIDE DEF rank, values
  <2>. QED BY <1>1, <1>2, <2>1, <2>2
<1>5. Min(Z) \in Int
  <2>1. Z \subseteq Int /\ IsFiniteSet(Z)
    <3>. HIDE DEF values
    <3>. QED BY <1>3, FS_Subset
  <2>. HIDE DEF Z
  <2>2. Min(Z) \in Z
    BY <1>4, <2>1, Extremes
  <2>. QED BY <2>1, <2>2
<1>6. M!Percentile(S, M!ValueOf, p) = Min(Z)
  <2>1. Z = {v \in {M!ValueOf(s) : s \in S} :
               M!Cardinality({s \in S : M!ValueOf(s) <= v}) >= (p * M!Cardinality(S) + 99) \div 100}
    BY SameCardinality DEF M!ValueOf
  <2>. HIDE DEF Z
  <2>. QED BY <2>1, SameMin DEF M!Percentile
<1>. QED BY <1>5, <1>6

\* The rate and the percentiles of the plan are those of the tab.
LEMMA RateIsShown ==
  ASSUME NEW q, NEW db, IsFleet(db), NEW pools, NEW r \in M!Reclaims(q, db, pools), NEW keys
  PROVE  /\ r.spot.reclaims = Cardinality(M!OnSpot(pools, M!ReclaimRows(db, M!From(q))))
         /\ r.spot.jobs = Cardinality(M!OnSpot(pools, M!CheckIntervals(db, M!From(q))))
         /\ r.spot.jobs > 0 => M!ProjectInputs(q, db, pools, keys).rate = {<<r.spot.reclaims, r.spot.jobs>>}
<1>. DEFINE spot == M!OnSpot(pools, M!ReclaimRows(db, M!From(q)))
            jobs == M!OnSpot(pools, M!CheckIntervals(db, M!From(q)))
<1>1. r.spot.reclaims = M!Cardinality(spot) /\ r.spot.jobs = M!Cardinality(jobs)
  BY DEF M!Reclaims
<1>2. M!ProjectInputs(q, db, pools, keys).rate
        = IF M!Cardinality(jobs) = 0 THEN {} ELSE {<<M!Cardinality(spot), M!Cardinality(jobs)>>}
  BY DEF M!ProjectInputs
<1>. HIDE DEF spot, jobs
<1>3. r.spot.jobs > 0 => M!ProjectInputs(q, db, pools, keys).rate = {<<r.spot.reclaims, r.spot.jobs>>}
  BY <1>1, <1>2
<1>. QED BY <1>1, <1>3, SameCardinality DEF spot, jobs

\* The reclaims by pool add up to their number.
LEMMA ReclaimsByPool ==
  ASSUME NEW q, NEW db, HasJobs(db), NEW pools, NEW r \in M!Reclaims(q, db, pools)
  PROVE  TotalOf(r.byPool) = r.total
<1>. DEFINE S == M!ReclaimRows(db, M!From(q))
            key == [x \in S |-> M!PoolKeyOf(pools, x)]
            K == {key[x] : x \in S}
            counts == r.byPool
<1>1. IsFiniteSet(S)
  BY RowsAre
<1>2. IsFiniteSet(K)
  <2>. HIDE DEF S, key
  <2>. QED BY <1>1, ImageIs
<1>3. /\ counts = [p \in {M!PoolKeyOf(pools, x) : x \in S} |-> M!Cardinality({x \in S : M!PoolKeyOf(pools, x) = p})]
      /\ r.total = M!Cardinality(S)
  <2>. DEFINE byPool == [p \in {M!PoolKeyOf(pools, x) : x \in S} |-> M!Cardinality({x \in S : M!PoolKeyOf(pools, x) = p})]
  <2>1. \E spot : M!Reclaims(q, db, pools)
                   \subseteq {[total |-> M!Cardinality(S), perBucket |-> M!BucketCounts(q, S), byPool |-> byPool,
                               spot |-> spot]}
    <3>. HIDE DEF S
    <3>. QED BY DEF M!Reclaims, S
  <2>. HIDE DEF S, byPool
  <2>2. r.byPool = byPool /\ r.total = M!Cardinality(S)
    BY <2>1
  <2>. QED BY <2>2 DEF byPool
<1>. HIDE DEF S, counts
<1>4. DOMAIN counts = K /\ \A k \in K : counts[k] = M!Cardinality({x \in S : M!PoolKeyOf(pools, x) = k})
  BY <1>3
<1>5. \A k : {x \in S : M!PoolKeyOf(pools, x) = k} = Part(S, key, k)
  BY DEF Part
<1>6. \A k \in K : counts[k] = Cardinality(Part(S, key, k))
  BY <1>4, <1>5, SameCardinality
<1>7. \A x \in S : key[x] \in K
  OBVIOUS
<1>. HIDE DEF key, K
<1>8. TotalOf(counts) = Cardinality(S)
  BY <1>1, <1>2, <1>4, <1>6, <1>7, PartsCount
<1>. QED BY <1>3, <1>8, SameCardinality DEF counts

\* The samples of a check that the plan and the slowest jobs are made of.
Timed(q, db) ==
  {M!Sample(r, r.at, r.secs) : r \in {d \in M!CheckDurationsSince(db, M!From(q)) :
                                        d.event = "pull_request" /\ d.name \in {"a"}}}

\* The percentile of what was timed is one number, when anything was.
LEMMA TimedPercentIs ==
  ASSUME NEW q, NEW db, HasJobs(db)
  PROVE  /\ \A v \in M!Percent(Timed(q, db), 90) : v \in Int
         /\ Timed(q, db) # {} => \E v \in Int : M!Percent(Timed(q, db), 90) = {v}
<1>. DEFINE S == Timed(q, db)
            D == {d \in M!CheckDurationsSince(db, M!From(q)) : d.event = "pull_request" /\ d.name \in {"a"}}
            of == [r \in D |-> M!Sample(r, r.at, r.secs)]
<1>1. D \subseteq db.durations
  BY DEF M!CheckDurationsSince, M!Since
<1>2. IsFiniteSet(D)
  <2>. HIDE DEF D
  <2>. QED BY <1>1, FS_Subset DEF HasJobs
<1>3. S = {of[r] : r \in D}
  BY DEF Timed
<1>4. \A s \in S : s.value \in Int
  <2>1. \A r \in D : of[r].value = r.secs /\ r.secs \in Int
    BY <1>1 DEF M!Sample, HasJobs
  <2>. HIDE DEF S, D, of
  <2>. QED BY <1>3, <2>1
<1>. HIDE DEF S, D, of
<1>5. IsFiniteSet(S)
  BY <1>2, <1>3, ImageIs
<1>6. CASE S = {}
  <2>1. M!Percent(S, 90) = {}
    BY <1>6 DEF M!Percent
  <2>. QED BY <1>6, <2>1 DEF S
<1>7. CASE S # {}
  <2>1. M!Percentile(S, M!ValueOf, 90) \in Int
    BY <1>4, <1>5, <1>7, PercentileIs
  <2>2. M!Percent(S, 90) = {M!Percentile(S, M!ValueOf, 90)}
    BY <1>7 DEF M!Percent
  <2>. QED BY <2>1, <2>2 DEF S
<1>. QED BY <1>6, <1>7

TimedJobs(q, db) ==
  LET rows  == M!CheckDurationsSince(db, M!From(q))
      of(s) == {M!Sample(r, r.at, r.secs) : r \in {d \in rows : <<d.name, d.event>> = s}}
  IN {[check |-> s, rank |-> M!Min(M!Percent(of(s), 50)), p90 |-> M!Min(M!Percent(of(s), 90)),
       n |-> M!Cardinality(of(s)), trend |-> M!BucketPercentiles(q, of(s))] :
         s \in {<<r.name, r.event>> : r \in rows}}

\* The leaders are among the jobs.
LEMMA LeadersAre == ASSUME NEW jobs PROVE M!Leaders(jobs) \subseteq jobs
BY DEF M!Leaders

\* The slowest jobs are among the jobs that were timed.
LEMMA SlowestAre == ASSUME NEW q, NEW db PROVE M!SlowestJobs(q, db) \subseteq TimedJobs(q, db)
<1>1. M!SlowestJobs(q, db) = M!Leaders(TimedJobs(q, db))
  BY DEF M!SlowestJobs, TimedJobs
<1>. QED BY <1>1, LeadersAre

\* The plan's percentile of a job is the one that the slowest jobs show.
LEMMA PercentileIsShown ==
  ASSUME NEW q, NEW db, HasJobs(db), NEW pools, NEW j \in M!SlowestJobs(q, db), j.check = <<"a", "pull_request">>
  PROVE  M!ProjectInputs(q, db, pools, [unit |-> {"a"}]).p90["unit"] = {j.p90}
<1>. DEFINE rows == M!CheckDurationsSince(db, M!From(q))
            of(s) == {M!Sample(r, r.at, r.secs) : r \in {d \in rows : <<d.name, d.event>> = s}}
            keys == [unit |-> {"a"}]
            pairs == {<<r.name, r.event>> : r \in rows}
<1>1. PICK s \in pairs : j.check = s /\ j.p90 = M!Min(M!Percent(of(s), 90))
  <2>1. j \in TimedJobs(q, db)
    BY SlowestAre
  <2>. DEFINE row(s) == [check |-> s, rank |-> M!Min(M!Percent(of(s), 50)), p90 |-> M!Min(M!Percent(of(s), 90)),
                         n |-> M!Cardinality(of(s)), trend |-> M!BucketPercentiles(q, of(s))]
  <2>2. j \in {row(s) : s \in pairs}
    BY <2>1 DEF TimedJobs
  <2>3. \A s : row(s).check = s /\ row(s).p90 = M!Min(M!Percent(of(s), 90))
    OBVIOUS
  <2>. HIDE DEF row, pairs, of
  <2>. QED BY <2>2, <2>3
<1>2. PICK r \in rows : <<r.name, r.event>> = s
  BY <1>1
<1>3. of(s) = Timed(q, db)
  <2>1. {d \in rows : <<d.name, d.event>> = s} = {d \in rows : d.event = "pull_request" /\ d.name \in {"a"}}
    BY <1>1
  <2>. QED BY <2>1 DEF Timed
<1>4. Timed(q, db) # {}
  <2>1. M!Sample(r, r.at, r.secs) \in of(s)
    BY <1>2
  <2>. QED BY <1>3, <2>1
<1>5. PICK v \in Int : M!Percent(Timed(q, db), 90) = {v}
  BY <1>4, TimedPercentIs
<1>6. M!ProjectInputs(q, db, pools, keys).p90["unit"] = M!Percent(Timed(q, db), 90)
  <2>1. "unit" \in DOMAIN keys /\ keys["unit"] = {"a"}
    OBVIOUS
  <2>. HIDE DEF keys
  <2>. QED BY <2>1 DEF M!ProjectInputs, Timed
<1>7. M!Min({v}) = v
  <2>1. IsFiniteSet({v}) /\ {v} \subseteq Int /\ {v} # {}
    BY FS_Singleton
  <2>2. Min({v}) \in {v}
    BY <2>1, Extremes
  <2>. QED BY <2>2, SameMin
<1>. QED BY <1>1, <1>3, <1>5, <1>6, <1>7

\* A higher threshold moves no other job.
LEMMA PlanShrinks ==
  ASSUME NEW q, NEW db, IsFleet(db), NEW pools, NEW n \in 0 .. 2
  PROVE  LET inputs == M!ProjectInputs(q, db, pools, [unit |-> {"a"}])
         IN  M!ComputeRunnerPlan(inputs, n + 1, <<>>) \subseteq M!ComputeRunnerPlan(inputs, n, <<>>)
<1>. DEFINE keys == [unit |-> {"a"}]
            inputs == M!ProjectInputs(q, db, pools, keys)
            spot == Cardinality(M!OnSpot(pools, M!ReclaimRows(db, M!From(q))))
            jobs == Cardinality(M!OnSpot(pools, M!CheckIntervals(db, M!From(q))))
            rate == IF inputs.rate = {} THEN <<0, 1>> ELSE CHOOSE r \in inputs.rate : TRUE
<1>1. spot \in Nat /\ jobs \in Nat
  BY ReclaimsAreFewer
<1>2. inputs.rate = IF jobs = 0 THEN {} ELSE {<<spot, jobs>>}
  BY SameCardinality DEF M!ProjectInputs
<1>3. rate[1] \in Nat /\ rate[2] \in Nat
  <2>. HIDE DEF spot, jobs, inputs
  <2>1. CASE inputs.rate = {}
    BY <2>1
  <2>2. CASE inputs.rate # {}
    <3>1. rate = <<spot, jobs>>
      BY <1>2, <2>2
    <3>. QED BY <1>1, <3>1
  <2>. QED BY <2>1, <2>2
<1>4. DOMAIN inputs.p90 = {"unit"} /\ inputs.p90["unit"] = M!Percent(Timed(q, db), 90)
  <2>1. DOMAIN keys = {"unit"} /\ keys["unit"] = {"a"}
    OBVIOUS
  <2>. HIDE DEF keys
  <2>. QED BY <2>1 DEF M!ProjectInputs, Timed
<1>5. \A p \in inputs.p90["unit"] : p \in Int
  <2>1. HasJobs(db)
    BY DEF IsFleet
  <2>. QED BY <1>4, <2>1, TimedPercentIs
<1>6. \A k \in Nat : \A x : x \in M!ComputeRunnerPlan(inputs, k, <<>>)
         <=> x = "unit" /\ \E p \in inputs.p90["unit"] : rate[1] * p >= k * Minute * rate[2]
  <2>1. DOMAIN <<>> = {}
    OBVIOUS
  <2>. HIDE DEF inputs
  <2>. QED BY <1>4, <2>1 DEF M!ComputeRunnerPlan
<1>7. Minute \in Nat
  BY MetricsAssumption
<1>9. n \in Nat /\ n + 1 \in Nat
  OBVIOUS
<1>. HIDE DEF inputs, rate
<1>8. ASSUME NEW p \in Int, rate[1] * p >= (n + 1) * Minute * rate[2] PROVE rate[1] * p >= n * Minute * rate[2]
  <2>. DEFINE b == Minute * rate[2]
              a == rate[1] * p
  <2>1. b \in Nat /\ a \in Int
    BY <1>3, <1>7
  <2>2. (n + 1) * Minute * rate[2] = (n + 1) * b /\ n * Minute * rate[2] = n * b
    <3>. DEFINE m == rate[2]
    <3>1. m \in Nat /\ b = Minute * m
      BY <1>3
    <3>2. \A i, j, k \in Nat : i * j * k = i * (j * k)
      OBVIOUS
    <3>. HIDE DEF m, b
    <3>3. (n + 1) * Minute * m = (n + 1) * b /\ n * Minute * m = n * b
      BY <1>7, <1>9, <3>1, <3>2
    <3>. QED BY <3>3 DEF m
  <2>3. a >= (n + 1) * b
    BY <1>8, <2>2
  <2>4. (n + 1) * b = n * b + b /\ n * b \in Nat
    <3>. HIDE DEF b
    <3>. QED BY <2>1
  <2>. HIDE DEF a, b
  <2>5. a >= n * b
    <3>. DEFINE c == n * b
    <3>. HIDE DEF c
    <3>1. c \in Nat /\ (n + 1) * b = c + b
      BY <2>4 DEF c
    <3>2. a >= c + b
      BY <2>3, <3>1
    <3>. QED BY <2>1, <3>1, <3>2 DEF c
  <2>. QED BY <2>2, <2>5 DEF a
<1>10. M!ComputeRunnerPlan(inputs, n + 1, <<>>) \subseteq M!ComputeRunnerPlan(inputs, n, <<>>)
  BY <1>5, <1>6, <1>8, <1>9
<1>. QED BY <1>10 DEF inputs

(***************************************************************************)
(* The radar of flaky checks.                                              *)
(***************************************************************************)
\* The runs that rows are of, each where its first row completed.
RunsOf(R) ==
  {M!Sample(M!RunOf(r), M!Min({d.at : d \in {o \in R : M!RunOf(o) = M!RunOf(r)}}), 0) : r \in R}

\* Rows of one check: those of one run completed together.
IsSeries(R) ==
  /\ IsFiniteSet(R) /\ \A r \in R : r.at \in Int
  /\ \A r, o \in R : M!RunOf(r) = M!RunOf(o) => r.at = o.at

\* The runs of a series are as many as its keys, and each row's bucket has a run.
LEMMA RunsCount ==
  ASSUME NEW R, IsSeries(R)
  PROVE  /\ IsFiniteSet(RunsOf(R)) /\ Cardinality(RunsOf(R)) = Cardinality({M!RunOf(r) : r \in R})
         /\ \A r \in R : \E s \in RunsOf(R) : s.at = r.at
<1>. DEFINE keyOf == [r \in R |-> M!RunOf(r)]
            K == {keyOf[r] : r \in R}
            first(k) == M!Min({d.at : d \in {o \in R : M!RunOf(o) = k}})
            sample == [k \in K |-> M!Sample(k, first(k), 0)]
            T == {sample[k] : k \in K}
<1>1. IsFiniteSet(R)
  BY DEF IsSeries
<1>2. IsFiniteSet(K)
  <2>. HIDE DEF keyOf
  <2>. QED BY <1>1, ImageIs
<1>3. K = {M!RunOf(r) : r \in R}
  OBVIOUS
<1>4. RunsOf(R) = T
  <2>1. RunsOf(R) = {M!Sample(M!RunOf(r), first(M!RunOf(r)), 0) : r \in R}
    BY DEF RunsOf
  <2>. HIDE DEF first
  <2>2. \A k \in K : sample[k] = M!Sample(k, first(k), 0)
    OBVIOUS
  <2>. HIDE DEF sample, K
  <2>. QED BY <1>3, <2>1, <2>2
<1>5. \A k, j \in K : sample[k] = sample[j] => k = j
  <2>. SUFFICES ASSUME NEW k \in K, NEW j \in K, sample[k] = sample[j] PROVE k = j
    OBVIOUS
  <2>1. sample[k].id = k /\ sample[j].id = j
    BY DEF M!Sample
  <2>. HIDE DEF sample, K
  <2>. QED BY <2>1
<1>6. IsFiniteSet(T) /\ Cardinality(T) = Cardinality(K)
  <2>. HIDE DEF sample, K
  <2>. QED BY <1>2, <1>5, ImageIs
<1>7. ASSUME NEW r \in R PROVE \E s \in RunsOf(R) : s.at = r.at
  <2>. DEFINE k == M!RunOf(r)
              Z == {d.at : d \in {o \in R : M!RunOf(o) = k}}
  <2>1. r.at \in Int
    BY DEF IsSeries
  <2>2. Z = {r.at}
    BY DEF IsSeries
  <2>3. M!Min({r.at}) = r.at
    <3>. DEFINE a == r.at
    <3>. HIDE DEF a
    <3>1. a \in Int
      BY <2>1 DEF a
    <3>2. IsFiniteSet({a}) /\ {a} \subseteq Int /\ {a} # {}
      BY <3>1, FS_Singleton
    <3>3. Min({a}) \in {a}
      BY <3>2, Extremes
    <3>4. M!Min({a}) = a
      BY <3>3, SameMin
    <3>. QED BY <3>4 DEF a
  <2>4. first(k) = r.at
    <3>1. first(k) = M!Min(Z)
      OBVIOUS
    <3>. HIDE DEF first, Z, k
    <3>. QED BY <2>2, <2>3, <3>1
  <2>5. sample[k].at = first(k) /\ k \in K
    BY DEF M!Sample
  <2>. HIDE DEF sample, K, first, k
  <2>6. sample[k] \in RunsOf(R)
    BY <1>4, <2>5
  <2>. QED BY <2>4, <2>5, <2>6
<1>. HIDE DEF T, K, sample, keyOf
<1>. QED BY <1>3, <1>4, <1>6, <1>7

\* The trend of a check counts its runs and its flakes.
LEMMA TrendCounts ==
  ASSUME NEW q, NEW R, IsSeries(R), NEW F, F \subseteq R,
         NEW trend, DOMAIN trend = DOMAIN M!BucketCounts(q, RunsOf(R)),
         \A b \in DOMAIN trend :
            /\ trend[b]["runs"] = M!BucketCounts(q, RunsOf(R))[b]
            /\ trend[b]["flakes"] = IF b \in DOMAIN M!BucketCounts(q, F) THEN M!BucketCounts(q, F)[b] ELSE 0
  PROVE  /\ TotalOf([b \in DOMAIN trend |-> trend[b]["runs"]]) = Cardinality({M!RunOf(r) : r \in R})
         /\ TotalOf([b \in DOMAIN trend |-> trend[b]["flakes"]]) = Cardinality(F)
<1>. DEFINE runs == M!BucketCounts(q, RunsOf(R))
            flakes == M!BucketCounts(q, F)
            key == [f \in F |-> M!BucketOf(q, f.at)]
            K == DOMAIN trend
<1>1. IsFiniteSet(RunsOf(R)) /\ Cardinality(RunsOf(R)) = Cardinality({M!RunOf(r) : r \in R})
      /\ \A r \in R : \E s \in RunsOf(R) : s.at = r.at
  BY RunsCount
<1>2. TotalOf(runs) = Cardinality({M!RunOf(r) : r \in R})
  BY <1>1, BucketsCount
<1>3. [b \in K |-> trend[b]["runs"]] = runs
  <2>1. runs = [b \in DOMAIN runs |-> runs[b]]
    BY DEF M!BucketCounts
  <2>. HIDE DEF runs
  <2>2. K = DOMAIN runs /\ \A b \in K : trend[b]["runs"] = runs[b]
    BY DEF runs
  <2>. HIDE DEF K
  <2>. QED BY <2>1, <2>2
<1>4. DOMAIN runs = {M!BucketOf(q, s.at) : s \in RunsOf(R)}
  BY DEF M!BucketCounts
<1>5. IsFiniteSet(K)
  <2>. DEFINE of == [s \in RunsOf(R) |-> M!BucketOf(q, s.at)]
  <2>1. K = {of[s] : s \in RunsOf(R)}
    BY <1>4
  <2>. HIDE DEF of, K
  <2>. QED BY <1>1, <2>1, ImageIs
<1>6. \A f \in F : key[f] \in K
  <2>. TAKE f \in F
  <2>1. PICK s \in RunsOf(R) : s.at = f.at
    BY <1>1
  <2>2. key[f] = M!BucketOf(q, s.at)
    BY <2>1
  <2>3. K = {M!BucketOf(q, t.at) : t \in RunsOf(R)}
    BY <1>4
  <2>. HIDE DEF K, key
  <2>. QED BY <2>2, <2>3
<1>7. IsFiniteSet(F)
  BY FS_Subset DEF IsSeries
<1>8. flakes = [b \in {M!BucketOf(q, f.at) : f \in F} |-> M!Cardinality({f \in F : M!BucketOf(q, f.at) = b})]
  BY DEF M!BucketCounts
<1>9. ASSUME NEW b \in K PROVE trend[b]["flakes"] = Cardinality(Part(F, key, b))
  <2>1. trend[b]["flakes"] = IF b \in DOMAIN flakes THEN flakes[b] ELSE 0
    OBVIOUS
  <2>2. Part(F, key, b) = {f \in F : M!BucketOf(q, f.at) = b}
    BY DEF Part
  <2>. HIDE DEF flakes, K, key
  <2>3. DOMAIN flakes = {M!BucketOf(q, f.at) : f \in F}
    BY <1>8
  <2>4. CASE b \in DOMAIN flakes
    <3>1. flakes[b] = M!Cardinality({f \in F : M!BucketOf(q, f.at) = b})
      BY <1>8, <2>3, <2>4
    <3>. QED BY <2>1, <2>2, <2>4, <3>1, SameCardinality
  <2>5. CASE b \notin DOMAIN flakes
    <3>1. {f \in F : M!BucketOf(q, f.at) = b} = {}
      BY <2>3, <2>5
    <3>. QED BY <2>1, <2>2, <2>5, <3>1, FS_EmptySet
  <2>. QED BY <2>4, <2>5
<1>. DEFINE counts == [b \in K |-> trend[b]["flakes"]]
<1>10. DOMAIN counts = K /\ \A b \in K : counts[b] = Cardinality(Part(F, key, b))
  BY <1>9
<1>. HIDE DEF counts, key, K
<1>11. TotalOf(counts) = Cardinality(F)
  BY <1>5, <1>6, <1>7, <1>10, PartsCount
<1>. QED BY <1>2, <1>3, <1>11 DEF counts, K

\* The rows, the runs and the trend of a check of the radar.
RadarRows(q, db, s) == {r \in M!Identifiable(db, M!From(q)) : r.name = s.name /\ r.event = s.event}
RadarFlakes(q, db, s) == M!FlakeRows(db, M!From(q)) \cap RadarRows(q, db, s)
RadarTrend(q, db, s) ==
  LET runs   == M!BucketCounts(q, RunsOf(RadarRows(q, db, s)))
      flakes == M!BucketCounts(q, RadarFlakes(q, db, s))
  IN [b \in DOMAIN runs |-> [runs |-> runs[b], flakes |-> IF b \in DOMAIN flakes THEN flakes[b] ELSE 0]]
Radar(q, db) ==
  {[check |-> <<s.name, s.event>>, flakes |-> s.flakes, runs |-> s.runs,
    rank |-> (1000 * s.flakes) \div s.runs, trend |-> RadarTrend(q, db, s)] :
      s \in {t \in M!Trusted(db, M!From(q)) : t.flakes > 0}}

\* The radar shows some of the checks that it may.
LEMMA RadarIs == ASSUME NEW q, NEW db PROVE M!FlakeRadar(q, db) \subseteq Radar(q, db)
<1>1. M!FlakeRadar(q, db) = M!Leaders(Radar(q, db))
  BY Zenon DEF M!FlakeRadar, Radar, RadarTrend, RadarFlakes, RadarRows, RunsOf
<1>. QED BY <1>1, LeadersAre

\* The counts of a check on the radar are of its rows.
LEMMA StatIs ==
  ASSUME NEW q, NEW db, IsFleet(db), NEW s \in M!Trusted(db, M!From(q))
  PROVE  /\ s.runs = Cardinality({M!RunOf(r) : r \in RadarRows(q, db, s)})
         /\ s.flakes = Cardinality(RadarFlakes(q, db, s))
<1>. DEFINE rows == M!Identifiable(db, M!From(q))
            found == M!FlakeRows(db, M!From(q))
            stat(k) == [name |-> k[1], event |-> k[2],
                        flakes |-> M!Cardinality({f \in found : <<f.name, f.event>> = k}),
                        runs |-> M!Cardinality({M!RunOf(r) : r \in {o \in rows : <<o.name, o.event>> = k}})]
            pairs == {<<r.name, r.event>> : r \in rows}
<1>1. s \in {stat(k) : k \in pairs}
  BY DEF M!Trusted, M!FlakeStats
<1>2. PICK k \in pairs : s = stat(k)
  <2>. HIDE DEF stat, pairs
  <2>. QED BY <1>1
<1>3. s.name = k[1] /\ s.event = k[2]
      /\ s.flakes = M!Cardinality({f \in found : <<f.name, f.event>> = k})
      /\ s.runs = M!Cardinality({M!RunOf(r) : r \in {o \in rows : <<o.name, o.event>> = k}})
  BY <1>2
<1>4. PICK n, e : k = <<n, e>>
  BY <1>2
<1>5. {o \in rows : <<o.name, o.event>> = k} = RadarRows(q, db, s)
  BY <1>3, <1>4 DEF RadarRows
<1>6. {f \in found : <<f.name, f.event>> = k} = RadarFlakes(q, db, s)
  <2>1. found \subseteq rows
    BY RowsAre DEF IsFleet
  <2>. QED BY <1>3, <1>4, <2>1 DEF RadarRows, RadarFlakes
<1>. QED BY <1>3, <1>5, <1>6, SameCardinality

\* The series of a check on the radar adds up to its runs and to its flakes.
LEMMA TrendIsShown ==
  ASSUME NEW q, NEW db, IsFleet(db), NEW c \in M!FlakeRadar(q, db)
  PROVE  /\ TotalOf([b \in DOMAIN c.trend |-> c.trend[b]["runs"]]) = c.runs
         /\ TotalOf([b \in DOMAIN c.trend |-> c.trend[b]["flakes"]]) = c.flakes
<1>1. PICK s \in M!Trusted(db, M!From(q)) : c.trend = RadarTrend(q, db, s) /\ c.runs = s.runs /\ c.flakes = s.flakes
  BY RadarIs DEF Radar
<1>. DEFINE R == RadarRows(q, db, s)
            F == RadarFlakes(q, db, s)
<1>2. IsSeries(R)
  <2>1. HasJobs(db)
    BY DEF IsFleet
  <2>2. R \subseteq db.durations
    BY <2>1, RowsAre DEF RadarRows
  <2>3. IsFiniteSet(R)
    <3>. HIDE DEF R
    <3>. QED BY <2>1, <2>2, FS_Subset DEF HasJobs
  <2>4. \A r \in R : r.at \in Int
    <3>. HIDE DEF R
    <3>. QED BY <2>1, <2>2 DEF HasJobs
  <2>5. ASSUME NEW r \in R, NEW o \in R, M!RunOf(r) = M!RunOf(o) PROVE r.at = o.at
    <3>1. r.name = o.name /\ r.event = o.event
      BY DEF RadarRows
    <3>2. r.sha = o.sha /\ r.attempt = o.attempt /\ (r.attempt = 0 => r.at = o.at)
      BY <2>5 DEF M!RunOf
    <3>. HIDE DEF R
    <3>3. r \in db.durations /\ o \in db.durations
      BY <2>2
    <3>. QED BY <3>1, <3>2, <3>3 DEF IsFleet
  <2>. HIDE DEF R
  <2>. QED BY <2>3, <2>4, <2>5 DEF IsSeries
<1>3. F \subseteq R
  BY DEF RadarFlakes
<1>4. DOMAIN c.trend = DOMAIN M!BucketCounts(q, RunsOf(R))
  BY <1>1 DEF RadarTrend
<1>5. \A b \in DOMAIN c.trend :
        /\ c.trend[b]["runs"] = M!BucketCounts(q, RunsOf(R))[b]
        /\ c.trend[b]["flakes"] = IF b \in DOMAIN M!BucketCounts(q, F) THEN M!BucketCounts(q, F)[b] ELSE 0
  BY <1>1 DEF RadarTrend
<1>. HIDE DEF R, F
<1>6. /\ TotalOf([b \in DOMAIN c.trend |-> c.trend[b]["runs"]]) = Cardinality({M!RunOf(r) : r \in R})
      /\ TotalOf([b \in DOMAIN c.trend |-> c.trend[b]["flakes"]]) = Cardinality(F)
  BY <1>2, <1>3, <1>4, <1>5, TrendCounts
<1>. QED BY <1>1, <1>6, StatIs DEF R, F

\* The runner plan follows the tab, for every query, history and table of pools: its rate
\* and its percentiles are those shown, a higher threshold never moves another job, and
\* what is counted in series adds up to the totals (computeRunnerPlan, projectInputs).
THEOREM PlanFollows ==
  ASSUME NEW q, NEW db, IsFleet(db), NEW pools PROVE PlanFollowsTheTab(q, db, pools)
<1>0. HasJobs(db)
  BY DEF IsFleet
<1>. DEFINE keys == [unit |-> {"a"}]
            inputs == M!ProjectInputs(q, db, pools, keys)
<1>1. ASSUME NEW r \in M!Reclaims(q, db, pools)
      PROVE  /\ r.spot.jobs > 0 => inputs.rate = {<<r.spot.reclaims, r.spot.jobs>>}
             /\ r.spot.reclaims > 0 => r.spot.reclaims < r.spot.jobs
             /\ TotalOf(r.byPool) = r.total
  <2>1. /\ r.spot.reclaims = Cardinality(M!OnSpot(pools, M!ReclaimRows(db, M!From(q))))
        /\ r.spot.jobs = Cardinality(M!OnSpot(pools, M!CheckIntervals(db, M!From(q))))
        /\ r.spot.jobs > 0 => inputs.rate = {<<r.spot.reclaims, r.spot.jobs>>}
    <3>. HIDE DEF keys
    <3>. QED BY RateIsShown
  <2>2. r.spot.reclaims > 0 => r.spot.reclaims < r.spot.jobs
    BY <2>1, ReclaimsAreFewer
  <2>3. TotalOf(r.byPool) = r.total
    BY <1>0, ReclaimsByPool
  <2>. QED BY <2>1, <2>2, <2>3
<1>2. \A j \in M!SlowestJobs(q, db) : j.check = <<"a", "pull_request">> => inputs.p90["unit"] = {j.p90}
  BY <1>0, PercentileIsShown
<1>3. \A n \in 0 .. 2 : M!ComputeRunnerPlan(inputs, n + 1, <<>>) \subseteq M!ComputeRunnerPlan(inputs, n, <<>>)
  BY PlanShrinks
<1>4. \A c \in M!FlakeRadar(q, db) :
        /\ TotalOf([b \in DOMAIN c.trend |-> c.trend[b]["runs"]]) = c.runs
        /\ TotalOf([b \in DOMAIN c.trend |-> c.trend[b]["flakes"]]) = c.flakes
  BY TrendIsShown
<1>. QED BY <1>1, <1>2, <1>3, <1>4 DEF PlanFollowsTheTab

(***************************************************************************)
(* The window and the one before it.                                       *)
(***************************************************************************)
\* Rows whose times can be compared.
Dated(rows) == \A r \in rows : r.at \in Int
CurrentRows(q, rows) == {r \in rows : r.at >= M!From(q)}
PreviousRows(q, rows) == {r \in rows : r.at >= M!From(q) - M!Length(q) /\ r.at < M!From(q)}

\* What a window needs to be split.
IsWindow(q) == M!From(q) \in Int /\ M!Length(q) \in Nat

\* A read of twice the window is split at its beginning.
LEMMA SplitIs ==
  ASSUME NEW q, IsWindow(q), NEW rows, Dated(rows)
  PROVE  M!SplitWindow(q, rows).cur = CurrentRows(q, rows) /\ M!SplitWindow(q, rows).prev = PreviousRows(q, rows)
<1>. DEFINE F == M!From(q)
            L == M!Length(q)
            read == {r \in rows : r.at >= F - L}
            cur == {r \in read : r.at >= F}
<1>1. M!SplitWindow(q, rows).cur = cur /\ M!SplitWindow(q, rows).prev = read \ cur
  BY DEF M!SplitWindow, M!Since
<1>2. F \in Int /\ L \in Nat
  BY DEF IsWindow
<1>. HIDE DEF F, L
<1>3. cur = {r \in rows : r.at >= F} /\ read \ cur = {r \in rows : r.at >= F - L /\ r.at < F}
  BY <1>2 DEF Dated
<1>. QED BY <1>1, <1>3 DEF F, L, CurrentRows, PreviousRows

\* A query of the tab, as the client sends it.
IsFullQuery(q) ==
  /\ IsQuery(q)
  /\ q \in [window : DOMAIN M!WindowDays, bucket : {"hour", "day"}, now : Nat]
Earlier(q) == [q EXCEPT !.now = M!From(q)]

\* The query of a window's length ago: its window ends where this one begins.
LEMMA EarlierIs ==
  ASSUME NEW q, IsFullQuery(q)
  PROVE  /\ IsWindow(q) /\ IsWindow(Earlier(q))
         /\ M!Length(Earlier(q)) = M!Length(q) /\ M!From(Earlier(q)) = M!From(q) - M!Length(q)
<1>1. Earlier(q).window = q.window /\ Earlier(q).now = M!From(q)
  BY DEF IsFullQuery, Earlier
<1>2. M!Length(Earlier(q)) = M!Length(q)
  BY <1>1 DEF M!Length
<1>3. M!From(Earlier(q)) = M!From(q) - M!Length(q)
  BY <1>1, <1>2 DEF M!From
<1>4. M!From(q) \in Nat /\ M!Length(q) \in Nat
  BY QueryIs DEF IsFullQuery
<1>. QED BY <1>2, <1>3, <1>4 DEF IsWindow

\* What the earlier query calls current is what this one calls previous.
LEMMA Abutting ==
  ASSUME NEW q, IsFullQuery(q), NEW rows, Dated(rows), NEW past, past = {r \in rows : r.at < M!From(q)}
  PROVE  M!SplitWindow(Earlier(q), past).cur = M!SplitWindow(q, rows).prev
<1>1. Dated(past)
  BY DEF Dated
<1>2. M!SplitWindow(Earlier(q), past).cur = CurrentRows(Earlier(q), past)
  BY <1>1, EarlierIs, SplitIs
<1>3. M!SplitWindow(q, rows).prev = PreviousRows(q, rows)
  BY EarlierIs, SplitIs
<1>4. CurrentRows(Earlier(q), past) = PreviousRows(q, rows)
  BY EarlierIs DEF CurrentRows, PreviousRows
<1>. QED BY <1>2, <1>3, <1>4

\* The headlines of a section.
QueueSays(q, db, merged, s) ==
  LET merges == M!SplitWindow(q, merged)
      waits  == M!SplitWindow(q, M!QueueWaits(db))
      trains == M!SplitWindow(q, M!GroupRuns(db))
  IN  /\ s["merges"] = [value |-> M!Cardinality(merges.cur), prev |-> M!Cardinality(merges.prev)]
      /\ s["queueWaitP50"] = [value |-> M!Percent(waits.cur, 50), prev |-> M!Percent(waits.prev, 50)]
      /\ s["groupRunP50"] = [value |-> M!Percent(trains.cur, 50), prev |-> M!Percent(trains.prev, 50)]
      /\ s["mergesPerBucket"] = M!BucketCounts(q, merges.cur)

\* What the queue section's headlines are.
LEMMA QueueHeads ==
  ASSUME NEW q, NEW db, NEW merged, NEW s \in M!Queue(q, db, merged) PROVE QueueSays(q, db, merged, s)
BY DEF M!Queue, M!CountStat, M!P50Stat, M!Headline, QueueSays

VelocitySays(q, merged, s) ==
  LET merges == M!SplitWindow(q, merged)
  IN  /\ s["merged"] = [value |-> M!Cardinality(merges.cur), prev |-> M!Cardinality(merges.prev)]
      /\ s["mergeToQaP50"] = [value |-> M!Percent(M!ToQa(merges.cur), 50), prev |-> M!Percent(M!ToQa(merges.prev), 50)]
      /\ s["lifespanMean"] = [value |-> M!MeanOf(M!Lifespan(merges.cur)), prev |-> M!MeanOf(M!Lifespan(merges.prev))]
      /\ s["mergedPerBucket"] = M!BucketCounts(q, merges.cur)

\* What the velocity section's headlines are.
LEMMA VelocityHeads ==
  ASSUME NEW q, NEW merged, NEW s \in M!Velocity(q, merged) PROVE VelocitySays(q, merged, s)
BY DEF M!Velocity, M!CountStat, M!Headline, VelocitySays

\* The two figures of a headline.
LEMMA HeadIs ==
  ASSUME NEW h, NEW v, NEW p, h = [value |-> v, prev |-> p] PROVE h.value = v /\ h.prev = p
OBVIOUS

\* A history of the merges and what the queue and the runners did.
IsMerges(merged) ==
  /\ IsFiniteSet(merged) /\ Dated(merged)
  /\ \A m \in merged : m.prod \in Int /\ (m.prod # 0 => m.at <= m.prod)

IsHistory(db) ==
  /\ {"queueWaits", "groupRuns"} \subseteq DOMAIN db
  /\ \A i \in DOMAIN db.queueWaits : db.queueWaits[i].at \in Int
  /\ Dated(db.groupRuns)
  /\ IsFiniteSet(db.durations) /\ IsFiniteSet(db.failures) /\ IsFiniteSet(db.runnerWaits)
  /\ \A r \in db.runnerWaits : r.started \in Int
  /\ db.states \in Seq([at : Nat, counts : {db.states[i].counts : i \in DOMAIN db.states}])
  /\ \A i, j \in DOMAIN db.states : i <= j => db.states[i].at <= db.states[j].at

\* The samples of the history cut at the window's beginning are those from before it.
LEMMA BeforeIs ==
  ASSUME NEW q, IsFullQuery(q), NEW db, IsHistory(db)
  PROVE  LET past == Before(db, M!From(q))
         IN  /\ Dated(M!QueueWaits(db)) /\ Dated(M!GroupRuns(db))
             /\ M!QueueWaits(past) = {s \in M!QueueWaits(db) : s.at < M!From(q)}
             /\ M!GroupRuns(past) = {s \in M!GroupRuns(db) : s.at < M!From(q)}
<1>. DEFINE F == M!From(q)
            past == Before(db, F)
            w == db.queueWaits
            W == {j \in DOMAIN w : w[j].at < F}
            g == db.groupRuns
<1>1. past.queueWaits = [i \in W |-> w[i]]
  BY DEF Before, IsHistory
<1>2. past.groupRuns = {r \in g : r.at < F}
  BY DEF Before, IsHistory
<1>3. \A i \in DOMAIN w : w[i].at \in Int
  BY DEF IsHistory
<1>4. \A r \in g : r.at \in Int
  BY DEF IsHistory, Dated
<1>5. M!QueueWaits(db) = {M!Sample(i, w[i].at, w[i].secs) : i \in DOMAIN w}
  BY DEF M!QueueWaits
<1>6. M!QueueWaits(past) = {M!Sample(i, w[i].at, w[i].secs) : i \in W}
  <2>. DEFINE v == past.queueWaits
  <2>1. M!QueueWaits(past) = {M!Sample(i, v[i].at, v[i].secs) : i \in DOMAIN v}
    BY DEF M!QueueWaits
  <2>. HIDE DEF past, w, W
  <2>2. DOMAIN v = W /\ \A i \in W : v[i] = w[i]
    BY <1>1
  <2>. HIDE DEF v
  <2>. QED BY <2>1, <2>2
<1>7. \A i, a, v : M!Sample(i, a, v).at = a
  BY DEF M!Sample
<1>8. M!GroupRuns(db) = {M!Sample(r, r.at, r.secs) : r \in g}
      /\ M!GroupRuns(past) = {M!Sample(r, r.at, r.secs) : r \in {o \in g : o.at < F}}
  BY <1>2 DEF M!GroupRuns
<1>. HIDE DEF past, w, g, F
<1>9. Dated(M!QueueWaits(db)) /\ Dated(M!GroupRuns(db))
  BY <1>3, <1>4, <1>5, <1>7, <1>8 DEF Dated
<1>10. M!QueueWaits(past) = {s \in M!QueueWaits(db) : s.at < F}
  BY <1>5, <1>6, <1>7
<1>11. M!GroupRuns(past) = {s \in M!GroupRuns(db) : s.at < F}
  BY <1>7, <1>8
<1>. QED BY <1>9, <1>10, <1>11 DEF past, F

\* Windows abut, for every query, history and list of merges: what a headline calls the
\* previous window is what it called the current one a window's length ago.
THEOREM WindowsMeet ==
  ASSUME NEW q, IsFullQuery(q), NEW db, IsHistory(db), NEW merged, IsMerges(merged)
  PROVE  WindowsAbut(q, db, merged)
<1>. DEFINE F == M!From(q)
            past == {m \in merged : m.at < F}
            before == Before(db, F)
<1>1. M!SplitWindow(Earlier(q), past).cur = M!SplitWindow(q, merged).prev
  BY Abutting DEF IsMerges
<1>2. /\ M!SplitWindow(Earlier(q), M!QueueWaits(before)).cur = M!SplitWindow(q, M!QueueWaits(db)).prev
      /\ M!SplitWindow(Earlier(q), M!GroupRuns(before)).cur = M!SplitWindow(q, M!GroupRuns(db)).prev
  BY BeforeIs, Abutting
<1>. HIDE DEF before, past
<1>3. ASSUME NEW s \in M!Queue(q, db, merged), NEW f \in M!Queue(Earlier(q), before, past),
             NEW k \in {"merges", "queueWaitP50", "groupRunP50"}
      PROVE  s[k].prev = f[k].value
  <2>1. QueueSays(q, db, merged, s)
    BY QueueHeads
  <2>2. QueueSays(Earlier(q), before, past, f)
    BY QueueHeads
  <2>3. /\ s["merges"].prev = M!Cardinality(M!SplitWindow(q, merged).prev)
        /\ s["queueWaitP50"].prev = M!Percent(M!SplitWindow(q, M!QueueWaits(db)).prev, 50)
        /\ s["groupRunP50"].prev = M!Percent(M!SplitWindow(q, M!GroupRuns(db)).prev, 50)
    BY <2>1, HeadIs DEF QueueSays
  <2>4. /\ f["merges"].value = M!Cardinality(M!SplitWindow(Earlier(q), past).cur)
        /\ f["queueWaitP50"].value = M!Percent(M!SplitWindow(Earlier(q), M!QueueWaits(before)).cur, 50)
        /\ f["groupRunP50"].value = M!Percent(M!SplitWindow(Earlier(q), M!GroupRuns(before)).cur, 50)
    BY <2>2, HeadIs DEF QueueSays
  <2>. QED BY <1>1, <1>2, <2>3, <2>4
<1>4. ASSUME NEW s \in M!Velocity(q, merged), NEW f \in M!Velocity(Earlier(q), past),
             NEW k \in {"merged", "mergeToQaP50", "lifespanMean"}
      PROVE  s[k].prev = f[k].value
  <2>. DEFINE old == M!SplitWindow(q, merged).prev
  <2>1. VelocitySays(q, merged, s)
    BY VelocityHeads
  <2>2. VelocitySays(Earlier(q), past, f)
    BY VelocityHeads
  <2>3. /\ s["merged"].prev = M!Cardinality(old)
        /\ s["mergeToQaP50"].prev = M!Percent(M!ToQa(old), 50)
        /\ s["lifespanMean"].prev = M!MeanOf(M!Lifespan(old))
    BY <2>1, HeadIs DEF VelocitySays
  <2>4. /\ f["merged"].value = M!Cardinality(old)
        /\ f["mergeToQaP50"].value = M!Percent(M!ToQa(old), 50)
        /\ f["lifespanMean"].value = M!MeanOf(M!Lifespan(old))
    BY <1>1, <2>2, HeadIs DEF VelocitySays
  <2>. QED BY <2>3, <2>4
<1>. QED BY <1>3, <1>4 DEF WindowsAbut, Earlier, before, past

(***************************************************************************)
(* Sections that count one window.                                         *)
(***************************************************************************)
\* The merges of the window, dated and finitely many.
LEMMA MergesAre ==
  ASSUME NEW q, IsFullQuery(q), NEW merged, IsMerges(merged)
  PROVE  /\ M!SplitWindow(q, merged).cur = CurrentRows(q, merged)
         /\ IsFiniteSet(CurrentRows(q, merged)) /\ CurrentRows(q, merged) \subseteq merged
<1>1. M!SplitWindow(q, merged).cur = CurrentRows(q, merged)
  BY EarlierIs, SplitIs DEF IsMerges
<1>2. CurrentRows(q, merged) \subseteq merged
  BY DEF CurrentRows
<1>3. IsFiniteSet(CurrentRows(q, merged))
  BY <1>2, FS_Subset DEF IsMerges
<1>. QED BY <1>1, <1>2, <1>3

\* The series of the velocity section adds up to its count, which the queue section
\* repeats.
MergesAgree(q, db, merged) ==
  \A v \in M!Velocity(q, merged) :
    /\ TotalOf(v.mergedPerBucket) = v.merged.value
    /\ v.merged.value = Cardinality(CurrentRows(q, merged))
    /\ \A s \in M!Queue(q, db, merged) : s.merges = v.merged /\ s.mergesPerBucket = v.mergedPerBucket

\* Velocity and queue count the merges of the window, in all and in their series.
LEMMA MergesAreCounted ==
  ASSUME NEW q, IsFullQuery(q), NEW db, NEW merged, IsMerges(merged) PROVE MergesAgree(q, db, merged)
<1>. DEFINE w == M!SplitWindow(q, merged)
            rows == w.cur
<1>1. IsFiniteSet(rows) /\ rows = CurrentRows(q, merged)
  BY MergesAre
<1>2. TotalOf(M!BucketCounts(q, rows)) = Cardinality(rows) /\ M!Cardinality(rows) = Cardinality(rows)
  BY <1>1, BucketsCount, SameCardinality
<1>3. ASSUME NEW v \in M!Velocity(q, merged)
      PROVE  /\ v.merged = [value |-> M!Cardinality(rows), prev |-> M!Cardinality(w.prev)]
             /\ v.mergedPerBucket = M!BucketCounts(q, rows)
  <2>1. VelocitySays(q, merged, v)
    BY VelocityHeads
  <2>. QED BY <2>1 DEF VelocitySays
<1>4. ASSUME NEW s \in M!Queue(q, db, merged)
      PROVE  /\ s.merges = [value |-> M!Cardinality(rows), prev |-> M!Cardinality(w.prev)]
             /\ s.mergesPerBucket = M!BucketCounts(q, rows)
  <2>1. QueueSays(q, db, merged, s)
    BY QueueHeads
  <2>. QED BY <2>1 DEF QueueSays
<1>. HIDE DEF w, rows
<1>5. ASSUME NEW v \in M!Velocity(q, merged) PROVE v.merged.value = Cardinality(rows)
  BY <1>2, <1>3, HeadIs
<1>. QED BY <1>1, <1>2, <1>3, <1>4, <1>5 DEF MergesAgree

\* A day on which someone was seen in the queue has a merge that did not go around it.
LEMMA SomeoneIsSeen ==
  ASSUME NEW rows, IsFiniteSet(rows), M!AdminBypass(rows).bypasses > 0
  PROVE  M!AdminBypass(rows).bypasses < M!AdminBypass(rows).merges
<1>. DEFINE seen == {r \in rows : r.enqueued # 0}
            watched == {r \in rows : \E s \in seen : s.at \div Day = r.at \div Day}
<1>1. M!AdminBypass(rows).merges = Cardinality(watched) /\ M!AdminBypass(rows).bypasses = Cardinality(watched \ seen)
  BY SameCardinality DEF M!AdminBypass
<1>2. watched \subseteq rows /\ seen \subseteq rows
  OBVIOUS
<1>3. IsFiniteSet(watched)
  <2>. HIDE DEF watched
  <2>. QED BY <1>2, FS_Subset
<1>4. watched \ seen # {}
  <2>. HIDE DEF watched, seen
  <2>. QED BY <1>1, FS_EmptySet
<1>5. watched \ seen # watched
  <2>1. PICK r : r \in watched
    BY <1>4
  <2>2. PICK s \in seen : s.at \div Day = r.at \div Day
    BY <2>1
  <2>3. s \in watched
    BY <1>2
  <2>. QED BY <2>2, <2>3
<1>. HIDE DEF watched, seen
<1>6. watched \ seen \in SUBSET watched
  OBVIOUS
<1>7. Cardinality(watched \ seen) <= Cardinality(watched) /\ Cardinality(watched \ seen) # Cardinality(watched)
  BY <1>3, <1>5, <1>6, FS_Subset
<1>8. Cardinality(watched) \in Nat /\ Cardinality(watched \ seen) \in Nat
  BY <1>3, <1>6, FS_Subset, FS_CardinalityType
<1>. QED BY <1>1, <1>7, <1>8

\* A failed group run is required or noise, and none is both.
EfficiencyAgrees(q, merged, e) ==
  /\ e.queueMerges = Cardinality(CurrentRows(q, merged))
  /\ e.requiredFailed + e.advisoryNoise = e.runFailed
  /\ e.adminBypass.bypasses > 0 => e.adminBypass.bypasses < e.adminBypass.merges

\* A finite set is as large as a part of it and the rest.
LEMMA FailuresAreSplit ==
  ASSUME NEW failed, IsFiniteSet(failed), NEW gated, gated \subseteq failed
  PROVE  M!Cardinality(gated) + M!Cardinality(failed \ gated) = M!Cardinality(failed)
<1>1. IsFiniteSet(gated) /\ IsFiniteSet(failed \ gated)
  BY FS_Subset
<1>2. (gated \cup (failed \ gated)) = failed /\ gated \cap (failed \ gated) = {}
  OBVIOUS
<1>3. Cardinality(failed) = Cardinality(gated) + Cardinality(failed \ gated) - 0
  BY <1>1, <1>2, FS_Union, FS_EmptySet
<1>4. Cardinality(gated) \in Nat /\ Cardinality(failed \ gated) \in Nat
  BY <1>1, FS_CardinalityType
<1>. QED BY <1>3, <1>4, SameCardinality

\* The efficiency section counts the same merges, and splits the failed runs.
LEMMA EfficiencyIs ==
  ASSUME NEW q, IsFullQuery(q), NEW db, IsHistory(db), NEW merged, IsMerges(merged), NEW required,
         NEW e \in M!QueueEfficiency(q, db, merged, required)
  PROVE  EfficiencyAgrees(q, merged, e)
<1>. DEFINE checks  == M!MergeGroupChecksSince(db, M!From(q))
            merges  == M!SplitWindow(q, merged).cur
            failing == {r \in checks : r.conclusion \in M!Failing}
            failed  == {<<r.sha, r.run>> : r \in failing}
            gated   == {<<r.sha, r.run>> : r \in {f \in failing : f.name \in required}}
<1>1. /\ e.queueMerges = M!Cardinality(merges) /\ e.runFailed = M!Cardinality(failed)
      /\ e.requiredFailed = M!Cardinality(gated) /\ e.advisoryNoise = M!Cardinality(failed \ gated)
      /\ e.adminBypass = M!AdminBypass(merges)
  BY DEF M!QueueEfficiency
<1>2. failing \subseteq db.durations
  BY DEF M!MergeGroupChecksSince, M!GroupChecks, M!Since
<1>3. IsFiniteSet(failing)
  <2>. HIDE DEF failing
  <2>. QED BY <1>2, FS_Subset DEF IsHistory
<1>4. gated \subseteq failed
  OBVIOUS
<1>5. IsFiniteSet(failed)
  <2>. DEFINE f == [r \in failing |-> <<r.sha, r.run>>]
  <2>. HIDE DEF failing
  <2>1. failed = {f[r] : r \in failing}
    OBVIOUS
  <2>. HIDE DEF failed, f
  <2>. QED BY <1>3, <2>1, ImageIs
<1>6. IsFiniteSet(merges) /\ merges = CurrentRows(q, merged)
  BY MergesAre
<1>. HIDE DEF merges, failed, gated, failing, checks
<1>7. e.requiredFailed + e.advisoryNoise = e.runFailed
  BY <1>1, <1>4, <1>5, FailuresAreSplit
<1>8. e.queueMerges = Cardinality(CurrentRows(q, merged))
  BY <1>1, <1>6, SameCardinality
<1>9. e.adminBypass.bypasses > 0 => e.adminBypass.bypasses < e.adminBypass.merges
  BY <1>1, <1>6, SomeoneIsSeen
<1>. QED BY <1>7, <1>8, <1>9 DEF EfficiencyAgrees

\* A sample per pair of times that runs forwards: no more than the rows they are of.
LEMMA SamplesAre ==
  ASSUME NEW rows, IsFiniteSet(rows), NEW from, NEW to, NEW D, IsFiniteSet(D),
         \A m \in rows : 0 \notin {m[from], m[to]} => m \in D
  PROVE  M!Cardinality(M!PairSecs(rows, from, to)) <= Cardinality(D)
<1>. DEFINE P == {m \in rows : 0 \notin {m[from], m[to]} /\ m[from] <= m[to]}
            f == [r \in P |-> M!Sample(r, r.at, r[to] - r[from])]
            T == M!PairSecs(rows, from, to)
<1>1. T = {f[r] : r \in P}
  <2>1. T = {M!Sample(r, r.at, r[to] - r[from]) : r \in P}
    BY DEF M!PairSecs
  <2>. HIDE DEF T, P
  <2>. QED BY <2>1
<1>2. P \subseteq D
  OBVIOUS
<1>. HIDE DEF P, f, T
<1>3. IsFiniteSet(P) /\ Cardinality(P) <= Cardinality(D)
  BY <1>2, FS_Subset
<1>4. Cardinality(T) <= Cardinality(P) /\ IsFiniteSet(T)
  BY <1>1, <1>3, ImageIs
<1>5. Cardinality(T) \in Nat /\ Cardinality(P) \in Nat /\ Cardinality(D) \in Nat
  BY <1>3, <1>4, FS_CardinalityType
<1>. QED BY <1>3, <1>4, <1>5, SameCardinality DEF T

\* A merge of the window that was deployed was deployed within it.
LEMMA DeploymentsAreCounted ==
  ASSUME NEW q, IsFullQuery(q), NEW merged, IsMerges(merged), NEW l \in M!LeadTime(q, merged)
  PROVE  l.totalN <= l.prodDeploys /\ l.segments.awaitingProd.n <= l.prodDeploys
<1>. DEFINE F == M!From(q)
            rows == M!Since(merged, F)
            deployed == {r \in merged : r.prod # 0 /\ r.prod >= F}
<1>1. /\ l.totalN = M!Cardinality(M!PairSecs(rows, "created", "prod"))
      /\ l.prodDeploys = M!Cardinality(deployed)
      /\ l.segments.awaitingProd.n = M!Cardinality(M!PairSecs(rows, "qa", "prod"))
  BY DEF M!LeadTime, M!LeadTimeSegments
<1>2. rows \subseteq merged /\ deployed \subseteq merged
  BY DEF M!Since
<1>3. IsFiniteSet(rows) /\ IsFiniteSet(deployed)
  <2>. HIDE DEF rows, deployed
  <2>. QED BY <1>2, FS_Subset DEF IsMerges
<1>4. \A m \in rows : m.prod # 0 => m \in deployed
  <2>1. \A m \in rows : m \in merged /\ m.at >= F
    BY DEF M!Since
  <2>2. \A m \in merged : m.at \in Int /\ m.prod \in Int /\ (m.prod # 0 => m.at <= m.prod)
    BY DEF IsMerges, Dated
  <2>3. F \in Int
    BY EarlierIs DEF IsWindow
  <2>. HIDE DEF rows, F
  <2>. QED BY <2>1, <2>2, <2>3
<1>. HIDE DEF rows, deployed
<1>5. \A m \in rows : m["prod"] # 0 => m \in deployed
  BY <1>4
<1>6. M!Cardinality(M!PairSecs(rows, "created", "prod")) <= Cardinality(deployed)
  BY <1>3, <1>5, SamplesAre
<1>7. M!Cardinality(M!PairSecs(rows, "qa", "prod")) <= Cardinality(deployed)
  BY <1>3, <1>5, SamplesAre
<1>. QED BY <1>1, <1>6, <1>7, SameCardinality

(***************************************************************************)
(* Ejects by check and by reason.                                          *)
(***************************************************************************)
\* What a killer of trains is known by: its rows, by name and by reason.
EjectedBy(db, q, n) == {r \in M!GroupFailuresSince(db, M!From(q)) : r.name = n}
ReasonsOf(rows) ==
  [x \in M!EjectReasons |-> M!Cardinality({r \in rows : M!Rollup!EjectReason(r.conclusion) = x})]
IsKiller(q, db, k) ==
  \E n \in {r.name : r \in M!GroupFailuresSince(db, M!From(q))} :
    k.name = n /\ k.ejects = M!Cardinality(EjectedBy(db, q, n)) /\ k.reasons = ReasonsOf(EjectedBy(db, q, n))

\* Every conclusion has one of the four reasons.
LEMMA EjectReasonIs == ASSUME NEW c PROVE M!Rollup!EjectReason(c) \in M!EjectReasons
BY Zenon DEF M!Rollup!EjectReason, M!EjectReasons

\* The reasons of a set of ejects are as many as the ejects.
LEMMA ReasonsAreCounted == ASSUME NEW rows, IsFiniteSet(rows) PROVE TotalOf(ReasonsOf(rows)) = Cardinality(rows)
<1>. DEFINE key == [r \in rows |-> M!Rollup!EjectReason(r.conclusion)]
            counts == ReasonsOf(rows)
            K == M!EjectReasons
<1>1. \A r \in rows : key[r] \in K
  BY EjectReasonIs
<1>2. IsFiniteSet(K)
  <2>1. IsFiniteSet({"timeout"}) /\ IsFiniteSet({"test-fail"}) /\ IsFiniteSet({"infra"}) /\ IsFiniteSet({"unknown"})
    BY FS_Singleton
  <2>2. IsFiniteSet({"timeout"} \cup {"test-fail"}) /\ IsFiniteSet({"infra"} \cup {"unknown"})
    BY <2>1, FS_Union
  <2>3. IsFiniteSet(({"timeout"} \cup {"test-fail"}) \cup ({"infra"} \cup {"unknown"}))
    BY <2>2, FS_Union
  <2>4. K = ({"timeout"} \cup {"test-fail"}) \cup ({"infra"} \cup {"unknown"})
    BY DEF M!EjectReasons
  <2>. HIDE DEF K
  <2>. QED BY <2>3, <2>4
<1>3. counts = [x \in K |-> M!Cardinality({r \in rows : M!Rollup!EjectReason(r.conclusion) = x})]
  BY DEF ReasonsOf
<1>4. ASSUME NEW x \in K PROVE counts[x] = Cardinality(Part(rows, key, x))
  <2>1. {r \in rows : M!Rollup!EjectReason(r.conclusion) = x} = Part(rows, key, x)
    BY DEF Part
  <2>2. counts[x] = M!Cardinality({r \in rows : M!Rollup!EjectReason(r.conclusion) = x})
    <3>. HIDE DEF counts
    <3>. QED BY <1>3
  <2>. QED BY <2>1, <2>2, SameCardinality
<1>5. DOMAIN counts = K
  BY <1>3
<1>. HIDE DEF key, counts, K
<1>. QED BY <1>1, <1>2, <1>4, <1>5, PartsCount DEF counts

KillersSay(q, db, killers) ==
  /\ TotalOf([k \in killers |-> k.ejects]) = Cardinality(M!GroupFailuresSince(db, M!From(q)))
  /\ \A k \in killers : TotalOf(k.reasons) = k.ejects

\* Every eject is one of the check that caused it, and has one reason.
LEMMA KillersAreCounted ==
  ASSUME NEW q, NEW db, IsFiniteSet(db.failures), NEW batch
  PROVE  KillersSay(q, db, M!TrainKillers(q, db, batch))
<1>. DEFINE rows == M!GroupFailuresSince(db, M!From(q))
            of(n) == {r \in rows : r.name = n}
            names == {r.name : r \in rows}
            killers == M!TrainKillers(q, db, batch)
            rates(n) == {(1000 * s.flakes) \div s.runs : s \in {t \in M!Trusted(db, M!From(q)) : t.name = n}}
            killer(n) == [name |-> n, ejects |-> M!Cardinality(of(n)), reasons |-> ReasonsOf(of(n)),
                          lead |-> M!Rollup!DominantReason(ReasonsOf(of(n))),
                          cost |-> IF db.groupRuns = {} THEN {}
                                   ELSE {M!Cardinality(of(n)) * M!MedianGroupRun(db) * batch},
                          flakeRate |-> IF rates(n) = {} THEN {} ELSE {M!Max(rates(n))}]
<1>1. killers = {killer(n) : n \in names}
  BY Zenon DEF M!TrainKillers, ReasonsOf
<1>2. \A n : killer(n).name = n /\ killer(n).ejects = M!Cardinality(of(n)) /\ killer(n).reasons = ReasonsOf(of(n))
  OBVIOUS
<1>3. IsFiniteSet(rows)
  <2>1. rows \subseteq db.failures
    BY DEF M!GroupFailuresSince, M!Since
  <2>. HIDE DEF rows
  <2>. QED BY <2>1, FS_Subset
<1>4. \A n : of(n) \subseteq rows
  OBVIOUS
<1>. HIDE DEF killer, killers
<1>5. \A n : IsFiniteSet(of(n))
  <2>. TAKE n
  <2>1. of(n) \subseteq rows
    BY <1>4
  <2>. HIDE DEF of, rows
  <2>. QED BY <1>3, <2>1, FS_Subset
<1>6. \A k \in killers : TotalOf(k.reasons) = k.ejects
  <2>. SUFFICES ASSUME NEW k \in killers PROVE TotalOf(k.reasons) = k.ejects
    OBVIOUS
  <2>1. PICK n \in names : k = killer(n)
    BY <1>1
  <2>2. IsFiniteSet(of(n))
    BY <1>5
  <2>3. k.reasons = ReasonsOf(of(n)) /\ k.ejects = M!Cardinality(of(n))
    BY <1>2, <2>1
  <2>. HIDE DEF of
  <2>. QED BY <2>2, <2>3, ReasonsAreCounted, SameCardinality
<1>7. TotalOf([k \in killers |-> k.ejects]) = Cardinality(rows)
  <2>. DEFINE key == [r \in rows |-> killer(r.name)]
              counts == [k \in killers |-> k.ejects]
  <2>1. \A r \in rows : key[r] \in killers
    BY <1>1
  <2>2. killers = {key[r] : r \in rows}
    BY <1>1
  <2>3. ASSUME NEW k \in killers PROVE counts[k] = Cardinality(Part(rows, key, k))
    <3>1. PICK n \in names : k = killer(n)
      BY <1>1
    <3>2. \A r \in rows : key[r] = k <=> r.name = n
      BY <1>2, <3>1
    <3>3. Part(rows, key, k) = of(n)
      BY <3>2 DEF Part
    <3>4. counts[k] = M!Cardinality(of(n))
      BY <1>2, <3>1
    <3>. QED BY <3>3, <3>4, SameCardinality
  <2>4. DOMAIN counts = killers
    OBVIOUS
  <2>. HIDE DEF key, counts, rows
  <2>5. IsFiniteSet(killers)
    BY <1>3, <2>2, ImageIs
  <2>6. TotalOf(counts) = Cardinality(rows)
    BY <1>3, <2>1, <2>3, <2>4, <2>5, PartsCount
  <2>. QED BY <2>6 DEF counts
<1>. QED BY <1>6, <1>7 DEF KillersSay, killers

(***************************************************************************)
(* Waits by pool and by event.                                             *)
(***************************************************************************)
CountedIn(series) == TotalOf([b \in DOMAIN series |-> series[b].n])
BegunSince(q, rows) == {r \in rows : r.started >= M!From(q)}
HaveBegun(rows) == IsFiniteSet(rows) /\ \A r \in rows : r.started \in Int

\* The series of waits adds up to the waits that began within the window.
LEMMA WaitsAreCounted ==
  ASSUME NEW q, IsFullQuery(q), NEW rows, HaveBegun(rows)
  PROVE  CountedIn(M!WaitFigures(q, rows).buckets) = Cardinality(BegunSince(q, rows))
<1>. DEFINE samples == {M!Sample(r, r.started, r.wait) : r \in rows}
            cur == M!SplitWindow(q, samples).cur
            series == M!BucketPercentiles(q, cur)
            begun == BegunSince(q, rows)
            f == [r \in begun |-> M!Sample(r, r.started, r.wait)]
<1>1. M!WaitFigures(q, rows).buckets = series
  BY DEF M!WaitFigures
<1>2. \A r : M!Sample(r, r.started, r.wait).at = r.started /\ M!Sample(r, r.started, r.wait).id = r
  BY DEF M!Sample
<1>3. Dated(samples)
  BY <1>2 DEF Dated, HaveBegun
<1>4. cur = CurrentRows(q, samples)
  <2>. HIDE DEF samples
  <2>. QED BY <1>3, EarlierIs, SplitIs
<1>5. cur = {f[r] : r \in begun}
  <2>1. CurrentRows(q, samples) = {M!Sample(r, r.started, r.wait) : r \in begun}
    BY <1>2 DEF CurrentRows, BegunSince
  <2>2. \A r \in begun : f[r] = M!Sample(r, r.started, r.wait)
    OBVIOUS
  <2>. HIDE DEF f, begun, cur, samples
  <2>. QED BY <1>4, <2>1, <2>2
<1>6. \A r, s \in begun : f[r] = f[s] => r = s
  BY <1>2
<1>7. IsFiniteSet(begun)
  <2>1. begun \subseteq rows
    BY DEF BegunSince
  <2>. HIDE DEF begun
  <2>. QED BY <2>1, FS_Subset DEF HaveBegun
<1>8. series = [b \in {M!BucketOf(q, s.at) : s \in cur} |->
                 [p50 |-> M!Percent(M!InBucket(q, cur, b), 50), p90 |-> M!Percent(M!InBucket(q, cur, b), 90),
                  n |-> M!Cardinality(M!InBucket(q, cur, b))]]
  BY DEF M!BucketPercentiles
<1>. HIDE DEF cur, f, begun, samples
<1>9. IsFiniteSet(cur) /\ Cardinality(cur) = Cardinality(begun)
  BY <1>5, <1>6, <1>7, ImageIs
<1>10. [b \in DOMAIN series |-> series[b].n] = M!BucketCounts(q, cur)
  <2>. HIDE DEF series
  <2>1. \A b \in DOMAIN series : series[b].n = M!Cardinality({s \in cur : M!BucketOf(q, s.at) = b})
    BY <1>8 DEF M!InBucket
  <2>2. DOMAIN series = {M!BucketOf(q, s.at) : s \in cur}
    BY <1>8
  <2>. QED BY <2>1, <2>2 DEF M!BucketCounts
<1>. QED BY <1>1, <1>9, <1>10, BucketsCount DEF CountedIn, begun

WaitsAgree(q, db) ==
  LET pools  == M!RunnerPools(q, db, <<>>)
      events == M!RunnerWaits(q, db)
  IN TotalOf([p \in DOMAIN pools |-> CountedIn(pools[p].waits.buckets)])
       <= TotalOf([e \in DOMAIN events |-> CountedIn(events[e].buckets)])

\* A wait of a pool is also a wait of its event.
LEMMA WaitsAreShared == ASSUME NEW q, IsFullQuery(q), NEW db, HaveBegun(db.runnerWaits) PROVE WaitsAgree(q, db)
<1>. DEFINE F == M!From(q)
            W == db.runnerWaits
            S == M!RunnerWaitsSince(db, F)
            P == M!PoolWaitsSince(db, F)
            pools == M!RunnerPools(q, db, <<>>)
            events == M!RunnerWaits(q, db)
            byPool == [r \in P |-> r.pool]
            byEvent == [r \in S |-> r.event]
            perPool == [p \in DOMAIN pools |-> CountedIn(pools[p].waits.buckets)]
            perEvent == [e \in DOMAIN events |-> CountedIn(events[e].buckets)]
<1>1. S = {r \in W : r.started >= F} /\ P = {r \in W : r.started >= F /\ r.pool # M!None}
  BY DEF M!RunnerWaitsSince, M!PoolWaitsSince
<1>2. IsFiniteSet(S) /\ P \subseteq S /\ IsFiniteSet(P)
  <2>. HIDE DEF S, P, W
  <2>1. S \subseteq W /\ P \subseteq S
    BY <1>1
  <2>. QED BY <2>1, FS_Subset DEF HaveBegun, W
<1>3. ASSUME NEW T, T \subseteq W PROVE HaveBegun(T)
  BY <1>3, FS_Subset DEF HaveBegun
<1>4. /\ DOMAIN pools = {r.pool : r \in P}
      /\ \A p \in DOMAIN pools : pools[p].waits.buckets = M!WaitFigures(q, {r \in W : r.pool = p}).buckets
  BY DEF M!RunnerPools
<1>5. /\ DOMAIN events = {r.event : r \in S}
      /\ \A e \in DOMAIN events : events[e].buckets = M!WaitFigures(q, {r \in W : r.event = e}).buckets
  BY DEF M!RunnerWaits
<1>. HIDE DEF pools, events, S, P
<1>6. ASSUME NEW p \in DOMAIN pools PROVE perPool[p] = Cardinality(Part(P, byPool, p))
  <2>. DEFINE T == {r \in W : r.pool = p}
  <2>1. T \subseteq W
    OBVIOUS
  <2>2. BegunSince(q, T) = Part(P, byPool, p)
    BY <1>1, <1>4 DEF BegunSince, Part
  <2>3. perPool[p] = CountedIn(M!WaitFigures(q, T).buckets)
    BY <1>4
  <2>. HIDE DEF T, perPool, byPool, W
  <2>4. HaveBegun(T)
    BY <1>3, <2>1
  <2>. QED BY <2>2, <2>3, <2>4, WaitsAreCounted
<1>7. ASSUME NEW e \in DOMAIN events PROVE perEvent[e] = Cardinality(Part(S, byEvent, e))
  <2>. DEFINE T == {r \in W : r.event = e}
  <2>1. T \subseteq W
    OBVIOUS
  <2>2. BegunSince(q, T) = Part(S, byEvent, e)
    BY <1>1, <1>5 DEF BegunSince, Part
  <2>3. perEvent[e] = CountedIn(M!WaitFigures(q, T).buckets)
    BY <1>5
  <2>. HIDE DEF T, perEvent, byEvent, W
  <2>4. HaveBegun(T)
    BY <1>3, <2>1
  <2>. QED BY <2>2, <2>3, <2>4, WaitsAreCounted
<1>8. /\ \A r \in P : byPool[r] \in DOMAIN pools
      /\ DOMAIN pools = {byPool[r] : r \in P} /\ DOMAIN perPool = DOMAIN pools
  BY <1>4
<1>9. /\ \A r \in S : byEvent[r] \in DOMAIN events
      /\ DOMAIN events = {byEvent[r] : r \in S} /\ DOMAIN perEvent = DOMAIN events
  BY <1>5
<1>. HIDE DEF byPool, byEvent, perPool, perEvent
<1>10. IsFiniteSet(DOMAIN pools) /\ IsFiniteSet(DOMAIN events)
  BY <1>2, <1>8, <1>9, ImageIs
<1>11. TotalOf(perPool) = Cardinality(P)
  BY <1>2, <1>6, <1>8, <1>10, PartsCount
<1>12. TotalOf(perEvent) = Cardinality(S)
  BY <1>2, <1>7, <1>9, <1>10, PartsCount
<1>13. Cardinality(P) <= Cardinality(S)
  BY <1>2, FS_Subset
<1>. QED BY <1>11, <1>12, <1>13 DEF WaitsAgree, perPool, perEvent, pools, events

(***************************************************************************)
(* The board's history.                                                    *)
(***************************************************************************)
LEMMA LaterBuckets ==
  ASSUME NEW q, IsQuery(q), NEW a \in Nat, NEW x \in Nat, a <= x
  PROVE  M!BucketOf(q, a) \in Nat /\ M!BucketOf(q, x) \in Nat /\ M!BucketOf(q, a) <= M!BucketOf(q, x)
<1>1. M!Step(q) \in Nat \ {0}
  BY QueryIs
<1>2. M!BucketOf(q, a) \in Nat /\ M!BucketOf(q, x) \in Nat
  BY <1>1 DEF M!BucketOf
<1>3. CASE a = x
  BY <1>2, <1>3
<1>4. CASE a # x
  <2>1. a < x + 1 /\ x + 1 \in Nat /\ a \in a .. (x + 1) - 1 /\ (x + 1) - 1 = x
    OBVIOUS
  <2>2. M!BucketOf(q, a) \in M!BucketOf(q, a) .. M!BucketOf(q, (x + 1) - 1)
    BY <2>1, BucketsBetween
  <2>. QED BY <1>2, <2>1, <2>2
<1>. QED BY <1>3, <1>4

\* The series of the board's history ends with the last sample that was recorded.
TrendsEnd(q, db) ==
  LET trends == M!Trends(q, db)
  IN DOMAIN trends # {} => trends[Max(DOMAIN trends)] = Last(db.states).counts

\* The last bucket of the board's history holds the last sample.
LEMMA TrendsReachTheEnd == ASSUME NEW q, IsFullQuery(q), NEW db, IsHistory(db) PROVE TrendsEnd(q, db)
<1>. DEFINE F == M!From(q)
            states == db.states
            n == Len(states)
            D == {j \in DOMAIN states : states[j].at >= F}
            rows == [i \in D |-> states[i]]
            bucket(i) == M!BucketOf(q, states[i].at)
            trends == M!Trends(q, db)
            B == {bucket(i) : i \in D}
            I == {i \in D : bucket(i) = bucket(n)}
<1>. SUFFICES ASSUME DOMAIN trends # {} PROVE trends[Max(DOMAIN trends)] = Last(states).counts
  BY DEF TrendsEnd
<1>1. M!StateSamplesSince(db, F) = rows
  BY DEF M!StateSamplesSince, M!RowsSince
<1>2. trends = [b \in {M!BucketOf(q, rows[i].at) : i \in D} |->
                  rows[M!Max({i \in D : M!BucketOf(q, rows[i].at) = b})].counts]
  BY <1>1 DEF M!Trends
<1>3. {M!BucketOf(q, rows[i].at) : i \in D} = B
      /\ \A b : {i \in D : M!BucketOf(q, rows[i].at) = b} = {i \in D : bucket(i) = b}
  <2>1. \A i \in D : M!BucketOf(q, rows[i].at) = bucket(i)
    OBVIOUS
  <2>. HIDE DEF rows, bucket, D
  <2>. QED BY <2>1
<1>4. DOMAIN trends = B /\ \A b \in B : trends[b] = rows[M!Max({i \in D : bucket(i) = b})].counts
  <2>. HIDE DEF trends, rows, B, D, bucket
  <2>. QED BY <1>2, <1>3
<1>5. n \in Nat /\ DOMAIN states = 1 .. n /\ \A i \in DOMAIN states : states[i].at \in Nat
  <2>. DEFINE T == [at : Nat, counts : {states[i].counts : i \in DOMAIN states}]
  <2>1. states \in Seq(T) /\ \A t \in T : t.at \in Nat
    BY DEF IsHistory
  <2>. HIDE DEF T, states
  <2>. QED BY <2>1
<1>6. \A i, j \in DOMAIN states : i <= j => states[i].at <= states[j].at
  BY DEF IsHistory
<1>7. PICK i \in D : TRUE
  BY <1>4
<1>8. F \in Nat
  BY QueryIs DEF IsFullQuery
<1>. HIDE DEF trends, rows, states, F
<1>9. n \in D /\ D \subseteq 1 .. n
  BY <1>5, <1>6, <1>7, <1>8
<1>10. \A j \in D : bucket(j) \in Nat /\ bucket(j) <= bucket(n)
  <2>. SUFFICES ASSUME NEW j \in D PROVE bucket(j) \in Nat /\ bucket(j) <= bucket(n)
    OBVIOUS
  <2>1. states[j].at \in Nat /\ states[n].at \in Nat /\ states[j].at <= states[n].at
    BY <1>5, <1>6, <1>9
  <2>. QED BY <2>1, LaterBuckets DEF IsFullQuery
<1>11. Max(B) = bucket(n) /\ bucket(n) \in B
  <2>1. bucket(n) \in B /\ B \subseteq Int /\ \A b \in B : b <= bucket(n)
    BY <1>9, <1>10
  <2>. DEFINE m == bucket(n)
  <2>. HIDE DEF B, m
  <2>. QED BY <2>1, TopIs DEF m
<1>12. M!Max(I) = n
  <2>1. n \in I /\ I \subseteq Int /\ \A j \in I : j <= n
    BY <1>5, <1>9
  <2>. HIDE DEF I, n
  <2>. QED BY <2>1, TopIs, SameMax
<1>13. trends[bucket(n)] = rows[n].counts
  <2>. DEFINE m == bucket(n)
  <2>1. m \in B /\ {j \in D : bucket(j) = m} = I
    BY <1>11
  <2>. HIDE DEF m, bucket, B, D, I
  <2>2. trends[m] = rows[n].counts
    BY <1>4, <1>12, <2>1
  <2>. QED BY <2>2 DEF m
<1>14. rows[n] = states[n] /\ Last(states) = states[n]
  BY <1>9 DEF rows, Last
<1>. QED BY <1>4, <1>11, <1>13, <1>14 DEF trends

(***************************************************************************)
(* The sections agree.                                                     *)
(***************************************************************************)
\* Under a query the client can send, whatever was recorded: the sections of the tab
\* count one window alike.
THEOREM SectionsCountAlike ==
  ASSUME NEW q, IsFullQuery(q), NEW db, IsHistory(db), NEW merged, IsMerges(merged)
  PROVE  SectionsAgree(q, db, merged)
<1>. DEFINE killers == M!TrainKillers(q, db, 2)
            efficiency == M!QueueEfficiency(q, db, merged, {"a"})
            velocity == M!Velocity(q, merged)
            queue == M!Queue(q, db, merged)
            leads == M!LeadTime(q, merged)
<1>1. MergesAgree(q, db, merged)
  BY MergesAreCounted
<1>2. \A e \in efficiency : EfficiencyAgrees(q, merged, e)
  BY EfficiencyIs
<1>3. \A l \in leads : l.totalN <= l.prodDeploys /\ l.segments.awaitingProd.n <= l.prodDeploys
  BY DeploymentsAreCounted
<1>4. KillersSay(q, db, killers)
  BY KillersAreCounted DEF IsHistory
<1>5. WaitsAgree(q, db)
  BY WaitsAreShared DEF IsHistory, HaveBegun
<1>6. TrendsEnd(q, db)
  BY TrendsReachTheEnd
<1>7. \A v \in velocity :
        /\ TotalOf(v.mergedPerBucket) = v.merged.value
        /\ \A s \in queue : s.merges = v.merged /\ s.mergesPerBucket = v.mergedPerBucket
        /\ \A e \in efficiency : e.queueMerges = v.merged.value
  BY <1>1, <1>2 DEF MergesAgree, EfficiencyAgrees
<1>8. \A e \in efficiency :
        /\ e.requiredFailed + e.advisoryNoise = e.runFailed
        /\ e.adminBypass.bypasses > 0 => e.adminBypass.bypasses < e.adminBypass.merges
  BY <1>2 DEF EfficiencyAgrees
<1>. QED BY Zenon, <1>3, <1>4, <1>5, <1>6, <1>7, <1>8
            DEF SectionsAgree, KillersSay, WaitsAgree, CountedIn, TrendsEnd

(***************************************************************************)
(* The histories are those that the recording calls make.                  *)
(***************************************************************************)
\* A history of jobs as the store makes it: rows of finitely many, with times.
IsStored(db) ==
  /\ DOMAIN db = DOMAIN M!EmptyDb
  /\ IsFleet(db) /\ IsHistory(db)
  /\ db.queueWaits \in Seq([secs : Int, at : Int])

\* The attempt, if it is one, has not completed at another time.
CompletesOnce(db, name, event, at, sha, attempt) ==
  \A r \in db.durations :
    <<r.name, r.event, r.sha, r.attempt>> = <<name, event, sha, attempt>> /\ attempt # 0 => r.at = at


\* INSERT OR IGNORE adds the row unless one has its key.
LEMMA InsertedIs ==
  ASSUME NEW db, NEW t \in DOMAIN db, NEW row
  PROVE  LET more == M!InsertOrIgnore(db, t, row)
         IN /\ DOMAIN more = DOMAIN db /\ \A u \in DOMAIN db : u # t => more[u] = db[u]
            /\ \/ more[t] = db[t]
               \/ more[t] = db[t] \cup {row} /\ \A r \in db[t] : M!UniqueKey(t, r) # M!UniqueKey(t, row)
BY DEF M!InsertOrIgnore, M!Clashes

\* Nothing recorded yet is such a history.
LEMMA EmptyIsStored == IsStored(M!EmptyDb)
<1>. DEFINE db == M!EmptyDb
<1>1. /\ db.durations = {} /\ db.runnerWaits = {} /\ db.failures = {} /\ db.groupRuns = {}
      /\ db.queueWaits = <<>> /\ db.states = <<>>
      /\ {"queueWaits", "groupRuns"} \subseteq DOMAIN db
  BY DEF M!EmptyDb
<1>. HIDE DEF db
<1>2. IsFleet(db)
  BY <1>1, FS_EmptySet DEF IsFleet, HasJobs
<1>3. IsHistory(db)
  BY <1>1, FS_EmptySet DEF IsHistory, Dated
<1>4. db.queueWaits \in Seq([secs : Int, at : Int])
  <2>. DEFINE T == [secs : Int, at : Int]
  <2>1. <<>> \in Seq(T)
    <3>. HIDE DEF T
    <3>. QED OBVIOUS
  <2>. QED BY <1>1, <2>1
<1>. QED BY <1>2, <1>3, <1>4 DEF IsStored, db

\* A table that is not of the tab, or stays as it is, may be anything.
LEMMA OthersAreKept ==
  ASSUME NEW db, NEW more, DOMAIN more = DOMAIN db, NEW t, \A u \in DOMAIN db : u # t => more[u] = db[u],
         IsStored(db)
  PROVE  /\ t # "durations" => more.durations = db.durations
         /\ t # "runnerWaits" => more.runnerWaits = db.runnerWaits
         /\ t # "failures" => more.failures = db.failures
         /\ t # "groupRuns" => more.groupRuns = db.groupRuns
         /\ t # "queueWaits" => more.queueWaits = db.queueWaits
         /\ t # "states" => more.states = db.states
BY DEF IsStored, M!EmptyDb

\* A completed check is recorded once.
LEMMA DurationsAreKept ==
  ASSUME NEW db, IsStored(db), NEW name, NEW event, NEW started \in Nat, NEW at \in Nat,
         NEW conclusion, NEW sha, NEW attempt, NEW run, CompletesOnce(db, name, event, at, sha, attempt)
  PROVE  IsStored(M!RecordCheckDuration(db, name, event, started, at, conclusion, sha, attempt, run))
<1>. DEFINE more == M!RecordCheckDuration(db, name, event, started, at, conclusion, sha, attempt, run)
            row == [name |-> name, event |-> event, secs |-> at - started, at |-> at,
                    conclusion |-> conclusion, sha |-> sha, attempt |-> attempt,
                    started |-> started, run |-> run]
            old == db.durations
            new == more.durations
<1>. SUFFICES ASSUME more # db PROVE IsStored(more)
  OBVIOUS
<1>1. more = M!InsertOrIgnore(db, "durations", row)
  BY DEF M!RecordCheckDuration
<1>2. "durations" \in DOMAIN db
  BY DEF IsStored, M!EmptyDb
<1>3. \A r : M!UniqueKey("durations", r) = <<r.name, r.event, r.at>>
  BY DEF M!UniqueKey
<1>4. /\ row.name = name /\ row.event = event /\ row.at = at /\ row.sha = sha /\ row.attempt = attempt
      /\ row.secs \in Int /\ row.started \in Int /\ row.at \in Int
  OBVIOUS
<1>. HIDE DEF more, row
<1>5. /\ DOMAIN more = DOMAIN db /\ \A u \in DOMAIN db : u # "durations" => more[u] = db[u]
      /\ \/ more["durations"] = db["durations"]
         \/ more["durations"] = db["durations"] \cup {row}
            /\ \A r \in db["durations"] : M!UniqueKey("durations", r) # M!UniqueKey("durations", row)
  BY <1>1, <1>2, InsertedIs
<1>6. new = old \/ (new = old \cup {row} /\ \A r \in old : <<r.name, r.event, r.at>> # <<name, event, at>>)
  BY <1>3, <1>4, <1>5
<1>7. IsFiniteSet(old) /\ IsFiniteSet(new)
  <2>1. IsFiniteSet(old)
    BY DEF IsStored, IsFleet, HasJobs
  <2>2. IsFiniteSet(old \cup {row})
    BY <2>1, FS_AddElement
  <2>. QED BY <1>6, <2>1, <2>2
<1>8. \A r \in old : r.at \in Int /\ r.secs \in Int /\ r.started \in Int
  BY DEF IsStored, IsFleet, HasJobs
<1>9. \A r, s \in old : <<r.name, r.event, r.at>> = <<s.name, s.event, s.at>> => r = s
  BY DEF IsStored, IsFleet
<1>10. \A r, s \in old :
         <<r.name, r.event, r.sha, r.attempt>> = <<s.name, s.event, s.sha, s.attempt>> /\ r.attempt # 0 => r.at = s.at
  BY DEF IsStored, IsFleet
<1>11. \A r \in old : <<r.name, r.event, r.sha, r.attempt>> = <<name, event, sha, attempt>> /\ attempt # 0 => r.at = at
  BY DEF CompletesOnce
<1>12. /\ more.runnerWaits = db.runnerWaits /\ more.failures = db.failures /\ more.groupRuns = db.groupRuns
       /\ more.queueWaits = db.queueWaits /\ more.states = db.states
  BY <1>5, OthersAreKept
<1>. HIDE DEF old, new
<1>13. \A r \in new : r.at \in Int /\ r.secs \in Int /\ r.started \in Int
  BY <1>4, <1>6, <1>8
<1>14. \A r, s \in new : <<r.name, r.event, r.at>> = <<s.name, s.event, s.at>> => r = s
  BY <1>4, <1>6, <1>9
<1>15. \A r, s \in new :
         <<r.name, r.event, r.sha, r.attempt>> = <<s.name, s.event, s.sha, s.attempt>> /\ r.attempt # 0 => r.at = s.at
  BY <1>4, <1>6, <1>10, <1>11
<1>16. IsFleet(more)
  BY <1>7, <1>13, <1>14, <1>15 DEF IsFleet, HasJobs, new
<1>17. IsHistory(more)
  BY <1>5, <1>7, <1>12 DEF IsHistory, IsStored, new
<1>18. more.queueWaits \in Seq([secs : Int, at : Int])
  BY <1>12 DEF IsStored
<1>. QED BY <1>5, <1>16, <1>17, <1>18 DEF IsStored, more

\* What else is inserted leaves the jobs alone.
LEMMA SameJobs ==
  ASSUME NEW db, IsStored(db), NEW more, DOMAIN more = DOMAIN db, more.durations = db.durations
  PROVE  IsFleet(more)
BY DEF IsStored, IsFleet, HasJobs

\* A wait for a runner, with the time at which it began.
LEMMA RunnerWaitsAreKept ==
  ASSUME NEW db, IsStored(db), NEW name, NEW event, NEW wait \in Int, NEW started \in Nat, NEW pool
  PROVE  IsStored(M!RecordRunnerWait(db, name, event, wait, started, pool))
<1>. DEFINE more == M!RecordRunnerWait(db, name, event, wait, started, pool)
            row == [name |-> name, event |-> event, wait |-> wait, started |-> started, pool |-> pool]
<1>. SUFFICES ASSUME more # db PROVE IsStored(more)
  OBVIOUS
<1>1. more = M!InsertOrIgnore(db, "runnerWaits", row) /\ row.started \in Int
  BY DEF M!RecordRunnerWait
<1>2. "runnerWaits" \in DOMAIN db
  BY DEF IsStored, M!EmptyDb
<1>. HIDE DEF more, row
<1>3. /\ DOMAIN more = DOMAIN db /\ \A u \in DOMAIN db : u # "runnerWaits" => more[u] = db[u]
      /\ more["runnerWaits"] \in {db["runnerWaits"], db["runnerWaits"] \cup {row}}
  BY <1>1, <1>2, InsertedIs
<1>4. /\ more.durations = db.durations /\ more.failures = db.failures /\ more.groupRuns = db.groupRuns
      /\ more.queueWaits = db.queueWaits /\ more.states = db.states
  BY <1>3, OthersAreKept
<1>5. IsFiniteSet(db.runnerWaits) /\ \A r \in db.runnerWaits : r.started \in Int
  BY DEF IsStored, IsHistory
<1>6. IsFiniteSet(more.runnerWaits) /\ \A r \in more.runnerWaits : r.started \in Int
  <2>1. IsFiniteSet(db.runnerWaits \cup {row})
    BY <1>5, FS_AddElement
  <2>. QED BY <1>1, <1>3, <1>5, <2>1
<1>7. IsHistory(more)
  BY <1>3, <1>4, <1>6 DEF IsHistory, IsStored
<1>. QED BY <1>3, <1>4, <1>7, SameJobs DEF IsStored, more

\* An eject, by the check that caused it.
LEMMA FailuresAreKept ==
  ASSUME NEW db, IsStored(db), NEW name, NEW sha, NEW at, NEW conclusion
  PROVE  IsStored(M!RecordGroupFailure(db, name, sha, at, conclusion))
<1>. DEFINE more == M!RecordGroupFailure(db, name, sha, at, conclusion)
            row == [name |-> name, sha |-> sha, at |-> at, conclusion |-> conclusion]
<1>. SUFFICES ASSUME more # db PROVE IsStored(more)
  OBVIOUS
<1>1. more = M!InsertOrIgnore(db, "failures", row)
  BY DEF M!RecordGroupFailure
<1>2. "failures" \in DOMAIN db
  BY DEF IsStored, M!EmptyDb
<1>. HIDE DEF more, row
<1>3. /\ DOMAIN more = DOMAIN db /\ \A u \in DOMAIN db : u # "failures" => more[u] = db[u]
      /\ more["failures"] \in {db["failures"], db["failures"] \cup {row}}
  BY <1>1, <1>2, InsertedIs
<1>4. /\ more.durations = db.durations /\ more.runnerWaits = db.runnerWaits /\ more.groupRuns = db.groupRuns
      /\ more.queueWaits = db.queueWaits /\ more.states = db.states
  BY <1>3, OthersAreKept
<1>5. IsFiniteSet(db.failures)
  BY DEF IsStored, IsHistory
<1>6. IsFiniteSet(more.failures)
  <2>1. IsFiniteSet(db.failures \cup {row})
    BY <1>5, FS_AddElement
  <2>. QED BY <1>3, <1>5, <2>1
<1>7. IsHistory(more)
  BY <1>3, <1>4, <1>6 DEF IsHistory, IsStored
<1>. QED BY <1>3, <1>4, <1>7, SameJobs DEF IsStored, more

\* A run of a group, with the time at which it ended.
LEMMA GroupRunsAreKept ==
  ASSUME NEW db, IsStored(db), NEW secs \in Int, NEW at \in Nat
  PROVE  IsStored(M!RecordGroupRun(db, secs, at))
<1>. DEFINE more == M!RecordGroupRun(db, secs, at)
            row == [secs |-> secs, at |-> at]
<1>. SUFFICES ASSUME more # db PROVE IsStored(more)
  OBVIOUS
<1>1. more = M!InsertOrIgnore(db, "groupRuns", row) /\ row.at \in Int
  BY DEF M!RecordGroupRun
<1>2. "groupRuns" \in DOMAIN db
  BY DEF IsStored, M!EmptyDb
<1>. HIDE DEF more, row
<1>3. /\ DOMAIN more = DOMAIN db /\ \A u \in DOMAIN db : u # "groupRuns" => more[u] = db[u]
      /\ more["groupRuns"] \in {db["groupRuns"], db["groupRuns"] \cup {row}}
  BY <1>1, <1>2, InsertedIs
<1>4. /\ more.durations = db.durations /\ more.runnerWaits = db.runnerWaits /\ more.failures = db.failures
      /\ more.queueWaits = db.queueWaits /\ more.states = db.states
  BY <1>3, OthersAreKept
<1>5. Dated(more.groupRuns)
  BY <1>1, <1>3 DEF Dated, IsStored, IsHistory
<1>6. IsHistory(more)
  BY <1>3, <1>4, <1>5 DEF IsHistory, IsStored
<1>. QED BY <1>3, <1>4, <1>6, SameJobs DEF IsStored, more

\* A wait in the queue, with the time at which it ended.
LEMMA QueueWaitsAreKept ==
  ASSUME NEW db, IsStored(db), NEW wait \in Int, NEW at \in Nat
  PROVE  IsStored(M!RecordQueueWait(db, wait, at))
<1>. DEFINE more == M!RecordQueueWait(db, wait, at)
            row == [secs |-> wait, at |-> at]
            T == [secs : Int, at : Int]
            w == db.queueWaits
<1>. SUFFICES ASSUME more # db PROVE IsStored(more)
  OBVIOUS
<1>1. more = [db EXCEPT !["queueWaits"] = Append(@, row)]
  BY DEF M!RecordQueueWait, M!AppendRow
<1>2. "queueWaits" \in DOMAIN db /\ w \in Seq(T) /\ row \in T
  BY DEF IsStored, M!EmptyDb
<1>3. /\ DOMAIN more = DOMAIN db /\ \A u \in DOMAIN db : u # "queueWaits" => more[u] = db[u]
      /\ more["queueWaits"] = Append(w, row)
  BY <1>1, <1>2
<1>. HIDE DEF more, row
<1>4. /\ more.durations = db.durations /\ more.runnerWaits = db.runnerWaits /\ more.failures = db.failures
      /\ more.groupRuns = db.groupRuns /\ more.states = db.states
  BY <1>3, OthersAreKept
<1>5. more.queueWaits \in Seq(T)
  <2>. HIDE DEF T, w
  <2>. QED BY <1>2, <1>3
<1>6. \A i \in DOMAIN more.queueWaits : more.queueWaits[i].at \in Int
  <2>. DEFINE v == more.queueWaits
  <2>1. v \in Seq(T)
    BY <1>5
  <2>2. \A x \in T : x.at \in Int
    OBVIOUS
  <2>. HIDE DEF v, T
  <2>3. \A i \in DOMAIN v : v[i] \in T
    BY <2>1
  <2>. QED BY <2>2, <2>3 DEF v
<1>7. IsHistory(more)
  BY <1>3, <1>4, <1>6 DEF IsHistory, IsStored
<1>. QED BY <1>3, <1>4, <1>5, <1>7, SameJobs DEF IsStored, more

\* Every call that records a job, a wait, an eject or a run of a group keeps the history
\* what the figures need it to be, as long as an attempt of a check completes once.
THEOREM RecordingKeepsHistories ==
  ASSUME NEW db, IsStored(db), NEW name, NEW event, NEW sha, NEW conclusion, NEW attempt, NEW run, NEW pool,
         NEW started \in Nat, NEW at \in Nat, NEW secs \in Int
  PROVE  /\ CompletesOnce(db, name, event, at, sha, attempt) =>
              IsStored(M!RecordCheckDuration(db, name, event, started, at, conclusion, sha, attempt, run))
         /\ IsStored(M!RecordRunnerWait(db, name, event, secs, started, pool))
         /\ IsStored(M!RecordGroupFailure(db, name, sha, at, conclusion))
         /\ IsStored(M!RecordGroupRun(db, secs, at)) /\ IsStored(M!RecordQueueWait(db, secs, at))
BY DurationsAreKept, RunnerWaitsAreKept, FailuresAreKept, GroupRunsAreKept, QueueWaitsAreKept

(***************************************************************************)
(* The figures.                                                            *)
(***************************************************************************)
\* An input of MCModels that the tab or the critical path can be asked about.
IsFigured ==
  /\ part = "path" => IsGraph(input)
  /\ part = "fleet" => IsQuery(input.query) /\ IsFleet(input.db)
  /\ part = "merges" => IsFullQuery(input.query) /\ IsHistory(input.db) /\ IsMerges(input.merged)

\* What the metrics tab draws is what it says it is, whatever the graph of jobs, the
\* query, the history, the pools and the merges (computeMetrics, projectInputs,
\* criticalPath).
THEOREM FiguresExact == ASSUME IsFigured PROVE FiguresAreExact
<1>1. SlackIsExact
  BY SlacksAreExact DEF IsFigured
<1>2. ASSUME part = "fleet"
      PROVE  PeaksAreExact(input.query, input.db, input.pools) /\ PlanFollowsTheTab(input.query, input.db, input.pools)
  <2>1. IsQuery(input.query) /\ IsFleet(input.db)
    BY <1>2 DEF IsFigured
  <2>. QED BY <2>1, PeaksExact, PlanFollows DEF IsFleet
<1>3. ASSUME part = "merges"
      PROVE  WindowsAbut(input.query, input.db, input.merged) /\ SectionsAgree(input.query, input.db, input.merged)
  <2>1. IsFullQuery(input.query) /\ IsHistory(input.db) /\ IsMerges(input.merged)
    BY <1>3 DEF IsFigured
  <2>. QED BY <2>1, WindowsMeet, SectionsCountAlike
<1>. QED BY <1>1, <1>2, <1>3 DEF FiguresAreExact
===============================================================================
