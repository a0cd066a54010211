--------------------------- MODULE MCPollerIngest ---------------------------
(* Small instances of PollerIngest: all pull requests in repository ra, which *)
(* GitHub lists in the order of their names.                                  *)
EXTENDS PollerIngest, TLC
CONSTANTS p1, p2, p3, ra, rb
OneRepo == [p \in Prs |-> ra]
Listed  == [p \in Prs |-> CASE p = p1 -> 1 [] p = p2 -> 2 [] OTHER -> 3]

\* The life of one pull request: what a search finds is one page.
LifeNext == Next /\ sweep'.pc \notin {"nextOpen", "nextMerged"}
LifeSpec == Init /\ [][LifeNext]_vars /\ Fairness
=============================================================================
