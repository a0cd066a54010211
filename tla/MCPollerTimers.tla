--------------------------- MODULE MCPollerTimers ---------------------------
(* PollerTimers for TLC: the slots are interchangeable (safety runs only).  *)
EXTENDS PollerTimers, TLC

SlotSymmetry == Permutations(Slots)
=============================================================================
