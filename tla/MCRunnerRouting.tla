--------------------------- MODULE MCRunnerRouting --------------------------
(* The controller alone, with the empty map (every job on spot) and maps that *)
(* shed some jobs to on-demand runners.                                       *)
EXTENDS RunnerRouting
CONSTANTS spot, shed, more
=============================================================================
