--------------------------- MODULE MCGlobalTimer ---------------------------
(* The shared timer for TLC: the runs of dsp are interchangeable. *)
EXTENDS GlobalTimer, TLC

Symmetry == Permutations(Procs)
=============================================================================
