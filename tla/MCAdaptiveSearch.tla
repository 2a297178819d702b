-------------------------- MODULE MCAdaptiveSearch ---------------------------
(* One rate per phase and one bracket level, so that the first search ends  *)
(* in each of its outcomes; the adaptive stage expands past both ends of    *)
(* the grids, reaches its limits, and has a budget of four full probes.     *)
EXTENDS AdaptiveSearch

OneRateA == <<16>>
OneRateB == <<32>>
=============================================================================
