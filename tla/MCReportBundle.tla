---------------------------- MODULE MCReportBundle ----------------------------
(* Instances of ReportBundle for TLC.                                        *)
EXTENDS ReportBundle, TLC

Symmetry == Permutations(Writers) \cup Permutations(Reports)
==============================================================================
