------------------------- MODULE MCCalibrationSearch ------------------------
(* Two rates per phase and two bracket levels.  A probe costs one warm-up   *)
(* call and at most three more; the total budget can end in any of them.    *)
EXTENDS CalibrationSearch

TwoRatesA == <<4, 8>>
TwoRatesB == <<12, 16>>
=============================================================================
