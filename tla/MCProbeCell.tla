----------------------------- MODULE MCProbeCell ----------------------------
(* Two warm-up calls and a schedule of five of which the spend cap lets     *)
(* four through, on two permits: calls queue, a 429 can come from either    *)
(* phase, and fewer than three ramp records are too few.                    *)
EXTENDS ProbeCell
=============================================================================
