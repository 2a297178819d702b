--------------------------- MODULE MCDualSpillover ---------------------------
(* Seven requests, enough for a 429, its follow-ups, a return and a second  *)
(* failure; gaps that leave the stay before the interval and the other way  *)
(* round; a ceiling that six answered requests pass.                        *)
EXTENDS DualSpillover

GapsDef  == {1, 3}
CostsDef == {2}
=============================================================================
