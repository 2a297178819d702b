------------------------- MODULE MCKeyValueCooldown -------------------------
(* Instances of KeyValueCooldown for TLC.                                    *)
EXTENDS KeyValueCooldown, TLC

CONSTANTS w1, w2, w3

ThreeWorkers == {w1, w2, w3}

\* The client of w3 lacks delete.
NotThird == Workers \ {w3}

Symmetry == Permutations(NotThird)
=============================================================================
