----------------------------- MODULE MCSampleRuns -----------------------------
(* Instances of SampleRuns for TLC.                                          *)
EXTENDS SampleRuns, TLC

CONSTANTS p1, p2, d1, i1, i2, i3, a, b, v1, v2

TwoRunners == {p1, p2}
OneDoctor == {d1}
ThreeIds == {i1, i2, i3}
TwoRows == {a, b}
TwoInputs == {v1, v2}

\* The second version of the input no longer has row b.
ShrinkingRows == [v \in Inputs |-> IF v = v2 THEN {a} ELSE Rows]

AnyPlace == Inside

Symmetry == Permutations(RunIds) \cup Permutations(Runners)
=============================================================================
