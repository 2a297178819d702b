--------------------------- MODULE MCWorkspaceLock ---------------------------
(* Instances of WorkspaceLock for TLC.                                       *)
EXTENDS WorkspaceLock

CONSTANTS r1, r2, d1, d2

TwoRuns == {r1, r2}
TwoDoctors == {d1, d2}

RemoteRun == [p \in Processes |-> IF p = r2 THEN "there" ELSE "here"]
=============================================================================
