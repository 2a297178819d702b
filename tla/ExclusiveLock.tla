----------------------------- MODULE ExclusiveLock ----------------------------
(* The workspace lock as the operations under it rely on it: it is taken    *)
(* only while it is free, by one process; it is given back by that process  *)
(* alone, which has left the workspace by then; and a lock whose holder     *)
(* died excludes everyone until it is cleared.                              *)
CONSTANT Processes

VARIABLES
  locked,   \* whether there is a lock
  holders,  \* the processes it belongs to; none when it is abandoned
  inside    \* the processes at work in the workspace

lockVars == <<locked, holders, inside>>

Init == locked = FALSE /\ holders = {} /\ inside = {}

Take(p) ==
  /\ ~locked
  /\ locked' = TRUE /\ holders' = {p} /\ inside' = {p}

Finish(p) ==
  /\ p \in inside
  /\ inside' = inside \ {p}
  /\ UNCHANGED <<locked, holders>>

GiveBack(p) ==
  /\ p \in holders
  /\ locked' = FALSE /\ holders' = holders \ {p} /\ inside' = inside \ {p}

Die(p) ==
  /\ p \in holders
  /\ holders' = holders \ {p} /\ inside' = inside \ {p}
  /\ UNCHANGED locked

Clear ==
  /\ locked /\ holders = {}
  /\ locked' = FALSE
  /\ UNCHANGED <<holders, inside>>

Next ==
  \/ \E p \in Processes : Take(p) \/ Finish(p) \/ GiveBack(p) \/ Die(p)
  \/ Clear

Spec == Init /\ [][Next]_lockVars
==============================================================================
