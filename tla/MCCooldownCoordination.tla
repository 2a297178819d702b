----------------------- MODULE MCCooldownCoordination -----------------------
(* An instance of CooldownCoordination for TLC.  Slots are as wide as the   *)
(* jitter of the one wait that is slept on can take from one sleep and give *)
(* to another: neighbouring slots can resume together, others cannot.       *)
EXTENDS CooldownCoordination

CONSTANTS w1, w2, w3

ThreeWorkers == {w1, w2, w3}

OneKey == [w \in Workers |-> "dep"]

\* One call may be retried twice, the others once; one ends in its fallback.
Budgets == [w \in Workers |-> IF w = w1 THEN 3 ELSE 2]
Fallbacks == [w \in Workers |-> w = w2]

\* Two coordinators as documented and one that spreads its sleeps at random.
OneRandom ==
  {[w \in Workers |-> IF w = w3 THEN "uniform" ELSE "deterministic_slot"]}
=============================================================================
