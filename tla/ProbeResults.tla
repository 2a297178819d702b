---------------------------- MODULE ProbeResults ----------------------------
(* What one probe (a cell of the max_output_tokens sweep run at a constant  *)
(* rate) may report.  Costs are counted in dispatched calls, the unit the   *)
(* script prices every call with whatever the answer (a 429 is not free).   *)
EXTENDS Integers

CONSTANTS
  Prewarm,   \* warm-up calls, sent before the ramp whatever the caps say
  Ramp,      \* calls of the constant-rate schedule after the warm-up
  Cap,       \* probe_max_usd in calls: no ramp call is created past it
  CallCap,   \* probe_max_calls: ramp calls created at most
  Required   \* records of the last window that the schedule must have intended

ASSUME ProbeAssumption ==
  /\ Prewarm \in Nat \ {0} /\ Ramp \in Nat \ {0}
  /\ Cap \in Nat /\ CallCap \in Nat \ {0} /\ Required \in 1..Ramp

\* Calls the dispatch loop creates when no event stops it: the schedule, cut
\* by the call cap and by the spend cap, on which the warm-up has drawn.
RampCalls == CHOOSE n \in 0..Ramp :
               /\ n <= CallCap /\ (n = 0 \/ Prewarm + n <= Cap)
               /\ n = Ramp \/ n = CallCap \/ Prewarm + n + 1 > Cap

\* How much of the ramp was measured: nothing, too little for the schedule
\* check of the last window, or enough.
Extent(n) == IF n = 0 THEN "empty" ELSE IF n < Required THEN "thin" ELSE "enough"

NoReport == [pre429 |-> FALSE, ramp429 |-> FALSE, ramp |-> "none", cost |-> 0]

\* Deviation: a probe under way does not look at the total budget.
ReportsIgnoringStop(stop, early) ==
  {r \in [pre429 : BOOLEAN, ramp429 : BOOLEAN,
          ramp : {"empty", "thin", "enough"}, cost : Prewarm..(Prewarm + Ramp)] :
     /\ r.ramp = "empty" <=> (early /\ r.pre429) \/ RampCalls = 0
     /\ r.cost = Prewarm + IF r.ramp = "empty" THEN 0 ELSE RampCalls
     /\ r.ramp429 => r.ramp # "empty"
     /\ r.ramp = "thin" /\ Required <= RampCalls => early /\ r.ramp429
     /\ r.ramp = "enough" => Required <= RampCalls}

(* The reports a probe can make, given the stop event of the total budget   *)
(* and whether the role of the probe stops at its first 429.                *)
Reports(stop, early) ==
  {r \in [pre429 : BOOLEAN, ramp429 : BOOLEAN,
          ramp : {"empty", "thin", "enough"}, cost : Prewarm..(Prewarm + Ramp)] :
     /\ r.ramp = "empty" <=> stop \/ (early /\ r.pre429) \/ RampCalls = 0
     /\ r.cost = Prewarm + IF r.ramp = "empty" THEN 0 ELSE RampCalls
     /\ r.ramp429 => r.ramp # "empty"
     /\ r.ramp = "thin" /\ Required <= RampCalls => early /\ r.ramp429
     /\ r.ramp = "enough" => Required <= RampCalls}
=============================================================================
