-------------------------- MODULE CalibrationSearch --------------------------
(* The two-phase search of scripts/measure_max_output_tokens_sweep.py for a *)
(* rate at which the largest cell is throttled and the smallest is not      *)
(* (_run_calibration_async).  Every rate is a point of a logarithmic scale, *)
(* so that a geometric midpoint is a midpoint.  One step is one awaited     *)
(* probe and everything decided from it before the next await.              *)
EXTENDS ProbeResults, Sequences

CONSTANTS
  GridA, GridB,    \* candidate_tps_grid and candidate_tps_grid_phase_b
  MaxDepth,        \* bracket_max_depth
  Threshold,       \* 0.85 x total_max_usd in calls
  EarlyLargest, EarlySmallest   \* early_stop_on_first_429 of each role

ASSUME SearchAssumption ==
  /\ GridA \in Seq(Nat \ {0}) /\ GridA # << >>
  /\ GridB \in Seq(Nat \ {0}) /\ GridB # << >>
  /\ \A i, j \in DOMAIN GridA : i < j => GridA[i] < GridA[j]
  /\ \A i, j \in DOMAIN GridB : i < j => GridB[i] < GridB[j]
  /\ MaxDepth \in Nat /\ Threshold \in Nat \ {0}
  /\ EarlyLargest \in BOOLEAN /\ EarlySmallest \in BOOLEAN

\* The code takes its midpoints in floating point; the unit of the scale is
\* fine enough to halve the gap between neighbouring rates MaxDepth times.
Halves(width) ==
  /\ \A d \in 1..MaxDepth : width[d - 1] >= 2 * width[d]
  /\ \A i \in DOMAIN GridA \ {1} : GridA[i] - GridA[i - 1] >= width[0]
  /\ \A i \in DOMAIN GridB \ {1} : GridB[i] - GridB[i - 1] >= width[0]

ASSUME ScaleAssumption ==
  \E width \in [0..MaxDepth -> 1..(GridA[Len(GridA)] + GridB[Len(GridB)])] : Halves(width)

VARIABLES
  phase,     \* "A", "B", "done" or "fault" (an exception left the search)
  idx,       \* position in the grid of the phase
  depth,     \* 0 on the grid, else the depth of the bracket
  role,      \* role of the next probe
  retry,     \* the next probe is the one bounded retry of its point
  low, high, \* last rate that passed (0: none) and the one that did not
  probes,    \* the eligible ones of the aggregates
  spent,     \* total_committed_usd in calls
  stop,      \* total_usd_stop_event
  outcome, selected,
  detail     \* why the search ended where it did

where == <<phase, idx, depth, role, retry, low, high>>
vars == <<where, probes, spent, stop, outcome, selected, detail>>

Roles    == {"largest", "control"}
Grid(ph) == IF ph = "A" THEN GridA ELSE GridB
Tps      == IF depth = 0 THEN Grid(phase)[idx] ELSE (low + high) \div 2
Early(r) == IF r = "largest" THEN EarlyLargest ELSE EarlySmallest

Init ==
  /\ phase = "A" /\ idx = 1 /\ depth = 0 /\ role = "largest" /\ retry = FALSE
  /\ low = 0 /\ high = 0
  /\ probes = {} /\ spent = 0 /\ stop = FALSE
  /\ outcome = "none" /\ selected = 0 /\ detail = "none"

----------------------------------------------------------------------------
(* A probe and what its records say of it: the warm-up hit the cache, the   *)
(* dispatcher fell behind, so far that the window before its last admission *)
(* lacks intended calls, nothing visible came back, the window held the     *)
(* rate, the ramp read its prefix from the cache.                           *)
Aggregates ==
  [halted \in BOOLEAN |-> [early \in BOOLEAN |->
     {a \in [report : Reports(halted, early), warm : BOOLEAN, slow : BOOLEAN,
             lags : BOOLEAN,
             mute : BOOLEAN, paced : BOOLEAN, cached : BOOLEAN] :
        /\ a.lags => a.slow /\ a.report.ramp = "enough"
        /\ a.paced => a.report.ramp = "enough"
        /\ a.mute \/ a.cached => a.report.ramp # "empty"}]]

Hit(a) == a.report.pre429 \/ a.report.ramp429

\* The admitted-pressure block: skipped, and passed, once a 429 was seen.
PressurePassed(a) == Hit(a) \/ a.paced

\* Deviation: the pressure gate is left out of the classification.
ClassifyWithoutPressure(a) ==
  IF ~a.warm THEN "cache" ELSE IF a.slow THEN "backlog"
  ELSE IF a.mute THEN "cache" ELSE "eligible"

\* The first gate that fails names the outcome the point ends in.
Classify(a) ==
  IF ~a.warm THEN "cache" ELSE IF a.slow THEN "backlog"
  ELSE IF a.mute THEN "cache"
  ELSE IF ~PressurePassed(a) THEN "pressure" ELSE "eligible"

\* assert_probe_schedule_intended_rate, which only the total budget and the
\* probe's own spend cap excuse: too few records, or a late last admission.
ScheduleFault(a) ==
  /\ a.report.ramp = "thin" \/ a.lags
  /\ ~stop' /\ a.report.cost + 1 < Cap

\* One probe is awaited and charged at the full rate, whatever it returned.
Measures(r, a) ==
  /\ a \in Aggregates[stop][Early(r)]
  /\ spent' = spent + a.report.cost
  /\ stop' = (stop \/ spent' >= Threshold)

OverBudget == spent' >= Threshold

----------------------------------------------------------------------------
End(o, t, why) ==
  /\ phase' = "done" /\ outcome' = o /\ selected' = t /\ detail' = why
  /\ UNCHANGED <<idx, depth, role, retry, low, high>>

\* A bracket that stops early, for whatever reason, is a grid without contrast.
Halted(o, why) == End(IF depth = 0 THEN o ELSE "no_contrast", 0, why)

Stay == UNCHANGED <<outcome, selected, detail>>

\* The head of the grid loop and of the bracket loop.
Point(ph, i, d, lo, hi) ==
  IF OverBudget
    THEN End(IF d = 0 THEN "exhausted" ELSE "no_contrast", 0, "budget")
    ELSE
    /\ phase' = ph /\ idx' = i /\ depth' = d /\ low' = lo /\ high' = hi
    /\ role' = "largest" /\ retry' = FALSE /\ Stay

Deeper(lo, hi) ==
  IF depth = MaxDepth THEN End("no_contrast", 0, "bracket_exhausted")
  ELSE Point(phase, idx, depth + 1, lo, hi)

Ahead ==
  CASE idx < Len(Grid(phase)) -> Point(phase, idx + 1, 0, Tps, 0)
    [] idx = Len(Grid(phase)) /\ phase = "A" -> Point("B", 1, 0, 0, 0)
    [] OTHER -> End("endpoint_not_throttling", 0, "grid_exhausted")

Faults(a) ==
  /\ ScheduleFault(a)
  /\ phase' = "fault"
  /\ UNCHANGED <<idx, depth, role, retry, low, high>> /\ Stay

\* An ineligible probe is repeated once, unless the budget is gone.
Retries(a) ==
  /\ ~ScheduleFault(a) /\ Classify(a) # "eligible" /\ ~retry
  /\ IF OverBudget THEN Halted("exhausted", "budget")
     ELSE retry' = TRUE /\ Stay /\ UNCHANGED <<phase, idx, depth, role, low, high>>

\* Deviation: a rate that stays ineligible is passed over.
PassesOver(a) ==
  /\ ~ScheduleFault(a) /\ Classify(a) # "eligible" /\ retry
  /\ IF depth = 0 THEN Ahead ELSE Halted(Classify(a), "ineligible")

GivesUp(a) ==
  /\ ~ScheduleFault(a) /\ Classify(a) # "eligible" /\ retry
  /\ Halted(Classify(a), "ineligible")

\* No 429: the onset, if there is one, is at a higher rate.
LargestPasses(a) ==
  /\ role = "largest" /\ ~ScheduleFault(a) /\ Classify(a) = "eligible" /\ ~Hit(a)
  /\ IF depth = 0 THEN Ahead ELSE Deeper(Tps, high)

\* A 429: the control runs at the same rate.  Only the grid looks at the
\* budget before it.
LargestHits(a) ==
  /\ role = "largest" /\ ~ScheduleFault(a) /\ Classify(a) = "eligible" /\ Hit(a)
  /\ IF depth = 0 /\ OverBudget THEN Halted("exhausted", "budget")
     ELSE role' = "control" /\ retry' = FALSE /\ Stay
            /\ UNCHANGED <<phase, idx, depth, low, high>>

ControlPasses(a) ==
  /\ role = "control" /\ ~ScheduleFault(a) /\ Classify(a) = "eligible" /\ ~Hit(a)
  /\ End("selected", Tps, IF depth = 0 THEN "grid" ELSE "bracket")

\* Deviation: the search goes up although both were throttled.
ControlHitsGoesUp(a) ==
  /\ role = "control" /\ ~ScheduleFault(a) /\ Classify(a) = "eligible" /\ Hit(a)
  /\ IF depth = 0 /\ low = 0 THEN End("no_contrast", 0, "no_t_low")
     ELSE IF depth = 0 THEN Deeper(low, Tps) ELSE Deeper(Tps, high)

\* Both are throttled: the contrast, if there is one, is at a lower rate.
ControlHits(a) ==
  /\ role = "control" /\ ~ScheduleFault(a) /\ Classify(a) = "eligible" /\ Hit(a)
  /\ IF depth = 0 /\ low = 0 THEN End("no_contrast", 0, "no_t_low")
     ELSE Deeper(low, Tps)

Decides(a) ==
  \/ Faults(a) \/ Retries(a) \/ GivesUp(a)
  \/ LargestPasses(a) \/ LargestHits(a)
  \/ ControlPasses(a) \/ ControlHits(a)

SearchStep(a) ==
  /\ phase \in {"A", "B"}
  /\ Measures(role, a)
  /\ Decides(a)
  /\ probes' = IF ScheduleFault(a) \/ Classify(a) # "eligible" THEN probes
               ELSE probes \union {[tps |-> Tps, role |-> role, hit |-> Hit(a),
                                    enough |-> a.report.ramp = "enough"]}

Next == \E a \in Aggregates[stop][Early(role)] : SearchStep(a)

Spec == Init /\ [][Next]_vars

----------------------------------------------------------------------------
Outcomes == {"none", "selected", "exhausted", "cache", "backlog", "pressure",
             "no_contrast", "endpoint_not_throttling"}

TypeOK ==
  /\ phase \in {"A", "B", "done", "fault"} /\ idx \in Nat \ {0}
  /\ phase \in {"A", "B"} => idx <= Len(Grid(phase))
  /\ depth \in 0..MaxDepth /\ role \in Roles /\ retry \in BOOLEAN
  /\ low \in Nat /\ high \in Nat /\ selected \in Nat /\ spent \in Nat
  /\ stop \in BOOLEAN /\ outcome \in Outcomes
  /\ probes \subseteq [tps : Nat, role : Roles, hit : BOOLEAN, enough : BOOLEAN]

Clean(t, r)     == \E p \in probes : p.tps = t /\ p.role = r /\ ~p.hit /\ p.enough
Throttled(t, r) == \E p \in probes : p.tps = t /\ p.role = r /\ p.hit

(* A selected rate was measured on both cells: the largest was throttled at *)
(* it, and the smallest met no 429 over at least the records that the last  *)
(* window must have intended.  It was not spared one because the total      *)
(* budget or an early stop left it no ramp or too short a one; a cap of the *)
(* probe may have cut the ramp, but not below those records.                *)
SelectedOnContrast ==
  outcome = "selected" => Throttled(selected, "largest") /\ Clean(selected, "control")

(* While a bracket is searched the rate below it is one the largest cell    *)
(* passed in the same phase, and the rate above it one that throttled both. *)
BracketStraddlesOnset ==
  depth > 0 /\ phase \in {"A", "B"} =>
    /\ low < high /\ low < Tps /\ Tps < high
    /\ Clean(low, "largest")
    /\ Throttled(high, "largest") /\ Throttled(high, "control")

(* The second phase, with its higher rates, is entered, and the endpoint    *)
(* called not throttling, only after every rate before passed at pressure.  *)
EscalatedFromPassing ==
  /\ phase = "B" => \A i \in DOMAIN GridA : Clean(GridA[i], "largest")
  /\ outcome = "endpoint_not_throttling" =>
       \A i \in DOMAIN GridB : Clean(GridB[i], "largest")

(* The committed spend passes the stop threshold by at most one probe and   *)
(* the warm-up of one more, which no budget check precedes in a bracket.    *)
OvershootBounded == spent < Threshold + (Prewarm + RampCalls) + Prewarm
=============================================================================
