---------------------------- MODULE AdaptiveSearch ---------------------------
(* The adaptive stage (Stage 0.5.C: _run_adaptive_stage_0_5c and            *)
(* task019_v25_adaptive.py) behind the two-phase search whose probes it     *)
(* reads again, under gates of its own: expand each role's onset interval,  *)
(* bracket it, then admit a rate on direct evidence (C1), on replicated     *)
(* separated onsets (C2), or claim that the search was complete (C3).       *)
EXTENDS CalibrationSearch, FiniteSetsExt

CONSTANTS
  Total,         \* total_max_usd in calls
  AdaptiveMax,   \* ADAPTIVE_CALIBRATION_MAX_USD
  NoExpansionAt, \* 90 % of it: no new expansion past it
  EntryMin,      \* MIN_REMAINING_USD_FOR_ADAPTIVE_ENTRY
  ExpansionMin,  \* MIN_REMAINING_USD_FOR_EXPANSION
  ExpansionsMax, BracketsMax,   \* probes per role of steps 2 and 3
  Factor,        \* ADAPTIVE_EXPANSION_FACTOR, added on the logarithmic scale
  HardMin, HardMax,             \* adaptive_tps_hard_min and _max
  Margin         \* C2_ONSET_SEPARATION_MARGIN_TPS

ASSUME AdaptiveAssumption ==
  /\ {Total, AdaptiveMax, NoExpansionAt, EntryMin, ExpansionMin, ExpansionsMax,
      BracketsMax, Factor, HardMin, HardMax, Margin} \subseteq Nat \ {0}
  /\ Threshold < Total /\ NoExpansionAt <= AdaptiveMax /\ EntryMin <= AdaptiveMax
  /\ HardMin < GridA[1] /\ GridB[Len(GridB)] < HardMax

VARIABLES
  stage,     \* "search", "expand", "bracket", "replicate" or "over"
  arole,     \* the role the stage works on
  count,     \* probes of this step and role
  tstar,     \* rate of the replicates
  onsets,    \* observations that pass the onset eligibility
  aspent,    \* adaptive_committed_usd
  late       \* the adaptive wall time is used up

avars == <<stage, arole, count, tstar, onsets, aspent, late>>
allvars == <<vars, avars>>

AInit == /\ Init
         /\ stage = "search" /\ arole = "largest" /\ count = 0 /\ tstar = 0
         /\ onsets = {} /\ aspent = 0 /\ late = FALSE

----------------------------------------------------------------------------
\* compute_onset_eligibility, which reads the cache hits of the ramp instead
\* of the warm-up and knows neither the backlog tail nor empty answers.
Sound(a) == a.cached /\ PressurePassed(a)

Observed(t, r, a) ==
  onsets' = IF ScheduleFault(a) \/ ~Sound(a) THEN onsets
            ELSE onsets \union {[tps |-> t, role |-> r, hit |-> Hit(a)]}

\* The bounds of a role's onset: 0 stands for none, as no rate is 0.
Zeros(r) == {o.tps : o \in {x \in onsets : x.role = r /\ ~x.hit}}
Hits(r)  == {o.tps : o \in {x \in onsets : x.role = r /\ x.hit}}
Lower(r) == IF Zeros(r) = {} THEN 0 ELSE Max(Zeros(r))
Upper(r) == IF Hits(r) = {} THEN 0 ELSE Min(Hits(r))

Bracketed(r) == Zeros(r) # {} /\ Hits(r) # {} /\ Lower(r) < Upper(r)
RightOpen(r) == Zeros(r) # {} /\ Hits(r) = {}
LeftOpen(r)  == Zeros(r) = {} /\ Hits(r) # {}

\* plan_step2_expansion, clamped to the hard limits.
ExpansionTps(r) == IF RightOpen(r) THEN Min({Lower(r) + Factor, HardMax})
                   ELSE Max({Upper(r) - Factor, HardMin})
MiddleTps(r)    == (Lower(r) + Upper(r)) \div 2

\* Aggregation over a rate adds up its 429s, so one hit is one too many.
(* A sound probe without a 429 has held its rate over the last window; that *)
(* is taken to be the number of records C1 and C2 ask of the control.       *)
PairedAt(t) ==
  /\ t \in Hits("largest")
  /\ t \in Zeros("control") /\ t \notin Hits("control")
Paired == {t \in Hits("largest") : PairedAt(t)}

----------------------------------------------------------------------------
\* Outcomes that call for the adaptive stage, of the first search.
Triggers == {"no_contrast", "endpoint_not_throttling", "pressure", "cache", "backlog"}

\* Deviation: the adaptive stage follows whatever the search ended in.
EnterAlways ==
  /\ stage = "search" /\ phase = "done"
  /\ stage' = IF Total - spent >= EntryMin THEN "expand" ELSE "over"
  /\ UNCHANGED <<vars, arole, count, tstar, onsets, aspent, late>>

Enter ==
  /\ stage = "search" /\ phase = "done"
  /\ stage' = IF outcome \in Triggers /\ Total - spent >= EntryMin
              THEN "expand" ELSE "over"
  /\ UNCHANGED <<vars, arole, count, tstar, onsets, aspent, late>>

\* total_committed_usd as it was passed in: it is not refreshed.
FirstSpent == spent - aspent

MayExpand(r) ==
  /\ RightOpen(r) \/ LeftOpen(r)
  /\ count < ExpansionsMax
  /\ aspent < NoExpansionAt /\ AdaptiveMax - aspent >= ExpansionMin
  /\ Total - FirstSpent >= ExpansionMin

MayBracket(r) ==
  /\ Bracketed(r) /\ count < BracketsMax
  /\ aspent < AdaptiveMax /\ FirstSpent < Total

Finish(o, t) == /\ stage' = "over" /\ outcome' = o /\ selected' = t
                /\ UNCHANGED <<arole, count, tstar>>

CapOutcome == IF aspent' >= AdaptiveMax THEN "adaptive_budget_exhausted"
              ELSE "adaptive_wall_time_exhausted"

\* Deviation: only the wall time halts the stage.
CapHaltedLate == late'

CapHalted  == aspent' >= AdaptiveMax \/ late'

\* A probe of the stage.  Time passes while it is awaited; a schedule fault
\* leaves the stage as an exception, which is logged and swallowed, so that
\* the first search's outcome stands.
Dispatch(r, t, after) ==
  \E a \in Aggregates[stop][Early(r)] :
    /\ Measures(r, a)
    /\ Observed(t, r, a)
    /\ late' \in {late, TRUE}
    /\ UNCHANGED <<where, probes, detail>>
    /\ IF ScheduleFault(a)
         THEN stage' = "over" /\ UNCHANGED <<arole, count, tstar, aspent, outcome, selected>>
         ELSE /\ aspent' = aspent + a.report.cost
              /\ IF CapHalted THEN Finish(CapOutcome, 0) ELSE after

Counted == count' = count + 1 /\ UNCHANGED <<stage, arole, tstar, outcome, selected>>

Expand  == /\ stage = "expand" /\ MayExpand(arole)
           /\ Dispatch(arole, ExpansionTps(arole), Counted)
Bracket == /\ stage = "bracket" /\ MayBracket(arole)
           /\ Dispatch(arole, MiddleTps(arole), Counted)

\* A step that has nothing more to do for a role turns to the next one.
Quiet == UNCHANGED <<where, probes, spent, stop, detail, onsets, aspent>>

\* Deviation: the first role is never left.
NextRoleStuck ==
  /\ \/ stage = "expand" /\ ~MayExpand(arole)
     \/ stage = "bracket" /\ arole = "largest" /\ ~MayBracket(arole)
  /\ count' = 0
  /\ Quiet /\ UNCHANGED <<stage, arole, tstar, outcome, selected, late>>

NextRole ==
  /\ \/ stage = "expand" /\ ~MayExpand(arole)
     \/ stage = "bracket" /\ arole = "largest" /\ ~MayBracket(arole)
  /\ count' = 0 /\ arole' = IF arole = "largest" THEN "control" ELSE "largest"
  /\ stage' = IF arole = "largest" THEN stage ELSE "bracket"
  /\ Quiet /\ UNCHANGED <<tstar, outcome, selected, late>>

Separated ==
  /\ Bracketed("largest") /\ Bracketed("control")
  /\ Lower("control") - Upper("largest") >= Margin

Conclude == IF CapHalted THEN Finish(CapOutcome, 0)
            ELSE Finish("no_promotable_contrast", 0)

\* C1 takes the lowest paired rate; without one C2 looks for separated onsets.
Evaluate ==
  /\ stage = "bracket" /\ arole = "control" /\ ~MayBracket(arole)
  /\ late' \in {late, TRUE} /\ Quiet
  /\ IF Paired # {} THEN Finish("selected", Min(Paired))
     ELSE IF Separated
       THEN /\ stage' = "replicate" /\ arole' = "largest" /\ count' = 0
            /\ tstar' = (Upper("largest") + Lower("control")) \div 2
            /\ UNCHANGED <<outcome, selected>>
       ELSE Conclude

Replicate ==
  /\ stage = "replicate" /\ count = 0
  /\ Dispatch(arole, tstar,
       IF arole = "largest"
         THEN arole' = "control" /\ UNCHANGED <<stage, count, tstar, outcome, selected>>
         ELSE count' = 1 /\ UNCHANGED <<stage, arole, tstar, outcome, selected>>)

Admit ==
  /\ stage = "replicate" /\ count = 1
  /\ late' \in {late, TRUE} /\ Quiet
  /\ IF PairedAt(tstar) THEN Finish("selected", tstar) ELSE Conclude

----------------------------------------------------------------------------
FirstSearch ==
  /\ stage = "search"
  /\ \E a \in Aggregates[stop][Early(role)] :
       SearchStep(a) /\ Observed(Tps, role, a)
  /\ UNCHANGED <<stage, arole, count, tstar, aspent, late>>

ANext == FirstSearch \/ Enter \/ Expand \/ Bracket \/ NextRole
           \/ Evaluate \/ Replicate \/ Admit

ASpec == AInit /\ [][ANext]_allvars /\ WF_allvars(ANext)

----------------------------------------------------------------------------
AOutcomes == Outcomes \union {"adaptive_budget_exhausted",
               "adaptive_wall_time_exhausted", "no_promotable_contrast"}

\* Probes of the stage: expansions and brackets of each role, two replicates.
StageProbes == 2 * (ExpansionsMax + BracketsMax) + 2

ATypeOK ==
  /\ stage \in {"search", "expand", "bracket", "replicate", "over"}
  /\ arole \in Roles /\ tstar \in Nat /\ aspent \in Nat /\ late \in BOOLEAN
  /\ count \in 0..Max({ExpansionsMax, BracketsMax}) /\ outcome \in AOutcomes
  /\ onsets \subseteq [tps : Nat, role : Roles, hit : BOOLEAN]

(* The stage looks at the total budget as it stood when the search ended.   *)
(* It is kept by the stop event: the probe that crosses the threshold may   *)
(* end, and each of those left after it in either search pays its warm-up,  *)
(* so that the overshoot does not depend on the prices of their ramps.      *)
TotalOvershootBounded ==
  spent < Threshold + (Prewarm + RampCalls) + Prewarm * (1 + StageProbes)

(* The stage adds to the search: a rate that was selected is never taken    *)
(* back or replaced, and no budget stop that was reported is probed past.   *)
NeverOverridden ==
  [][(outcome \in {"selected", "exhausted"} => UNCHANGED <<outcome, selected, spent>>)]_allvars

(* The stage's own budget is overshot by less than one probe, and no budget *)
(* but its own can have it claim that.                                      *)
AdaptiveBudgetKept ==
  /\ aspent < AdaptiveMax + Prewarm + RampCalls
  /\ outcome = "adaptive_budget_exhausted" <=> aspent >= AdaptiveMax

(* Both searches end, by an outcome or by the exception of a probe.         *)
Terminates == <>(stage = "over" \/ phase = "fault")
=============================================================================
