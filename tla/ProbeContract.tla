---------------------------- MODULE ProbeContract ---------------------------
(* The probe as its callers see it: one await that ends, once, in one of    *)
(* the reports of ProbeResults.                                             *)
EXTENDS ProbeResults

CONSTANTS EarlyStop    \* the role stops at its first 429
VARIABLES stop, report \* the total-budget stop event; NoReport, then a report

Init == stop \in BOOLEAN /\ report = NoReport

Finish == /\ report = NoReport
          /\ report' \in Reports(stop, EarlyStop)
          /\ UNCHANGED stop

Spec == Init /\ [][Finish]_<<stop, report>> /\ WF_<<stop, report>>(Finish)
=============================================================================
