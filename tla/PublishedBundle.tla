--------------------------- MODULE PublishedBundle ---------------------------
(* A report directory as its owner sees it, wherever an interrupted swap    *)
(* left it: published once, replaced by nothing but itself, and changed by  *)
(* nobody but its owner.                                                    *)
CONSTANTS Reports, Foreign, None

VARIABLE bundle  \* a report, files that are no report's, or None

Init == bundle \in {None, Foreign} \cup Reports

Publish == bundle = None /\ bundle' \in Reports

Edit == bundle \in Reports /\ bundle' = Foreign

Next == Publish \/ Edit

Spec == Init /\ [][Next]_bundle
==============================================================================
