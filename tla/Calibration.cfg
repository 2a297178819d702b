SPECIFICATION Spec
CONSTANTS
  Prewarm = 1
  Ramp = 5
  Cap = 9
  CallCap = 3
  Required = 2
  GridA <- TwoRatesA
  GridB <- TwoRatesB
  MaxDepth = 2
  Threshold = 30
  EarlyLargest = TRUE
  EarlySmallest = TRUE
INVARIANTS
  SelectedOnContrast
  BracketStraddlesOnset
  EscalatedFromPassing
  OvershootBounded
\* The search ends.
CHECK_DEADLOCK FALSE
