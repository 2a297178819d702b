SPECIFICATION ASpec
CONSTANTS
  Prewarm = 1
  Ramp = 5
  Cap = 9
  CallCap = 3
  Required = 2
  GridA <- OneRateA
  GridB <- OneRateB
  MaxDepth = 1
  Threshold = 22
  EarlyLargest = TRUE
  EarlySmallest = TRUE
  Total = 26
  AdaptiveMax = 16
  NoExpansionAt = 14
  EntryMin = 2
  ExpansionMin = 1
  ExpansionsMax = 1
  BracketsMax = 1
  Factor = 6
  HardMin = 12
  HardMax = 36
  Margin = 1
INVARIANTS
  TotalOvershootBounded
  AdaptiveBudgetKept
PROPERTIES
  NeverOverridden
  Terminates
\* The calibration ends.
CHECK_DEADLOCK FALSE
