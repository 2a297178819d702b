SPECIFICATION PSpec
CONSTANTS
  Prewarm = 2
  Ramp = 5
  Cap = 6
  CallCap = 4
  Required = 3
  Concurrency = 2
  EarlyStop = TRUE
INVARIANTS
  MeasuredPrefix
PROPERTIES
  KeepsContract
\* The probe ends.
CHECK_DEADLOCK FALSE
