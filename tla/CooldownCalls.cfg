CONSTANTS
  w1 = w1
  w2 = w2
  w3 = w3
  Workers <- ThreeWorkers
  KeyOf <- OneKey
  MaxAttempts <- Budgets
  HasFallback <- Fallbacks
  MaxWait = 2
  Jittered = TRUE
  SlotWidth = 2
  Strategies <- OneRandom
  Waits = {0, 2, 3}
  MaxExponential = 1
SPECIFICATION FairSpec
INVARIANTS DistinctSlots NoSlotLeak SleepsApart OffsetsInWindow
PROPERTIES SlotProtocol CallsTerminate
