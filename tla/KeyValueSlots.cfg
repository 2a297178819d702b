CONSTANTS
  w1 = w1
  w2 = w2
  w3 = w3
  Workers <- ThreeWorkers
  TTL = 2
  Setters <- ThreeWorkers
  Deleters <- NotThird
  MaxCounter = 2
  MayFail = TRUE
  Prompt = FALSE
SPECIFICATION Spec
INVARIANTS DistinctWithinCounter CachedSlotIsHeld
SYMMETRY Symmetry
