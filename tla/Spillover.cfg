SPECIFICATION Spec
CONSTANTS
  MinStay = 2
  Interval = 4
  Window = 3
  Step = 30
  Cap = 70
  Back = 90
  FollowUps = 2
  NumRequests = 7
  NumWarm = 1
  Gaps <- GapsDef
  Costs <- CostsDef
  Ceiling = 11
  MinSample = 4
  Limit = 50
INVARIANTS
  FollowUpsAvoidPrimary
  ReturnsAreSpaced
  RampIsGradual
  OvershootBounded
