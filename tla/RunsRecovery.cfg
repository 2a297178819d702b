CONSTANTS
  p1 = p1
  p2 = p2
  d1 = d1
  i1 = i1
  i2 = i2
  i3 = i3
  a = a
  b = b
  v1 = v1
  v2 = v2
  Free = Free
  Abandoned = Abandoned
  None = None
  Runners <- TwoRunners
  Doctors <- OneDoctor
  RunIds <- ThreeIds
  Rows <- TwoRows
  Inputs <- TwoInputs
  RowsOf <- ShrinkingRows
  NumArtifacts = 2
  FailsAt <- AnyPlace
  MayCrash = TRUE
SPECIFICATION Spec
INVARIANTS LatestIsComplete LiveStagingKept OnlyFailedRowsRetried
PROPERTIES PointerMovesToNewest FailedRunsLeaveNoStaging UsesLock
SYMMETRY Symmetry
