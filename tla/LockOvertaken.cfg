CONSTANTS
  r1 = r1
  r2 = r2
  d1 = d1
  d2 = d2
  Empty = Empty
  Nobody = Nobody
  Runs <- TwoRuns
  Doctors <- TwoDoctors
  HostOf <- RemoteRun
  Inodes = {1, 2}
  MayCrash = TRUE
SPECIFICATION Spec
INVARIANT LiveLockKept
