CONSTANTS
  Writers = {p1}
  Reports = {r1}
  NumArtifacts = 2
  Foreign = Foreign
  None = None
  NoDir = NoDir
SPECIFICATION Spec
INVARIANTS NextInvocationRecovers
