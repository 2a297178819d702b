CONSTANTS
  Writers = {p1, p2}
  Reports = {r1, r2}
  NumArtifacts = 2
  Foreign = Foreign
  None = None
  NoDir = NoDir
SPECIFICATION Spec
INVARIANTS LeftoversAccepted SuccessIsClean
PROPERTIES KeepsBundle
SYMMETRY Symmetry
