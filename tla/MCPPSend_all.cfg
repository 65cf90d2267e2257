SPECIFICATION Spec

CONSTANTS
  Apps <- FourApps
  N = 1
  PipeCap = 1

INVARIANT TypeOK
INVARIANT OneOwner
INVARIANT WireFraming
INVARIANT LockDiscipline
