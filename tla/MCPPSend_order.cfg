SPECIFICATION FairSpec

CONSTANTS
  Apps <- TwoTransports
  N = 2
  PipeCap = 2

PROPERTY ImplementsMux
PROPERTY EventuallySent
