SPECIFICATION FairSpec

CONSTANTS
  Apps <- FourApps
  MaxRecv = 3
  PipeCap = 2

INVARIANT TypeOK
INVARIANT Accounting
INVARIANT RoutedByOverlapping
INVARIANT CountedInOrder
PROPERTY EventuallySettled
