SPECIFICATION FairSpec

CONSTANTS
  Apps <- SomeApps
  N = 1
  MaxRecv = 3
  MaxTraffic = 3
  threadCount = 2

INVARIANT TypeOK
INVARIANT SentToPeer
INVARIANT RoutedByOverlapping
INVARIANT SlotsUsedUp
INVARIANT CountersExactUnlessRaced
PROPERTY EventuallySettled
