SPECIFICATION FairSpec

CONSTANTS
  c1 = c1
  c2 = c2
  c3 = c3
  Clients <- ThreeClients
  N = 1
  threadCount = 2
  MaxFailures = 1

INVARIANT TypeOK
INVARIANT OneThreadPerSlot
PROPERTY EventuallyFree
