SPECIFICATION FairSpec

CONSTANTS
  c1 = c1
  c2 = c2
  Clients <- TwoClients
  N = 3
  ThreadCount = 3
  Slots = 10
  Paced = TRUE

INVARIANT TypeOK
INVARIANT OneKeeper
INVARIANT SlotHasWorker
PROPERTY RunsSerially
PROPERTY EventuallyRun
