SPECIFICATION FairSpec

CONSTANTS
  c1 = c1
  c2 = c2
  Clients <- TwoClients
  N <- Quota
  max_events = 2
  MaxLate = 1

INVARIANT TypeOK
INVARIANT RunsOwn
INVARIANT CancelHonoured
PROPERTY EventuallyRun
