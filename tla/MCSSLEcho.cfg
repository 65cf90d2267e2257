SPECIFICATION FairSpec

CONSTANTS
  Conns = {k1, k2, k3}
  Lines = 2
  FDs = {4, 5}
  None = None

INVARIANT TypeOK
INVARIANT EchoesOwn
PROPERTY EventuallyServed
