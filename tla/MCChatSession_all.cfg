SPECIFICATION FairSpec

CONSTANTS
  Clients = {c1, c2}
  Names = {"abc", "xyz", "0", "1"}
  MaxRequests = 2
  MaxLost = 1
  Rows <- TwoRows
  Sessions <- OneSession
  NoOne = NoOne
  NoRow = NoRow

INVARIANT TypeOK
INVARIANT OneOutstanding
INVARIANT TableUnlessCrossed
PROPERTY SessionsKept
PROPERTY EventuallyAnswered
