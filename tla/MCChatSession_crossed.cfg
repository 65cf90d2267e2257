SPECIFICATION Spec

CONSTANTS
  Clients = {c1, c2}
  Names = {"abc", "xyz", "1"}
  MaxRequests = 1
  MaxLost = 0
  Rows <- TwoRows
  Sessions <- OneSession
  NoOne = NoOne
  NoRow = NoRow

INVARIANT ConnectedToListed
