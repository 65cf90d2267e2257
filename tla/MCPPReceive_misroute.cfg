SPECIFICATION Spec

CONSTANTS
  Apps <- FourApps
  MaxRecv = 2
  PipeCap = 1

INVARIANT RoutedByOwnHeader
