\* Two connections.
SPECIFICATION FairSpec
CONSTANTS
  c1 = c1
  c2 = c2
  Conns <- MCConns
INVARIANTS
  CountsAreExact
  HandleCleansUp
PROPERTIES
  StopReturns
  CancelDrains
