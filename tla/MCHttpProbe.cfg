\* Two tunnels and one slot.
SPECIFICATION FairSpec
CONSTANTS
  a = a
  b = b
  Tunnels <- MCTunnels
  MaxProbes = 1
INVARIANTS
  NothingIsLeaked
  VerdictFitsService
PROPERTIES
  ProbesEnd
