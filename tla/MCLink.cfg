\* Two waiters, two connections, failed dials told apart up to two in a row.
SPECIFICATION LinkFairSpec
CONSTANTS
  w1 = w1
  w2 = w2
  direct = direct
  tunneled = tunneled
  nested = nested
  Hosts <- MCHosts
  ProxyJump <- MCProxyJump
  Waiters <- MCWaiters
  MinBackoff = 1
  MaxBackoff = 3
  KeepaliveFailsMax = 2
  MaxAttempts = 2
  MaxGeneration = 2
INVARIANTS
  NoLostWakeup
  StatusMatchesClient
  NoClientLeak
  JumpServesItsClient
PROPERTIES
  OneMissIsForgiven
  DropIsNoticed
  CancelEndsRun
  JumpsAreClosed
  KeepsPromise
