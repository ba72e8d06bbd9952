\* One tunnel and one row that cannot be forwarded, with fairness.
SPECIFICATION FairSpec
CONSTANTS
  k1 = k1
  k2 = k2
  u1 = u1
  t1 = t1
  t2 = t2
  Keys <- MCTunnelAndUdp
  UdpKeys <- MCUdp
  Targets <- MCTargets
  Preferred <- MCPreferred
  Ids <- MCIds
  FallbackBase = 2
  FallbackSize = 2
  MaxPort = 2
  ForeignPorts <- MCForeignPorts
  NoForwarder = NoForwarder
  NoKey = NoKey
  NoTarget = NoTarget
PROPERTIES
  KeepsPromise
