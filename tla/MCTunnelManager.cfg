\* Two tunnels and two usable ports: one is wanted by both, one may be taken
\* by another process, and the fallback range reaches past the last port.
SPECIFICATION Spec
CONSTANTS
  k1 = k1
  k2 = k2
  u1 = u1
  t1 = t1
  t2 = t2
  Keys <- MCTwoTunnels
  UdpKeys <- MCNoUdp
  Targets <- MCTargets
  Preferred <- MCPreferred
  Ids <- MCIds
  FallbackBase = 2
  FallbackSize = 2
  MaxPort = 2
  ForeignPorts <- MCForeignPorts
  NoForwarder = NoForwarder
  NoKey = NoKey
  NoTarget = NoTarget
INVARIANTS
  TypeOK
  OneRowPerKey
  NoOrphanListener
  Converged
PROPERTIES
  NeverTearsDownWanted
  StickyTriedFirst
  NoPortOverlooked
