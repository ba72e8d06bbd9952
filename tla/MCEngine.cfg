\* One container port, published on the host socket that is also listed; the
\* user switches the socket on and off.
SPECIFICATION FairSpec
CONSTANTS
  d1 = d1
  h1 = h1
  DockerKeys <- MCDockerKeys
  HostKeys <- MCHostKeys
  StaticKeys = {}
  Publishes <- MCPublishes
  Picked <- MCPicked
INVARIANTS
  PicksAreApplied
  RescanIsNotLost
  PicksAreSaved
PROPERTIES
  FailureDropsNothing
  StaleRowsHeal
