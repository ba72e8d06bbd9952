\* Three containers, one on no network and one filtered out, three sockets of the
\* host, three declared forwards; three changes of the host and two failing commands.
SPECIFICATION FairSpec
CONSTANTS
  c1 = c1
  c2 = c2
  c3 = c3
  Containers <- MCContainers
  Hidden = {c3}
  NoNetwork = {c2}
  OddIds = {}
  Columns <- MCColumns
  Services <- MCServices
  SkipPorts = {1}
  ExcludedPorts = {9}
  Forwards <- MCForwards
  MaxPortsPerRange = 3
  MaxChanges = 3
  MaxFailures = 2
INVARIANTS
  ParseTakesTheBest
  OneRowPerKey
PROPERTIES
  
  PublishedAreUndisturbed
