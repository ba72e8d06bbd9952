\* Containers whose port is only exposed, and no command that fails by itself.
SPECIFICATION Spec
CONSTANTS
  c1 = c1
  c2 = c2
  c3 = c3
  Containers <- MCContainers
  Hidden = {c3}
  NoNetwork = {}
  OddIds = {}
  Columns <- MCColumnsChurn
  Services <- MCServices
  SkipPorts = {1}
  ExcludedPorts = {9}
  Forwards <- MCForwards
  MaxPortsPerRange = 3
  MaxChanges = 3
  MaxFailures = 0
PROPERTY
  ChurnDisturbsNothing
