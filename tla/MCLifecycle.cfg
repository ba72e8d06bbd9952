\* Both front ends; the link drops at most twice.
SPECIFICATION FairSpec
CONSTANTS
  MaxDrops = 2
INVARIANTS
  ExitIsClean
PROPERTIES
  SignalExits
