\* Two rows at first and a third that may come, one letter of a filter, the four
\* sort orders and two of the source filters; two changes of the engine, the
\* user's switches among them.  The user may quit, and the dashboard has stopped.
SPECIFICATION FairSpec
CONSTANTS
  tcp = tcp
  udp = udp
  web = web
  Keys <- MCKeys
  Rank <- MCRank
  Source <- MCSource
  LocalPort <- MCLocalPort
  RemoteKey <- MCRemoteKey
  Hits <- MCHits
  SourceFilters <- MCSourceFilters
  SortModes <- MCSortModes
  Discovered <- MCDiscovered
  MaxFilter = 1
  MaxChanges = 2
  NoSnapshot = NoSnapshot
INVARIANTS
  ScreenIsConsistent
PROPERTIES
  CursorKeepsItsRow
  SwitchesOnlyWhatIsShown
  OrderIsStable
  ScreenComesTrue
CHECK_DEADLOCK FALSE
