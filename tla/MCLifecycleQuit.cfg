\* The dashboard is quit with a key and no signal ever comes.
SPECIFICATION FairSpec
CONSTANTS
  MaxDrops = 0
PROPERTY
  QuitExits
