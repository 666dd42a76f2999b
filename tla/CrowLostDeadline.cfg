SPECIFICATION FairSpec
CONSTANTS
  Connections = {c1, c2}
  Timeout = 1
  MaxPieces = 0
PROPERTY
  SilentIsClosed
