SPECIFICATION FairSpec
CONSTANTS
  Connections = {c1, c2}
  Timeout = 1
  MaxPieces = 2
INVARIANT
  Inv
PROPERTIES
  ClosedForSilence
  LostToStaleIdentifier
  ClosedUnlessForgotten
