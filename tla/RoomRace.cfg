SPECIFICATION Spec
CONSTANTS
  single = single
  double = double
  wifi = wifi
  tv = tv
  Workers = {w1, w2}
  Rooms = {r1, r2, r3}
  Categories = {single, double}
  Amenities = {wifi, tv}
  BasePrice <- Price
  Requests <- SearchRace
  InitialTables <- TwoRooms
  NoRow = NoRow
  None = None
  Unparsable = Unparsable
SYMMETRY WorkerSymmetry
INVARIANTS
  Inv
  SearchIsExact
PROPERTIES
  ListedHaveTheAsked
  RoomAnswersTrue
