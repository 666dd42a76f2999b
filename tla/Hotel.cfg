SPECIFICATION Spec
CONSTANTS
  single = single
  double = double
  r1 = r1
  r2 = r2
  u1 = u1
  u2 = u2
  Workers = {w1}
  Admins = {a1}
  Users = {u1, u2}
  Rooms = {r1, r2}
  Categories = {single, double}
  Services = {}
  Amenities = {}
  BasePrice <- Price
  ServicesPrice <- ServicePrice
  MaxId = 2
  NoRow = NoRow
  Null = Null
  None = None
  Unparsable = Unparsable
  Requests <- Mixed
  MaxGrowth = 2
  InitialBookings <- Booked
  InitialBonuses <- Points
  RoomRequests <- Changes
  InitialRooms <- TwoRooms
  MonthOf <- Month
  NameOf <- Name
  Best = 1
  Days <- ReportDays
INVARIANTS
  BookingsKept
  OccupancyAgreesWithCheck
  ListedTwiceNeedsClash
PROPERTIES
  OverlapHasOrigin
  PriceIsOfTheRoom
  RevenueIsKept
  PlacesAreEarned
  PopularityIsKept
