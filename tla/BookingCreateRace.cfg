SPECIFICATION Spec
CONSTANTS
  Workers = {w1, w2}
  u1 = u1
  Users = {u1}
  Rooms = {r1}
  Categories = {standard}
  Services = {s1}
  BasePrice <- Price
  ServicesPrice <- ServicePrice
  MaxId = 3
  NoRow = NoRow
  Null = Null
  Requests <- CreateRace
  MaxGrowth = 2
  InitialBookings <- NoneOrOneBooking
  InitialBonuses <- Points
SYMMETRY WorkerSymmetry
INVARIANTS
  TypeOK
PROPERTIES
  DoubleBookingNeedsRace
  OverlapHasOrigin
  DiscountIsPaidFor
  OverdraftNeedsRace
  UnracedIsAtomic
