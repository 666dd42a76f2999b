SPECIFICATION Spec
CONSTANTS
  Workers = {w1}
  u1 = u1
  Users = {u1, u2}
  Rooms = {r1}
  Categories = {standard}
  Services = {s1}
  BasePrice <- Price
  ServicesPrice <- ServicePrice
  MaxId = 2
  NoRow = NoRow
  Null = Null
  Requests <- Mixed
  MaxGrowth = 2
  InitialBookings <- OneBooking
  InitialBonuses <- Balances
PROPERTIES
  ImplementsBook
