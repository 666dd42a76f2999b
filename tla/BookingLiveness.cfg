SPECIFICATION FairSpec
CONSTANTS
  Workers = {w1, w2}
  u1 = u1
  Users = {u1}
  Rooms = {r1}
  Categories = {standard}
  Services = {s1}
  BasePrice <- Price
  ServicesPrice <- ServicePrice
  MaxId = 2
  NoRow = NoRow
  Null = Null
  Requests <- Endless
  MaxGrowth = 1
  InitialBookings <- OneBooking
  InitialBonuses <- Points
PROPERTIES
  EveryRequestIsAnswered
