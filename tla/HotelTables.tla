----------------------------- MODULE HotelTables -----------------------------
(***************************************************************************)
(* The committed rows of the PostgreSQL tables that the hotel server       *)
(* writes, as the repositories of app/repositories see them.  A variable   *)
(* of this module is the committed state: what a statement of another      *)
(* session can read.  Uncommitted writes belong to the transactions of the *)
(* modules that extend this one.                                           *)
(***************************************************************************)
EXTENDS Pricing

CONSTANTS
  Users,            \* ids of registered accounts
  Rooms,            \* ids a row of table rooms may have
  Categories,       \* ids of table room_categories, which the server never writes
  Services,         \* ids of table services, which the server never writes
  BasePrice,        \* room_categories.base_price
  ServicesPrice,    \* SUM(price) over a set of services
  MaxId,            \* last value of the sequence behind bookings.booking_id
  NoRow,            \* there is no row with this id
  Null              \* the SQL NULL of a bonus balance

BookingIds == 1..MaxId

Statuses == {"confirmed", "completed", "cancelled"}

(* A row of table bookings, with its rows of table booking_services.       *)
Booking ==
  [ user_id : Users,
    room_id : Rooms,
    check_in_date : Int,
    check_out_date : Int,
    total_cost : Nat,
    status : Statuses,
    services : SUBSET Services ]

ASSUME PricesAssumption ==
  /\ BasePrice \in [Categories -> Nat]
  /\ ServicesPrice \in [SUBSET Services -> Nat]

ASSUME SequenceAssumption == MaxId \in Nat

ASSUME NullAssumption ==
  /\ Null \notin Int
  /\ NoRow \notin Booking
  /\ NoRow \notin Categories

VARIABLES
  bookings,         \* table bookings
  bonuses,          \* column bonuses of table users
  rooms,            \* column category_id of table rooms
  nextId            \* the sequence of bookings.booking_id; never rolled back

tables == <<bookings, bonuses, rooms, nextId>>

TablesTypeOK ==
  /\ bookings \in [BookingIds -> Booking \cup {NoRow}]
  /\ bonuses \in [Users -> Int \cup {Null}]
  /\ rooms \in [Rooms -> Categories \cup {NoRow}]
  /\ nextId \in 1..(MaxId + 1)

(* A row that takes a room on some night of [checkIn, checkOut), as the     *)
(* query of isRoomAvailable counts it.                                     *)
Overlaps(row, room, checkIn, checkOut) ==
  /\ row # NoRow
  /\ row.room_id = room
  /\ row.status # "cancelled"
  /\ row.check_in_date < checkOut
  /\ row.check_out_date > checkIn

(* Price of a stay in room r at the category it has now.                   *)
PriceOf(room, checkIn, checkOut, services) ==
  StayPrice(BasePrice[rooms[room]], checkIn, checkOut, ServicesPrice[services])
=============================================================================
