---------------------------- MODULE HotelSystem ----------------------------
(***************************************************************************)
(* The booking service and the administration of rooms in one server, over *)
(* one database: BookingService and RoomRepository, composed.  They share  *)
(* table rooms, of which the booking service reads one column.  A thread   *)
(* keeps nothing from one request to the next, so that the threads which   *)
(* serve bookings and those which serve rooms are told apart.  The reports *)
(* of ReportController are read off the tables that are reached.  The two  *)
(* components are taken with their proved invariants.                      *)
(***************************************************************************)
EXTENDS Integers, FiniteSets

CONSTANTS
  Users, Rooms, Categories, Services, Amenities, BasePrice, ServicesPrice, MaxId,
  NoRow, Null, None, Unparsable,
  Workers, Requests, MaxGrowth, InitialBookings, InitialBonuses,
  Admins,           \* threads that serve requests about rooms
  RoomRequests,
  InitialRooms,
  MonthOf(_), NameOf, Best,
  Days              \* days on which the reports are looked at

VARIABLES
  bookings, bonuses, nextId, pc, req, local, rowWrite, bonusWrite, reply, grown, seen,
  roomRows, roomAmenities, unused, roomPc, roomReq, found, roomWrite, roomReply,
  priced            \* history: the category a worker's price was computed from

bookingVars ==
  <<bookings, bonuses, nextId, pc, req, local, rowWrite, bonusWrite, reply, grown, seen>>
roomVars ==
  <<roomRows, roomAmenities, unused, roomPc, roomReq, found, roomWrite, roomReply>>
vars == <<bookingVars, roomVars, priced>>

(* The column of table rooms that the booking service joins with.          *)
Category ==
  [r \in Rooms |-> IF roomRows[r] = NoRow THEN NoRow ELSE roomRows[r].category_id]

B == INSTANCE BookingServiceProofs WITH rooms <- Category

R == INSTANCE RoomRepositoryProofs WITH
       Workers <- Admins, Requests <- RoomRequests, InitialTables <- InitialRooms,
       rooms <- roomRows, pc <- roomPc, req <- roomReq, reply <- roomReply

Report == INSTANCE Reports WITH rooms <- Category

(* What the two components assume of the tables, the requests and the      *)
(* bounds.                                                                 *)
ASSUME TablesAssumption ==
  /\ B!PricesAssumption /\ B!SequenceAssumption /\ B!NullAssumption
  /\ B!RequestsAssumption /\ B!BoundsAssumption /\ B!InitialAssumption
  /\ R!PricesAssumption /\ R!RequestsAssumption /\ R!TablesAssumption
  /\ R!NoneAssumption

ASSUME BestAssumption == Best \in Nat

ASSUME DaysAssumption == Days \subseteq Int

Init == R!Init /\ B!Init /\ priced = [w \in Workers |-> NoRow]

(* A step of the booking service; the price is noted as it is computed.    *)
BookingStep ==
  /\ UNCHANGED roomVars
  /\ \E w \in Workers :
       /\ B!Serve(w)
       /\ priced' = [priced EXCEPT ![w] =
            IF pc'[w] = "idle" THEN NoRow
            ELSE IF pc[w] = "calculateTotalCost" THEN Category[B!Stay(w).room_id]
            ELSE @]

RoomStep == UNCHANGED <<bookingVars, priced>> /\ \E a \in Admins : R!Serve(a)

(* All threads die with the process.                                       *)
Crash ==
  /\ \/ \E w \in Workers : pc[w] # "idle"
     \/ \E a \in Admins : roomPc[a] # "idle"
  /\ R!Die /\ B!Die
  /\ priced' = [w \in Workers |-> NoRow]

Next == BookingStep \/ RoomStep \/ Crash

Spec == Init /\ [][Next]_vars

-----------------------------------------------------------------------------
(* Properties.                                                             *)

(* What the booking service holds of the tables is as BookingService says, *)
(* with rooms moved and deleted under it.                                  *)
BookingsKept == B!Inv

(* The ways into a double booking stay the ones of the booking service: no *)
(* change of a room opens another (RoomRepository.cpp:114, 128).           *)
OverlapHasOrigin == B!OverlapHasOrigin

(* calculateTotalCost reads the category (BookingService.cpp:181), the row *)
(* is written several statements later.  createNewBooking and              *)
(* adminUpdateBooking store the price the room has at the commit, less the *)
(* points taken, or else the room was moved or deleted since the price was *)
(* computed.                                                               *)
PriceIsOfTheRoom ==
  [][ \A w \in Workers, i \in B!BookingIds :
        LET row == bookings'[i]
            asked == IF req[w].op = "create" THEN req[w].services ELSE {}
            off == B!PriceOf(row.room_id, row.check_in_date, row.check_out_date, asked)
                   - row.total_cost
            points == IF req[w].op = "create" THEN -local[w].points ELSE 0
        IN /\ B!Commits(w) /\ req[w].op \in {"create", "update"}
           /\ bookings[i] # row /\ row # NoRow
           => \/ Category[row.room_id] # priced[w]
              \/ /\ Category[row.room_id] # NoRow
                 /\ points = B!PointsSpent(off) /\ off >= 0 ]_vars

(* The occupancy report (ReportController.cpp:124) and the availability    *)
(* check of a booking (BookingService.cpp:221) count nights in different   *)
(* ways, and agree on every day: a room is occupied exactly when a booking *)
(* of that night would be refused.                                         *)
OccupancyAgreesWithCheck ==
  \A day \in Days : \A row \in Report!Occupancy(day) :
    row.status = "available"
    <=> B!RoomIsFree([room_id |-> row.room_id, check_in_date |-> day,
                      check_out_date |-> day + 1])

(* The report lists a room twice only when two live bookings clash.        *)
ListedTwiceNeedsClash ==
  \A day \in Days : \A x, y \in Report!Occupancy(day) :
    x.room_id = y.room_id /\ x # y => B!Clash(x.booking_id, y.booking_id)

(* A completed stay leaves the revenue of its month only by an operation   *)
(* on it: its removal, or the administrator's or the owner's change of it. *)
(* Nothing about rooms and no new booking changes what was earned.         *)
RevenueIsKept ==
  [][ Report!MonthlyRevenue # Report!MonthlyRevenue'
      => \E w \in Workers :
           /\ B!Commits(w) /\ req[w].op # "create"
           /\ LET i == req[w].booking_id IN
              \/ i \in Report!Completed
              \/ req[w].op = "update" /\ i \in Report!Completed' ]_vars

(* A guest who is sure of a place among the best clients                   *)
(* (ReportController.cpp:46) loses it only by an operation on a completed  *)
(* stay of his own, or by one after which somebody else has a completed    *)
(* stay; one who has no chance of a place gets it only by his own          *)
(* completed stay or at the cost of somebody else's.  In particular no     *)
(* new booking, no room and no cancellation of a stay to come does it.     *)
PlacesAreEarned ==
  [][ LET before == Report!TopClients
          after == Report!TopClients'
          has(i, u) == i \in Report!Completed /\ bookings[i].user_id = u
          other(i, u) == i \in Report!Completed /\ bookings[i].user_id # u
          about(i) == \E w \in Workers : /\ B!Commits(w) /\ req[w].op # "create"
                                        /\ req[w].booking_id = i
      IN bookings' # bookings => \A u \in Users :
           /\ (\A best \in before : u \in best) /\ ~(\A best \in after : u \in best)
              => \E i \in B!BookingIds : about(i) /\ (has(i, u) \/ other(i, u)')
           /\ ~(\E best \in before : u \in best) /\ (\E best \in after : u \in best)
              => \E i \in B!BookingIds : about(i) /\ (has(i, u)' \/ other(i, u)) ]_vars

(* The report of categories (ReportController.cpp:85) counts what was      *)
(* booked: a category loses a booking only when the administrator removes  *)
(* it or gives it another room, or when the room leaves the category,      *)
(* which takes the bookings of the past with it.                           *)
PopularityIsKept ==
  [][ LET before == Report!Popularity
          after == Report!Popularity'
      IN \A n \in DOMAIN before :
        after[n] < before[n]
        => \/ \E r \in Rooms : /\ Category[r] # NoRow /\ NameOf[Category[r]] = n
                               /\ Category'[r] # Category[r]
           \/ \E w \in Workers :
                /\ B!Commits(w)
                /\ \/ req[w].op = "delete"
                   \/ /\ req[w].op = "update"
                      /\ req[w].room_id # bookings[req[w].booking_id].room_id ]_vars
=============================================================================
