--------------------------- MODULE MCHotelSystem ---------------------------
(***************************************************************************)
(* Instances of HotelSystem for TLC.                                       *)
(***************************************************************************)
EXTENDS HotelSystem, TLC

CONSTANTS single, double, r1, r2, u1, u2

Price == single :> 1050 @@ double :> 2000
ServicePrice == [S \in SUBSET Services |-> 250 * Cardinality(S)]

Name == single :> "single" @@ double :> "double"

(* Two days to a month.                                                    *)
Month(day) == day \div 2

ReportDays == 0..4

Creates(stays, use) ==
  { [ op |-> "create", user_id |-> u, room_id |-> r1, check_in_date |-> s[1],
      check_out_date |-> s[2], services |-> {}, use_bonuses |-> b ] :
    u \in Users, s \in stays, b \in use }

Updates(stays, statuses) ==
  { [ op |-> "update", booking_id |-> 1, user_id |-> u, room_id |-> r,
      check_in_date |-> s[1], check_out_date |-> s[2], status |-> t ] :
    u \in Users, r \in Rooms, s \in stays, t \in statuses }

Extends == [op : {"extend"}, booking_id : {1}, user_id : Users, check_out_date : {4}]
Cancels == [op : {"cancel"}, booking_id : {1}, user_id : Users]
Deletes == [op : {"delete"}, booking_id : {1}]

(* Stays come, go, move and are completed, paid with points, while        *)
(* the category of the room changes or the room goes.                      *)
Mixed ==
  Creates({<<2, 4>>}, {TRUE})
    \cup Updates({<<1, 2>>}, {"completed"}) \cup Updates({<<3, 5>>}, {"confirmed"})
    \cup Extends \cup Cancels \cup Deletes

Changes ==
  [op : {"update"}, room_id : {r1}, row : [category_id : {single}, capacity : {1}]]
    \cup [op : {"delete"}, room_id : {r1}]

Row(category) == [category_id |-> category, capacity |-> 1]

TwoRooms ==
  {[rooms |-> [r \in Rooms |-> Row(double)], roomAmenities |-> [r \in Rooms |-> {}]]}

Kept(u, room, cost, status) ==
  [ user_id |-> u, room_id |-> room, check_in_date |-> 2, check_out_date |-> 3,
    total_cost |-> cost, status |-> status, services |-> {} ]

(* A stay to come, alone and beside another guest who has paid.            *)
Booked ==
  { [i \in 1..MaxId |-> IF i = 1 THEN Kept(u1, r1, 1050, "confirmed") ELSE NoRow],
    [i \in 1..MaxId |-> CASE i = 1 -> Kept(u2, r1, 1050, "confirmed")
                          [] i = 2 -> Kept(u1, r2, 1100, "completed")
                          [] OTHER -> NoRow] }

Points == {12}
=============================================================================
