----------------------------- MODULE BookingBook -----------------------------
(***************************************************************************)
(* What the booking service promises to a client who sees only the tables: *)
(* every operation happens at once or not at all, on the state it is       *)
(* applied to.  A room is booked only if it is free, points are spent only *)
(* if they are there, a completed stay earns its points once.              *)
(* BookingService implements this specification when one worker serves the *)
(* requests.                                                               *)
(***************************************************************************)
EXTENDS HotelTables

CONSTANTS Requests, InitialBookings, InitialBonuses

book == <<bookings, bonuses>>

Free(room, checkIn, checkOut) ==
  \A i \in BookingIds : ~Overlaps(bookings[i], room, checkIn, checkOut)

Pay(u, points) ==
  bonuses' = [bonuses EXCEPT ![u] = IF @ = Null THEN Null ELSE @ + points]

(* A booking, at its full price or with as many points as there are.       *)
Book(r) ==
  LET price == PriceOf(r.room_id, r.check_in_date, r.check_out_date, r.services)
      points == bonuses[r.user_id]
      Insert(i, cost) ==
        bookings' = [bookings EXCEPT ![i] =
          [ user_id |-> r.user_id, room_id |-> r.room_id,
            check_in_date |-> r.check_in_date,
            check_out_date |-> r.check_out_date, total_cost |-> cost,
            status |-> "confirmed", services |-> r.services ]]
  IN
  /\ r.op = "create"
  /\ rooms[r.room_id] # NoRow
  /\ Free(r.room_id, r.check_in_date, r.check_out_date)
  /\ \E i \in BookingIds :
       /\ bookings[i] = NoRow
       /\ \/ Insert(i, price) /\ UNCHANGED bonuses
          \/ /\ r.use_bonuses /\ points # Null /\ points > 0
             /\ LET off == Discount(points, price) IN
                  /\ Insert(i, price - off)
                  /\ Pay(r.user_id, -PointsSpent(off))

Rewrite(r) ==
  LET i == r.booking_id
      cost == PriceOf(r.room_id, r.check_in_date, r.check_out_date, {})
  IN
  /\ r.op = "update"
  /\ rooms[r.room_id] # NoRow
  /\ bookings[i] # NoRow
  /\ bookings' = [bookings EXCEPT ![i] =
       [ user_id |-> r.user_id, room_id |-> r.room_id,
         check_in_date |-> r.check_in_date, check_out_date |-> r.check_out_date,
         total_cost |-> cost, status |-> r.status, services |-> @.services ]]
  /\ IF r.status = "completed" /\ bookings[i].status # "completed"
     THEN Pay(r.user_id, PointsGained(cost))
     ELSE UNCHANGED bonuses

OwnRow(r) ==
  /\ bookings[r.booking_id] # NoRow
  /\ bookings[r.booking_id].user_id = r.user_id

Cancel(r) ==
  /\ r.op = "cancel" /\ OwnRow(r)
  /\ bookings' = [bookings EXCEPT ![r.booking_id].status = "cancelled"]
  /\ UNCHANGED bonuses

Extend(r) ==
  LET row == bookings[r.booking_id] IN
  /\ r.op = "extend" /\ OwnRow(r)
  /\ rooms[row.room_id] # NoRow
  /\ bookings' = [bookings EXCEPT ![r.booking_id] =
       [row EXCEPT !.check_out_date = r.check_out_date,
                   !.total_cost = PriceOf(row.room_id, row.check_in_date,
                                          r.check_out_date, row.services)]]
  /\ UNCHANGED bonuses

Remove(r) ==
  /\ r.op = "delete"
  /\ bookings' = [bookings EXCEPT ![r.booking_id] = NoRow]
  /\ UNCHANGED bonuses

BookInit ==
  /\ bookings \in InitialBookings
  /\ bonuses \in [Users -> InitialBonuses]

BookNext ==
  \E r \in Requests : Book(r) \/ Rewrite(r) \/ Cancel(r) \/ Extend(r) \/ Remove(r)

BookSpec == BookInit /\ [][BookNext]_book
=============================================================================
