-------------------------- MODULE MCBookingService --------------------------
(***************************************************************************)
(* Instances of BookingService for TLC: small request sets, each chosen    *)
(* for the interleavings one question needs.                               *)
(***************************************************************************)
EXTENDS BookingRefinement, TLC

CONSTANT u1    \* one of the users

(* A night at 10.50, so that a price is no whole number of points; one     *)
(* service costs 2.40.                                                     *)
Price == [c \in Categories |-> 1050]
ServicePrice == [S \in SUBSET Services |-> 240 * Cardinality(S)]

WorkerSymmetry == Permutations(Workers)

-----------------------------------------------------------------------------
(* Requests.                                                               *)

Creates(users, stays, baskets, use) ==
  { [ op |-> "create", user_id |-> u, room_id |-> r, check_in_date |-> s[1],
      check_out_date |-> s[2], services |-> S, use_bonuses |-> b ] :
    u \in users, r \in Rooms, s \in stays, S \in baskets, b \in use }

Updates(ids, users, stays, statuses) ==
  { [ op |-> "update", booking_id |-> i, user_id |-> u, room_id |-> r,
      check_in_date |-> s[1], check_out_date |-> s[2], status |-> t ] :
    i \in ids, u \in users, r \in Rooms, s \in stays, t \in statuses }

Cancels(ids, users) ==
  { [op |-> "cancel", booking_id |-> i, user_id |-> u] : i \in ids, u \in users }

Extends(ids, users, days) ==
  { [op |-> "extend", booking_id |-> i, user_id |-> u, check_out_date |-> d] :
    i \in ids, u \in users, d \in days }

Deletes(ids) == { [op |-> "delete", booking_id |-> i] : i \in ids }

(* Bookings of a room against each other: adjacent, overlapping and        *)
(* inverted stays, paid with points, with one of them extended, moved,     *)
(* cancelled, reopened or removed in between.                              *)
CreateRace ==
  Creates(Users, {<<2, 4>>, <<4, 3>>}, {Services}, {TRUE})
    \cup Updates({1}, Users, {<<3, 5>>}, {"confirmed", "cancelled"})
    \cup Cancels({1, 2}, Users) \cup Extends({1}, Users, {3}) \cup Deletes({1})

(* One booking completed twice, reopened, reassigned, cancelled, extended  *)
(* and removed, and a booking that spends the points of the same account.  *)
BonusRace ==
  Creates({u1}, {<<5, 7>>}, {{}}, {TRUE})
    \cup Updates({1}, Users, {<<1, 2>>}, {"completed", "confirmed"})
    \cup Cancels({1}, {u1}) \cup Extends({1}, {u1}, {3}) \cup Deletes({1})

(* Everything, for one worker.                                             *)
Mixed ==
  Creates(Users, {<<1, 3>>, <<3, 2>>}, {{}, Services}, BOOLEAN)
    \cup Updates({1}, Users, {<<2, 3>>}, Statuses)
    \cup Cancels({1, 2}, Users) \cup Extends({1, 2}, Users, {3})
    \cup Deletes({1})

(* Operations that leave the size of the tables alone, so that the clients *)
(* never run out of requests.                                              *)
Endless ==
  Creates(Users, {<<1, 2>>}, {{}}, {TRUE})
    \cup Updates({1}, Users, {<<2, 3>>}, {"completed"})
    \cup Cancels({1}, Users) \cup Extends({1}, Users, {3}) \cup Deletes({1})

-----------------------------------------------------------------------------
(* Tables to start on: none, or one booking of each user.                  *)

Row(u, r, status) ==
  [ user_id |-> u, room_id |-> r, check_in_date |-> 1, check_out_date |-> 2,
    total_cost |-> 1290, status |-> status, services |-> Services ]

None == {NoBookings}

OneBooking ==
  { [NoBookings EXCEPT ![1] = Row(u, r, t)] :
      u \in Users, r \in Rooms, t \in {"confirmed", "cancelled"} }

NoneOrOneBooking == None \cup OneBooking

Balances == {12, Null}
(* More than a night with a service, less than two nights.                 *)
Points == {14}
=============================================================================
