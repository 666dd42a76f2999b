------------------------------ MODULE Reports ------------------------------
(***************************************************************************)
(* The four reports of ReportController: each one SELECT, that is, a       *)
(* function of the committed tables.  A list of rows is a function on the  *)
(* group it is about, or a set; its order is left out.                     *)
(***************************************************************************)
EXTENDS HotelTables, FiniteSetsExt

CONSTANTS
  MonthOf(_),       \* TO_CHAR(day, 'YYYY-MM')
  NameOf,           \* room_categories.name
  Best              \* LIMIT of the best clients; 5 in the code

Rows == {i \in BookingIds : bookings[i] # NoRow}

CostOf(S) == MapThenSumSet(LAMBDA i : bookings[i].total_cost, S)

-----------------------------------------------------------------------------
(* /financials and /top_clients: WHERE status = 'completed'; a form that   *)
(* counts the stays still to come.                                         *)

NotCancelled == {i \in Rows : bookings[i].status # "cancelled"}

Completed == {i \in Rows : bookings[i].status = "completed"}

MonthIn(i) == MonthOf(bookings[i].check_in_date)

MonthlyRevenue ==
  [m \in {MonthIn(i) : i \in Completed} |-> CostOf({i \in Completed : MonthIn(i) = m})]

(* A form that leaves out the status.                                      *)
TotalSpentOnAll ==
  [u \in {bookings[i].user_id : i \in Rows} |->
     CostOf({i \in Rows : bookings[i].user_id = u})]

TotalSpent ==
  [u \in {bookings[i].user_id : i \in Completed} |->
     CostOf({i \in Completed : bookings[i].user_id = u})]

(* ORDER BY total_spent DESC LIMIT: the lists that the database may return,*)
(* in which nobody is outspent by a guest left out.  Guests who have spent *)
(* alike come in any order, so that there may be several.                  *)
TopClients ==
  LET spent == TotalSpent
      payers == DOMAIN spent
  IN {best \in kSubset(Min({Best, Cardinality(payers)}), payers) :
        \A u \in best, v \in payers \ best : spent[v] <= spent[u]}

-----------------------------------------------------------------------------
(* /category_popularity: bookings of any status, through their room's row; *)
(* categories of one name are one group.  A form that leaves out the       *)
(* bookings that were cancelled.                                           *)

PopularityOfKept ==
  [n \in {NameOf[c] : c \in Categories} |->
     Cardinality({i \in NotCancelled : \E c \in Categories :
                                 /\ rooms[bookings[i].room_id] = c
                                 /\ NameOf[c] = n})]

Popularity ==
  [n \in {NameOf[c] : c \in Categories} |->
     Cardinality({i \in Rows : \E c \in Categories :
                                 /\ rooms[bookings[i].room_id] = c
                                 /\ NameOf[c] = n})]

-----------------------------------------------------------------------------
(* /occupancy on a day: a row for each room and booking of that day, or    *)
(* one row for the room.                                                   *)

(* The ON clause; a form that counts the day of departure.                 *)
StaysOrLeaves(i, room, today) ==
  /\ bookings[i].room_id = room /\ bookings[i].status # "cancelled"
  /\ bookings[i].check_in_date <= today /\ today <= bookings[i].check_out_date

Stays(i, room, today) ==
  /\ bookings[i].room_id = room /\ bookings[i].status # "cancelled"
  /\ bookings[i].check_in_date <= today /\ today < bookings[i].check_out_date

Occupancy(today) ==
  LET guests(r) == {i \in Rows : Stays(i, r, today)} IN
  UNION { IF guests(r) = {}
          THEN {[room_id |-> r, booking_id |-> 0, status |-> "available"]}
          ELSE [room_id : {r}, booking_id : guests(r), status : {"occupied"}] :
          r \in {x \in Rooms : rooms[x] # NoRow} }
=============================================================================
