-------------------------- MODULE BookingInvariant --------------------------
(***************************************************************************)
(* The inductive invariant of BookingService: what the sessions of the     *)
(* workers hold at each statement, and how it relates to the committed     *)
(* tables.  The safety properties of BookingService rest on it.            *)
(***************************************************************************)
EXTENDS BookingService

(* Statements only createNewBooking reaches.                               *)
CreateOnly ==
  {"isRoomAvailable", "getUserById", "selectBonuses", "createBooking", "addServices"}

(* Each statement runs for the operations that contain it, and             *)
(* extendBooking prices a row it has found.                                *)
StatementsFit ==
  \A w \in Workers :
    LET op == req[w].op IN
    /\ pc[w] = "idle" <=> req[w] = NoRequest
    /\ pc[w] \in CreateOnly => op = "create"
    /\ pc[w] = "calculateTotalCost" => op \in {"create", "update", "extend"}
    /\ pc[w] = "getBookingById" => op \in {"update", "cancel", "extend"}
    /\ pc[w] = "write" => op \in {"update", "cancel", "extend", "delete"}
    /\ pc[w] = "addBonuses" => op \in {"create", "update"}
    /\ pc[w] = "calculateTotalCost" /\ op = "extend"
       => local[w].oldBooking # NoRow

(* The sequence is ahead of every committed booking.                       *)
SequenceFits == \A i \in BookingIds : i >= nextId => bookings[i] = NoRow

(* What an extension leaves alone in a row.                                *)
StaysInPlace(row, old) ==
  /\ row.status = old.status
  /\ row.room_id = old.room_id
  /\ row.check_in_date = old.check_in_date

(* A row of bookings that worker w has inserted or locked, with what its   *)
(* operation may have written to it.                                       *)
HeldRow(w, i) ==
  LET r == req[w] row == rowWrite[w][i] IN
  /\ i < nextId
  /\ r.op = "create" =>
       /\ pc[w] \in {"addServices", "commit"}
       /\ bookings[i] = NoRow
       /\ row.room_id = r.room_id
       /\ row.check_in_date = r.check_in_date
       /\ row.check_out_date = r.check_out_date
       /\ row.status = "confirmed"
  /\ r.op # "create" =>
       /\ pc[w] \in {"addBonuses", "commit"}
       /\ i = r.booking_id
       /\ bookings[i] # NoRow
  /\ row = NoRow <=> r.op = "delete"
  /\ r.op = "cancel" => row.status = "cancelled" /\ row.room_id = bookings[i].room_id
  /\ r.op = "extend" => StaysInPlace(row, bookings[i])

(* A balance that worker w has locked: its new value is the committed one  *)
(* moved by the worker's points.                                           *)
HeldBalance(w, u) ==
  /\ pc[w] \in {"createBooking", "addServices", "commit"}
  /\ u = req[w].user_id
  /\ bonusWrite[w][u] =
       IF bonuses[u] = Null THEN Null ELSE bonuses[u] + local[w].points

LocksFit ==
  /\ \A w \in Workers : /\ \A i \in DOMAIN rowWrite[w] : HeldRow(w, i)
                        /\ \A u \in DOMAIN bonusWrite[w] : HeldBalance(w, u)
                        /\ \A i, j \in DOMAIN rowWrite[w] : i = j
  /\ \A w, v \in Workers :
       w # v => /\ DOMAIN rowWrite[w] \cap DOMAIN rowWrite[v] = {}
                /\ DOMAIN bonusWrite[w] \cap DOMAIN bonusWrite[v] = {}

(* Points that a worker has computed are still to be added or have been;   *)
(* only a booking takes points, and no more than the balance it read.      *)
PointsFit ==
  \A w \in Workers :
    /\ local[w].points # 0 =>
         pc[w] = "addBonuses" \/ DOMAIN bonusWrite[w] = {req[w].user_id}
    /\ local[w].points < 0 =>
         /\ req[w].op = "create"
         /\ -local[w].points <= local[w].currentBonuses

(* Past the availability check, the table it saw has room for the stay.    *)
ChecksFit ==
  \A w \in Workers :
    req[w].op = "create" /\ pc[w] # "isRoomAvailable" =>
      \A j \in BookingIds : ~Overlaps(seen[w][j], req[w].room_id,
                                      req[w].check_in_date,
                                      req[w].check_out_date)

(* The inductive invariant: transactions that write have exclusive locks   *)
(* on what they wrote, on top of the state last committed.                 *)
Inv ==
  /\ TypeOK
  /\ StatementsFit
  /\ SequenceFits
  /\ LocksFit
  /\ PointsFit
  /\ ChecksFit
=============================================================================
