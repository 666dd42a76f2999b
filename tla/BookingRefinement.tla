-------------------------- MODULE BookingRefinement --------------------------
(***************************************************************************)
(* BookingService against the abstract specification BookingBook, in which *)
(* an operation is one step on the tables.                                 *)
(***************************************************************************)
EXTENDS BookingInvariant

(* The refinement mapping: the committed tables are the book, sessions and *)
(* local variables are hidden.                                             *)
Book == INSTANCE BookingBook WITH
          bookings <- bookings, bonuses <- bonuses, rooms <- rooms, nextId <- nextId

(* One worker: the statements of an operation are never interleaved with   *)
(* those of another, and the tables go through the steps of BookingBook.   *)
ImplementsBook == Book!BookSpec

(* What worker w has read of the tables and relied on still holds: the     *)
(* room is free and the balance the one its discount was computed from;    *)
(* the row is the one it looked up.                                        *)
Current(w) ==
  /\ req[w].op = "create" =>
       /\ RoomIsFree(req[w])
       /\ local[w].currentBonuses \in {0, bonuses[req[w].user_id]}
  /\ req[w].op \in {"update", "cancel", "extend"} => Unraced(w)

(* However the statements of several workers are interleaved, a commit     *)
(* whose worker's reads are still current (BookingService.cpp:23, 32, 99,  *)
(* 129, 147) does to both tables at once what the whole operation would    *)
(* do if it ran alone at that moment.                                      *)
UnracedIsAtomic ==
  [][ \A w \in Workers : Commits(w) /\ Current(w) => Book!BookNext ]_vars
-----------------------------------------------------------------------------
(* The invariant the refinement rests on, on top of Inv.                   *)

(* The price of a booking without a discount.                              *)
FullPrice(r) ==
  PriceOf(r.room_id, r.check_in_date, r.check_out_date, r.services)

(* A booking at its full price that leaves the account alone, or one with  *)
(* the discount of the balance that was read.                              *)
Undiscounted(w) ==
  /\ local[w].totalCost = FullPrice(req[w])
  /\ local[w].points = 0 /\ local[w].currentBonuses = 0
  /\ pc[w] # "addBonuses" /\ DOMAIN bonusWrite[w] = {}

Discounted(w) ==
  LET off == Discount(local[w].currentBonuses, FullPrice(req[w])) IN
  /\ req[w].use_bonuses /\ local[w].currentBonuses > 0
  /\ local[w].totalCost = FullPrice(req[w]) - off
  /\ local[w].points = -PointsSpent(off)
  /\ pc[w] # "addBonuses" => DOMAIN bonusWrite[w] = {req[w].user_id}

(* The last statements of a booking, once its price is settled.            *)
Settled == {"addBonuses", "createBooking", "addServices", "commit"}

CreateExact(w) ==
  /\ pc[w] \notin {"isRoomAvailable", "calculateTotalCost"} =>
       rooms[req[w].room_id] # NoRow
  /\ pc[w] \in {"getUserById", "selectBonuses"} => req[w].use_bonuses
  /\ pc[w] \in Settled => Undiscounted(w) \/ Discounted(w)

UpdateExact(w) ==
  LET r == req[w] IN
  /\ pc[w] \in {"write", "addBonuses", "commit"} =>
       /\ rooms[r.room_id] # NoRow
       /\ local[w].totalCost =
            PriceOf(r.room_id, r.check_in_date, r.check_out_date, {})
  /\ \A i \in DOMAIN rowWrite[w] :
       rowWrite[w][i] =
         [ user_id |-> r.user_id, room_id |-> r.room_id,
           check_in_date |-> r.check_in_date,
           check_out_date |-> r.check_out_date,
           total_cost |-> local[w].totalCost, status |-> r.status,
           services |-> bookings[i].services ]

CancelExact(w) ==
  \A i \in DOMAIN rowWrite[w] :
    rowWrite[w][i] = [bookings[i] EXCEPT !.status = "cancelled"]

ExtendExact(w) ==
  /\ pc[w] \in {"write", "commit"} => rooms[local[w].oldBooking.room_id] # NoRow
  /\ \A i \in DOMAIN rowWrite[w] :
       rowWrite[w][i] = [bookings[i] EXCEPT !.check_out_date = req[w].check_out_date,
                                            !.total_cost = local[w].totalCost]

(* What worker w has computed and written is what BookingBook computes     *)
(* from the same reads.                                                    *)
Exact(w) ==
  /\ pc[w] \notin Settled => local[w].currentBonuses = 0
  /\ req[w].op = "create" => CreateExact(w)
  /\ req[w].op = "update" => UpdateExact(w)
  /\ req[w].op = "cancel" => CancelExact(w)
  /\ req[w].op = "extend" => ExtendExact(w)
  /\ req[w].op \in {"cancel", "extend", "delete"} => DOMAIN bonusWrite[w] = {}

ExactFits == \A w \in Workers : Exact(w)

(* What holds of a worker that is the only one: nothing it has read is     *)
(* ever overtaken.                                                         *)
Undisturbed(w) ==
  /\ req[w].op = "create" =>
       /\ pc[w] # "isRoomAvailable" => seen[w] = bookings
       /\ local[w].currentBonuses \in {0, bonuses[req[w].user_id]}
  /\ req[w].op \in {"update", "cancel", "extend"} /\ pc[w] # "getBookingById" =>
       Unraced(w)

AloneFits == \A w \in Workers : Undisturbed(w)
=============================================================================
