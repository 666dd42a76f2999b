--------------------------- MODULE BookingService ---------------------------
(***************************************************************************)
(* BookingService and the repositories under it, one SQL statement per     *)
(* step.  A worker is a thread of the Crow server: it takes a request,     *)
(* opens a connection with a pqxx::work (BEGIN, READ COMMITTED), runs the  *)
(* statements of the operation and commits, or aborts on an exception.     *)
(* Statements of different workers interleave; each reads the rows         *)
(* committed by then and the writes of its own transaction.  An UPDATE or  *)
(* DELETE holds the lock of the row it wrote until the transaction ends,   *)
(* and waits while another transaction holds it.  getBookingById and       *)
(* getUserById run on a second connection of their own, outside the        *)
(* transaction.                                                            *)
(***************************************************************************)
EXTENDS HotelTables, FiniteSets

CONSTANTS
  Workers,          \* threads of the Crow server
  Requests,         \* the requests that clients send
  MaxGrowth,        \* bound on the requests that make the tables grow
  InitialBookings,  \* tables the server may be started on
  InitialBonuses    \* balances an account may start with

CreateRequest ==
  [ op : {"create"}, user_id : Users, room_id : Rooms,
    check_in_date : Int, check_out_date : Int,
    services : SUBSET Services, use_bonuses : BOOLEAN ]

UpdateRequest ==
  [ op : {"update"}, booking_id : BookingIds, user_id : Users, room_id : Rooms,
    check_in_date : Int, check_out_date : Int, status : Statuses ]

CancelRequest == [op : {"cancel"}, booking_id : BookingIds, user_id : Users]

ExtendRequest ==
  [ op : {"extend"}, booking_id : BookingIds, user_id : Users,
    check_out_date : Int ]

DeleteRequest == [op : {"delete"}, booking_id : BookingIds]

NoRequest == [op |-> "none"]

ASSUME RequestsAssumption ==
  \A r \in Requests :
    \/ r \in CreateRequest
    \/ r \in UpdateRequest
    \/ r \in CancelRequest
    \/ r \in ExtendRequest
    \/ r \in DeleteRequest

ASSUME BoundsAssumption == MaxGrowth \in Nat

ASSUME InitialAssumption ==
  /\ \A t \in InitialBookings : t \in [BookingIds -> Booking \cup {NoRow}]
  /\ \A b \in InitialBonuses : b \in Int \cup {Null}

-----------------------------------------------------------------------------

VARIABLES
  pc,          \* the statement a worker is about to execute
  req,         \* the request it serves
  local,       \* the local variables of the service method
  rowWrite,    \* uncommitted row of bookings: a function on the ids written
  bonusWrite,  \* uncommitted balance: a function on the users written
  reply,       \* HTTP status of the worker's last answer, 0 while it works
  grown,       \* number of requests taken that count against MaxGrowth
  seen         \* history: table bookings as the availability check saw it

vars == <<tables, pc, req, local, rowWrite, bonusWrite, reply, grown, seen>>

session == <<rowWrite, bonusWrite>>

NoLocals ==
  [totalCost |-> 0, oldBooking |-> NoRow, currentBonuses |-> 0, points |-> 0]

NoWrites == [x \in {} |-> NoRow]

NoBookings == [i \in BookingIds |-> NoRow]

Locals ==
  [ totalCost : Nat, oldBooking : Booking \cup {NoRow},
    currentBonuses : Int, points : Int ]

Statements ==
  { "idle", "isRoomAvailable", "calculateTotalCost", "getUserById",
    "selectBonuses", "addBonuses", "createBooking", "addServices",
    "getBookingById", "write", "commit" }

Codes == {0, 200, 201, 204, 404, 409, 500}

(* The type invariant.                                                     *)
TypeOK ==
  /\ TablesTypeOK
  /\ pc \in [Workers -> Statements]
  /\ req \in [Workers -> Requests \cup {NoRequest}]
  /\ local \in [Workers -> Locals]
  /\ DOMAIN rowWrite = Workers
  /\ DOMAIN bonusWrite = Workers
  /\ \A w \in Workers :
       /\ DOMAIN rowWrite[w] \subseteq BookingIds
       /\ rowWrite[w] \in [DOMAIN rowWrite[w] -> Booking \cup {NoRow}]
       /\ DOMAIN bonusWrite[w] \subseteq Users
       /\ bonusWrite[w] \in [DOMAIN bonusWrite[w] -> Int \cup {Null}]
  /\ reply \in [Workers -> Codes]
  /\ grown \in 0..MaxGrowth
  /\ seen \in [Workers -> [BookingIds -> Booking \cup {NoRow}]]

(* The server starts on any tables an earlier run left behind.             *)
Init ==
  /\ bookings \in InitialBookings
  /\ bonuses \in [Users -> InitialBonuses]
  /\ rooms \in [Rooms -> Categories \cup {NoRow}]
  /\ nextId \in 1..(MaxId + 1)
  /\ \A i \in BookingIds : i >= nextId => bookings[i] = NoRow
  /\ nextId > 1 => bookings[nextId - 1] # NoRow
  /\ pc = [w \in Workers |-> "idle"]
  /\ req = [w \in Workers |-> NoRequest]
  /\ local = [w \in Workers |-> NoLocals]
  /\ rowWrite = [w \in Workers |-> NoWrites]
  /\ bonusWrite = [w \in Workers |-> NoWrites]
  /\ reply = [w \in Workers |-> 0]
  /\ grown = 0
  /\ seen = [w \in Workers |-> NoBookings]

-----------------------------------------------------------------------------
(* Sessions of the database.                                               *)

(* Another transaction holds the lock of booking i.  A row it inserted is  *)
(* not visible yet and so is never waited for.                             *)
BookingLocked(w, i) ==
  /\ bookings[i] # NoRow
  /\ \E v \in Workers \ {w} : i \in DOMAIN rowWrite[v]

BalanceLocked(w, u) == \E v \in Workers \ {w} : u \in DOMAIN bonusWrite[v]

(* A controller that answers while the transaction is left open.           *)
AnswerKeepingLocks(w, code) ==
  /\ pc' = [pc EXCEPT ![w] = "idle"]
  /\ reply' = [reply EXCEPT ![w] = code]
  /\ req' = [req EXCEPT ![w] = NoRequest]
  /\ local' = [local EXCEPT ![w] = NoLocals]
  /\ seen' = [seen EXCEPT ![w] = NoBookings]
  /\ UNCHANGED session

(* The connection and the locals of the method go out of scope: nothing of *)
(* the transaction is left, and the controller answers.                    *)
Answer(w, code) ==
  /\ pc' = [pc EXCEPT ![w] = "idle"]
  /\ reply' = [reply EXCEPT ![w] = code]
  /\ req' = [req EXCEPT ![w] = NoRequest]
  /\ local' = [local EXCEPT ![w] = NoLocals]
  /\ rowWrite' = [rowWrite EXCEPT ![w] = NoWrites]
  /\ bonusWrite' = [bonusWrite EXCEPT ![w] = NoWrites]
  /\ seen' = [seen EXCEPT ![w] = NoBookings]

(* Roll back and answer; the sequence keeps the values it gave out.        *)
Abort(w, code) == Answer(w, code) /\ UNCHANGED <<tables, grown>>

GoTo(w, statement) == pc' = [pc EXCEPT ![w] = statement]

-----------------------------------------------------------------------------
(* The controller takes a request and calls the service.                   *)

FirstStatement(op) ==
  CASE op = "create" -> "isRoomAvailable"
    [] op = "delete" -> "write"
    [] OTHER -> "getBookingById"

Grows(r) == r.op \in {"create", "update"}

Receive(w) ==
  /\ pc[w] = "idle"
  /\ \E r \in Requests :
       /\ Grows(r) => grown < MaxGrowth
       /\ grown' = IF Grows(r) THEN grown + 1 ELSE grown
       /\ req' = [req EXCEPT ![w] = r]
       /\ GoTo(w, FirstStatement(r.op))
  /\ reply' = [reply EXCEPT ![w] = 0]
  /\ UNCHANGED <<tables, local, session, seen>>

-----------------------------------------------------------------------------
(* createNewBooking up to its first write.                                 *)

(* A check that compares the day of arrival only.                          *)
RoomIsFreeOnArrival(r) ==
  ~\E i \in BookingIds : Overlaps(bookings[i], r.room_id, r.check_in_date,
                                 r.check_in_date + 1)

RoomIsFree(r) ==
  ~\E i \in BookingIds : Overlaps(bookings[i], r.room_id, r.check_in_date,
                                 r.check_out_date)

IsRoomAvailable(w) ==
  /\ pc[w] = "isRoomAvailable"
  /\ IF ~RoomIsFree(req[w])
     THEN Abort(w, 409)
     ELSE /\ seen' = [seen EXCEPT ![w] = bookings]
          /\ GoTo(w, "calculateTotalCost")
          /\ UNCHANGED <<tables, req, local, session, reply, grown>>

(* The stay that calculateTotalCost is asked to price.  adminUpdateBooking *)
(* passes no services; extendBooking passes those of the row it read.  The *)
(* first form prices the row that was read, as it is.                      *)
StayAsRead(w) ==
  LET r == IF req[w].op = "create" THEN req[w] ELSE local[w].oldBooking IN
  [ room_id |-> r.room_id, check_in_date |-> r.check_in_date,
    check_out_date |-> r.check_out_date, services |-> r.services ]

Stay(w) ==
  LET r == req[w] IN
  IF r.op = "extend"
  THEN [ room_id |-> local[w].oldBooking.room_id,
         check_in_date |-> local[w].oldBooking.check_in_date,
         check_out_date |-> r.check_out_date,
         services |-> local[w].oldBooking.services ]
  ELSE [ room_id |-> r.room_id, check_in_date |-> r.check_in_date,
         check_out_date |-> r.check_out_date,
         services |-> IF r.op = "create" THEN r.services ELSE {} ]

AfterPrice(r) ==
  CASE r.op # "create" -> "write"
    [] r.op = "create" /\ r.use_bonuses -> "getUserById"
    [] OTHER -> "createBooking"

(* The controller answers 409 to a BookingException of createNewBooking    *)
(* and 500 to one of any other operation.                                  *)
CalculateTotalCost(w) ==
  LET s == Stay(w) IN
  /\ pc[w] = "calculateTotalCost"
  /\ IF rooms[s.room_id] = NoRow
     THEN Abort(w, IF req[w].op = "create" THEN 409 ELSE 500)
     ELSE /\ local' = [local EXCEPT ![w].totalCost =
                         PriceOf(s.room_id, s.check_in_date, s.check_out_date,
                                 s.services)]
          /\ GoTo(w, AfterPrice(req[w]))
          /\ UNCHANGED <<tables, req, session, reply, grown, seen>>

(* getUserById swallows every exception and returns null; the booking is   *)
(* then made at the full price.                                            *)
GetUserById(w) ==
  /\ pc[w] = "getUserById"
  /\ \/ GoTo(w, "selectBonuses")
     \/ GoTo(w, "createBooking")
  /\ UNCHANGED <<tables, req, local, session, reply, grown, seen>>

HasPoints(balance) == balance # Null /\ balance > 0

SelectBonuses(w) ==
  LET balance == bonuses[req[w].user_id]
      discount == Discount(balance, local[w].totalCost)
  IN
  /\ pc[w] = "selectBonuses"
  /\ IF HasPoints(balance)
     THEN /\ local' = [local EXCEPT ![w] =
               [ totalCost |-> @.totalCost - discount,
                 oldBooking |-> NoRow,
                 currentBonuses |-> balance,
                 points |-> -PointsSpent(discount) ]]
          /\ GoTo(w, "addBonuses")
     ELSE GoTo(w, "createBooking") /\ UNCHANGED local
  /\ UNCHANGED <<tables, req, session, reply, grown, seen>>

(* UPDATE users SET bonuses = bonuses + points: NULL stays NULL.  The      *)
(* first form stores a balance computed from the one read earlier.         *)
AddToStaleBalance(w) ==
  LET u == req[w].user_id IN
  /\ pc[w] = "addBonuses"
  /\ ~BalanceLocked(w, u)
  /\ bonusWrite' = [bonusWrite EXCEPT ![w] =
       [x \in {u} |-> IF bonuses[u] = Null THEN Null
                      ELSE IF req[w].op = "create"
                      THEN local[w].currentBonuses + local[w].points
                      ELSE bonuses[u] + local[w].points]]
  /\ GoTo(w, IF req[w].op = "create" THEN "createBooking" ELSE "commit")
  /\ UNCHANGED <<tables, req, local, rowWrite, reply, grown, seen>>

AddBonuses(w) ==
  LET u == req[w].user_id IN
  /\ pc[w] = "addBonuses"
  /\ ~BalanceLocked(w, u)
  /\ bonusWrite' = [bonusWrite EXCEPT ![w] =
       [x \in {u} |-> IF bonuses[u] = Null THEN Null
                      ELSE bonuses[u] + local[w].points]]
  /\ GoTo(w, IF req[w].op = "create" THEN "createBooking" ELSE "commit")
  /\ UNCHANGED <<tables, req, local, rowWrite, reply, grown, seen>>

-----------------------------------------------------------------------------
(* createNewBooking's inserts.  A sequence that has run out makes the      *)
(* INSERT fail, which is a Fail step.                                      *)

CreateBooking(w) ==
  LET r == req[w] IN
  /\ pc[w] = "createBooking"
  /\ nextId \in BookingIds
  /\ nextId' = nextId + 1
  /\ rowWrite' = [rowWrite EXCEPT ![w] =
       [i \in {nextId} |->
          [ user_id |-> r.user_id, room_id |-> r.room_id,
            check_in_date |-> r.check_in_date,
            check_out_date |-> r.check_out_date,
            total_cost |-> local[w].totalCost,
            status |-> "confirmed", services |-> {} ]]]
  /\ GoTo(w, IF r.services = {} THEN "commit" ELSE "addServices")
  /\ UNCHANGED <<bookings, bonuses, rooms, req, local, bonusWrite, reply,
                 grown, seen>>

AddServicesToBooking(w) ==
  /\ pc[w] = "addServices"
  /\ rowWrite' = [rowWrite EXCEPT ![w] =
       [i \in DOMAIN rowWrite[w] |->
          [rowWrite[w][i] EXCEPT !.services = req[w].services]]]
  /\ GoTo(w, "commit")
  /\ UNCHANGED <<tables, req, local, bonusWrite, reply, grown, seen>>

-----------------------------------------------------------------------------
(* The operations on an existing booking.                                  *)

(* The methods that a client calls for his own booking compare the owner;  *)
(* a form that does not.                                                   *)
AdmittedUnchecked(r, row) == row # NoRow

Admitted(r, row) ==
  /\ row # NoRow
  /\ r.op \in {"cancel", "extend"} => row.user_id = r.user_id

(* A failed lookup returns null, like an absent row.                       *)
GetBookingById(w) ==
  LET r == req[w] row == bookings[r.booking_id] IN
  /\ pc[w] = "getBookingById"
  /\ IF Admitted(r, row)
     THEN /\ local' = [local EXCEPT ![w].oldBooking = row]
          /\ GoTo(w, IF r.op = "cancel" THEN "write" ELSE "calculateTotalCost")
          /\ UNCHANGED <<tables, req, session, reply, grown, seen>>
     ELSE Abort(w, 500)

(* UPDATE or DELETE ... WHERE booking_id = i, once no other transaction    *)
(* holds the row: it works on the row committed last, and on none if the   *)
(* row is gone.                                                            *)
WriteRow(w, row) ==
  LET i == req[w].booking_id IN
  /\ pc[w] = "write"
  /\ ~BookingLocked(w, i)
  /\ rowWrite' = [rowWrite EXCEPT ![w] =
       IF bookings[i] = NoRow THEN NoWrites ELSE [x \in {i} |-> row]]

(* The booking is being completed by this request, as far as it knows; a   *)
(* form that forgets the status it had.                                    *)
CompletesAgain(w) == req[w].status = "completed"

Completes(w) ==
  /\ req[w].status = "completed"
  /\ local[w].oldBooking.status # "completed"

AdminUpdateBooking(w) ==
  LET r == req[w] IN
  /\ r.op = "update"
  /\ WriteRow(w, [bookings[r.booking_id] EXCEPT
                    !.user_id = r.user_id, !.room_id = r.room_id,
                    !.check_in_date = r.check_in_date,
                    !.check_out_date = r.check_out_date,
                    !.total_cost = local[w].totalCost,
                    !.status = r.status])
  /\ IF Completes(w)
     THEN /\ local' = [local EXCEPT ![w].points =
                                      PointsGained(local[w].totalCost)]
          /\ GoTo(w, "addBonuses")
     ELSE GoTo(w, "commit") /\ UNCHANGED local
  /\ UNCHANGED <<tables, req, bonusWrite, reply, grown, seen>>

UpdateStatus(w) ==
  /\ req[w].op = "cancel"
  /\ WriteRow(w, [bookings[req[w].booking_id] EXCEPT !.status = "cancelled"])
  /\ GoTo(w, "commit")
  /\ UNCHANGED <<tables, req, local, bonusWrite, reply, grown, seen>>

(* UPDATE of two columns; a form that stores the whole row read before.    *)
StoreOldRow(w) ==
  /\ req[w].op = "extend"
  /\ WriteRow(w, [local[w].oldBooking EXCEPT
                    !.check_out_date = req[w].check_out_date,
                    !.total_cost = local[w].totalCost])
  /\ GoTo(w, "commit")
  /\ UNCHANGED <<tables, req, local, bonusWrite, reply, grown, seen>>

UpdateDateAndCost(w) ==
  /\ req[w].op = "extend"
  /\ WriteRow(w, [bookings[req[w].booking_id] EXCEPT
                    !.check_out_date = req[w].check_out_date,
                    !.total_cost = local[w].totalCost])
  /\ GoTo(w, "commit")
  /\ UNCHANGED <<tables, req, local, bonusWrite, reply, grown, seen>>

DeleteBooking(w) ==
  /\ req[w].op = "delete"
  /\ WriteRow(w, NoRow)
  /\ GoTo(w, "commit")
  /\ UNCHANGED <<tables, req, local, bonusWrite, reply, grown, seen>>

-----------------------------------------------------------------------------
(* The end of a transaction.                                               *)

InstallRows(w) ==
  /\ bookings' = [i \in BookingIds |-> IF i \in DOMAIN rowWrite[w]
                                       THEN rowWrite[w][i] ELSE bookings[i]]
  /\ bonuses' = [u \in Users |-> IF u \in DOMAIN bonusWrite[w]
                                 THEN bonusWrite[w][u] ELSE bonuses[u]]
  /\ UNCHANGED <<rooms, nextId, grown>>

(* Answer of the controller after the service returned.                    *)
SuccessCode(w) ==
  LET found == DOMAIN rowWrite[w] # {} IN
  CASE req[w].op = "create" -> 201
    [] req[w].op = "update" -> IF found THEN 200 ELSE 404
    [] req[w].op = "delete" -> IF found THEN 204 ELSE 404
    [] OTHER -> 200

Commit(w) ==
  /\ pc[w] = "commit"
  /\ InstallRows(w)
  /\ Answer(w, SuccessCode(w))

(* The COMMIT is executed but its confirmation is lost: pqxx throws        *)
(* in_doubt_error, the abort of the handler does nothing.                  *)
CommitInDoubt(w) ==
  /\ pc[w] = "commit"
  /\ InstallRows(w)
  /\ Answer(w, 500)

(* The connection is refused or lost, or a statement is refused by the     *)
(* database.  getUserById alone survives this, see there.                  *)
Fail(w) ==
  /\ pc[w] \notin {"idle", "getUserById"}
  /\ Abort(w, 500)

(* The server process dies; the database rolls its sessions back.          *)
Die ==
  /\ pc' = [w \in Workers |-> "idle"]
  /\ req' = [w \in Workers |-> NoRequest]
  /\ local' = [w \in Workers |-> NoLocals]
  /\ rowWrite' = [w \in Workers |-> NoWrites]
  /\ bonusWrite' = [w \in Workers |-> NoWrites]
  /\ reply' = [w \in Workers |-> 0]
  /\ seen' = [w \in Workers |-> NoBookings]
  /\ UNCHANGED <<tables, grown>>

Crash == (\E w \in Workers : pc[w] # "idle") /\ Die

-----------------------------------------------------------------------------

Write(w) ==
  \/ AdminUpdateBooking(w)
  \/ UpdateStatus(w)
  \/ UpdateDateAndCost(w)
  \/ DeleteBooking(w)

Create(w) ==
  \/ IsRoomAvailable(w)
  \/ GetUserById(w)
  \/ SelectBonuses(w)
  \/ CreateBooking(w)
  \/ AddServicesToBooking(w)

(* A worker's progress through its request, failures aside.                *)
Advance(w) ==
  \/ Create(w)
  \/ GetBookingById(w)
  \/ CalculateTotalCost(w)
  \/ AddBonuses(w)
  \/ Write(w)
  \/ Commit(w)

(* Whatever worker w, its client, the database or the network may do.      *)
Serve(w) == Receive(w) \/ Advance(w) \/ CommitInDoubt(w) \/ Fail(w)

Next == (\E w \in Workers : Serve(w)) \/ Crash

Spec == Init /\ [][Next]_vars

-----------------------------------------------------------------------------
(* Properties.                                                             *)

(* Worker w commits in this step, with an effect on the tables.            *)
Commits(w) ==
  /\ pc[w] = "commit"
  /\ pc'[w] = "idle"
  /\ <<bookings, bonuses>>' # <<bookings, bonuses>>

(* The row worker w works on is still the one getBookingById returned.     *)
Unraced(w) == bookings[req[w].booking_id] = local[w].oldBooking

(* createNewBooking checks the room (BookingService.cpp:23) and inserts    *)
(* the booking several statements later.  Two bookings of one room for the *)
(* same night can only come about when the other one was written by a      *)
(* transaction that committed in between: a row that was there, unchanged, *)
(* at the check never overlaps the new one.                                *)
DoubleBookingNeedsRace ==
  [][ \A w \in Workers, i, j \in BookingIds :
        /\ Commits(w) /\ req[w].op = "create"
        /\ bookings[i] = NoRow /\ bookings'[i] # NoRow
        /\ Overlaps(bookings[j], bookings'[i].room_id,
                    bookings'[i].check_in_date, bookings'[i].check_out_date)
        => bookings[j] # seen[w][j] ]_vars

(* Bookings i and j hold one room for the same night.                      *)
Clash(i, j) ==
  /\ i # j /\ bookings[i] # NoRow /\ bookings[i].status # "cancelled"
  /\ Overlaps(bookings[j], bookings[i].room_id,
              bookings[i].check_in_date, bookings[i].check_out_date)

(* The commit of worker w can make its booking i overlap j: a new booking, *)
(* when j was written behind the back of the check; an update, which never *)
(* checks; an extension, when j begins on one of the added nights.         *)
Brings(w, i, j) ==
  \/ /\ req[w].op = "create"
     /\ bookings[i] = NoRow
     /\ bookings[j] # seen[w][j]
  \/ /\ req[w].op = "update"
     /\ i = req[w].booking_id
  \/ /\ req[w].op = "extend"
     /\ i = req[w].booking_id
     /\ bookings[i].check_out_date <= bookings[j].check_in_date
     /\ bookings[j].check_in_date < bookings'[i].check_out_date

(* extendBooking and adminUpdateBooking never ask whether the room is free *)
(* (BookingService.cpp:156, 108), createNewBooking asks too early.  These  *)
(* are the only ways into an overlap, each of them only as far as Brings   *)
(* says: no cancellation, removal or failure, and no extension over nights *)
(* the booking had already, makes two live bookings meet.                  *)
OverlapHasOrigin ==
  [][ \A i, j \in BookingIds :
        ~Clash(i, j) /\ Clash(i, j)'
        => \E w \in Workers : Commits(w) /\ (Brings(w, i, j) \/ Brings(w, j, i)) ]_vars

(* addBonuses (UserRepository.cpp:114) adds to the balance of the moment,  *)
(* inside the transaction.  However many workers spend and earn points of  *)
(* one account at once, no change is lost or applied twice: each commit    *)
(* moves the balance of its own user by exactly the points it computed.    *)
NoLostBonus ==
  [][ \A w \in Workers :
        Commits(w) /\ local[w].points # 0
        => bonuses' = [bonuses EXCEPT ![req[w].user_id] =
                         IF @ = Null THEN Null ELSE @ + local[w].points] ]_vars

(* createNewBooking takes points and writes the reduced price in separate  *)
(* statements (BookingService.cpp:38-48).  Whatever fails or crashes       *)
(* between them, a booking appears together with its services, at the      *)
(* price of its stay less a discount, and exactly the points of that       *)
(* discount, its fraction dropped, leave the account in the same step; no  *)
(* balance sinks otherwise.                                                *)
DiscountIsPaidFor ==
  [][ \A w \in Workers :
        /\ Commits(w)
        /\ \/ req[w].op = "create"
           \/ \E u \in Users : bonuses[u] # Null /\ bonuses'[u] < bonuses[u]
        => \E i \in BookingIds :
             /\ bookings[i] = NoRow /\ bookings'[i] # NoRow
             /\ bookings'[i].services = req[w].services
             /\ LET row == bookings'[i]
                    u == row.user_id
                    off == PriceOf(row.room_id, row.check_in_date,
                                   row.check_out_date, row.services)
                           - row.total_cost
                    spent == IF bonuses[u] = Null THEN 0
                             ELSE bonuses[u] - bonuses'[u]
                IN /\ 0 <= spent /\ spent * PointValue <= off
                   /\ off < (spent + 1) * PointValue
             /\ \A u \in Users \ {bookings'[i].user_id} :
                  bonuses'[u] = bonuses[u] ]_vars

(* adminUpdateBooking credits the stay's points when it completes the      *)
(* booking (BookingService.cpp:110), going by a status read before its     *)
(* transaction wrote.  As long as the row did not change in between, an    *)
(* update credits exactly when it turns the booking from another status to *)
(* completed, and then a tenth of the price it wrote.                      *)
UnracedCreditIsEarned ==
  [][ \A w \in Workers :
        LET i == req[w].booking_id
            earned == bookings'[i].total_cost \div (10 * PointValue)
        IN /\ Commits(w) /\ req[w].op = "update" /\ Unraced(w)
           => bonuses' =
                IF /\ bookings[i].status # "completed"
                   /\ bookings'[i].status = "completed"
                THEN [bonuses EXCEPT ![req[w].user_id] =
                        IF @ = Null THEN Null ELSE @ + earned]
                ELSE bonuses ]_vars

(* A balance that was not negative becomes negative only when the account  *)
(* was written between the SELECT of createNewBooking                      *)
(* (BookingService.cpp:32) and its UPDATE: the points it took were more    *)
(* than the balance of the moment because it had read another one.         *)
OverdraftNeedsRace ==
  [][ \A u \in Users :
        /\ bonuses[u] # Null /\ bonuses[u] >= 0
        /\ bonuses'[u] # Null /\ bonuses'[u] < 0
        => \E w \in Workers : /\ Commits(w)
                              /\ req[w].op = "create"
                              /\ bonuses[u] # local[w].currentBonuses ]_vars

(* extendBooking writes two columns of the row as it is when the UPDATE    *)
(* runs (BookingRepository.cpp:157), not the row it read: only an update   *)
(* by the administrator takes a booking out of the cancelled status, even  *)
(* when the cancellation falls into the middle of an extension.            *)
OnlyAdminReopens ==
  [][ \A i \in BookingIds :
        /\ bookings[i] # NoRow /\ bookings[i].status = "cancelled"
        /\ bookings'[i] # NoRow /\ bookings'[i].status # "cancelled"
        => \E w \in Workers : /\ Commits(w)
                              /\ req[w].op = "update"
                              /\ req[w].booking_id = i ]_vars

(* cancelBookingByUser and extendBooking compare the owner with a row read *)
(* on another connection (BookingService.cpp:133, 151).  They change a     *)
(* booking of somebody else only if that row was reassigned in between,    *)
(* and an extension leaves a price that is not the price of the row's own  *)
(* room, nights and services only if the row changed in between.           *)
OwnerActsUnlessRaced ==
  [][ \A w \in Workers :
        LET i == req[w].booking_id
            row == bookings'[i]
        IN /\ Commits(w) /\ req[w].op \in {"cancel", "extend"} /\ Unraced(w)
           => /\ row.user_id = req[w].user_id
              /\ req[w].op = "extend" =>
                   row.total_cost = PriceOf(row.room_id, row.check_in_date,
                                            row.check_out_date, row.services)
    ]_vars

WaitsForBooking(w, v) ==
  /\ pc[w] = "write" /\ v # w
  /\ bookings[req[w].booking_id] # NoRow
  /\ req[w].booking_id \in DOMAIN rowWrite[v]

WaitsForBalance(w, v) ==
  /\ pc[w] = "addBonuses" /\ v # w
  /\ req[w].user_id \in DOMAIN bonusWrite[v]

WaitsFor(w, v) == WaitsForBooking(w, v) \/ WaitsForBalance(w, v)

Blocked(w) == \E v \in Workers : WaitsFor(w, v)

(* Every operation locks its booking before the account, and the account   *)
(* last.  So there is no deadlock: a worker waits for one that is running, *)
(* or for one that waits for a running one, and no lock is held by a       *)
(* worker that has finished.                                               *)
WaitsEnd ==
  \A w, v \in Workers :
    WaitsFor(w, v) =>
      /\ pc[v] # "idle"
      /\ \A x \in Workers : WaitsFor(v, x) => pc[x] # "idle" /\ ~Blocked(x)

-----------------------------------------------------------------------------
(* What the code's answers claim.                                          *)

(* createNewBooking refuses a stay with "Room is not available for the     *)
(* selected dates" (BookingService.cpp:24): no two live bookings of a room *)
(* overlap.                                                                *)
NoDoubleBooking == \A i, j \in BookingIds : ~Clash(i, j)

(* The answer 404 "Booking not found" (BookingController.cpp:124, 139)     *)
(* means that the request changed nothing.                                 *)
NotFoundChangesNothing ==
  [][ \A w \in Workers :
        pc[w] # "idle" /\ reply'[w] = 404
        => UNCHANGED <<bookings, bonuses>> ]_vars

-----------------------------------------------------------------------------
(* Fairness: the threads of the server run, and a wait for a row lock is   *)
(* served in turn by the lock queue of the database.  Clients, failures    *)
(* and crashes are under no obligation.                                    *)
FairSpec ==
  /\ Spec
  /\ \A w \in Workers : /\ WF_vars(Advance(w))
                        /\ SF_vars(Write(w))
                        /\ SF_vars(AddBonuses(w))

(* Every request is answered: no lock order, retry of a wait or rollback   *)
(* leaves a worker of the server hanging.                                  *)
EveryRequestIsAnswered == \A w \in Workers : (pc[w] # "idle") ~> (pc[w] = "idle")
=============================================================================
