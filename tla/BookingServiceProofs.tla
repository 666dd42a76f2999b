------------------------ MODULE BookingServiceProofs ------------------------
(***************************************************************************)
(* Theorems about BookingService, for every number of workers, users,      *)
(* rooms and bookings, every price list and every set of requests.         *)
(***************************************************************************)
EXTENDS BookingInvariant, TLAPS

-----------------------------------------------------------------------------
(* Arithmetic and types of the parts the model is built from.              *)

(* A discount (BookingService.cpp:36) is never more than the price and     *)
(* never costs more points than the balance it was computed from.          *)
LEMMA DiscountBounds ==
  ASSUME NEW points \in Nat, NEW totalCost \in Nat
  PROVE  /\ Discount(points, totalCost) \in Nat
         /\ Discount(points, totalCost) <= totalCost
         /\ PointsSpent(Discount(points, totalCost)) \in Nat
         /\ PointsSpent(Discount(points, totalCost)) <= points
  BY DEF Discount, PointsSpent, PointValue

(* A completed stay never costs its guest points.                          *)
LEMMA PointsGainedIsNat ==
  ASSUME NEW totalCost \in Nat
  PROVE  PointsGained(totalCost) \in Nat
  BY DEF PointsGained, PointValue

(* Every price calculateTotalCost returns is a non-negative amount.        *)
LEMMA PriceIsNat ==
  ASSUME TablesTypeOK,
         NEW room \in Rooms, rooms[room] # NoRow,
         NEW checkIn \in Int, NEW checkOut \in Int,
         NEW services \in SUBSET Services
  PROVE  PriceOf(room, checkIn, checkOut, services) \in Nat
<1>1. BasePrice[rooms[room]] \in Nat
  BY PricesAssumption DEF TablesTypeOK
<1>2. ServicesPrice[services] \in Nat
  BY PricesAssumption
<1>3. Nights(checkIn, checkOut) \in Nat
  BY DEF Nights
<1>4. \A a, b, c \in Nat : a * b + c \in Nat
  OBVIOUS
<1> QED BY <1>1, <1>2, <1>3, <1>4 DEF PriceOf, StayPrice

(* A request has the fields of its operation.                              *)
LEMMA RequestShape ==
  ASSUME NEW r \in Requests \cup {NoRequest}
  PROVE  /\ r.op \in {"none", "create", "update", "cancel", "extend", "delete"}
         /\ r = NoRequest <=> r.op = "none"
         /\ r.op = "create" => r \in CreateRequest
         /\ r.op = "update" => r \in UpdateRequest
         /\ r.op = "cancel" => r \in CancelRequest
         /\ r.op = "extend" => r \in ExtendRequest
         /\ r.op = "delete" => r \in DeleteRequest
<1>1. CASE r = NoRequest
  BY <1>1 DEF NoRequest
<1>2. CASE r \in Requests /\ r # NoRequest
  BY <1>2, RequestsAssumption
     DEF CreateRequest, UpdateRequest, CancelRequest, ExtendRequest, DeleteRequest,
         NoRequest
<1> QED BY <1>1, <1>2

(* What a worker that holds nothing leaves of its session is well typed.   *)
LEMMA EmptySession ==
  /\ DOMAIN NoWrites = {}
  /\ NoWrites \in [{} -> Booking \cup {NoRow}]
  /\ NoWrites \in [{} -> Int \cup {Null}]
  /\ NoLocals \in Locals
  /\ NoLocals.points = 0
  /\ NoBookings \in [BookingIds -> Booking \cup {NoRow}]
  BY DEF NoWrites, NoLocals, Locals, NoBookings

-----------------------------------------------------------------------------
(* The invariant holds initially.                                          *)

LEMMA InitInv == Init => Inv
<1> SUFFICES ASSUME Init PROVE Inv
  OBVIOUS
<1> USE EmptySession DEF Init
<1>1. TypeOK
  <2>1. TablesTypeOK
    BY InitialAssumption DEF TablesTypeOK
  <2>2. grown \in 0..MaxGrowth
    BY BoundsAssumption
  <2> QED BY <2>1, <2>2 DEF TypeOK, Statements, Codes
<1>2. StatementsFit
  BY DEF StatementsFit, NoRequest, CreateOnly
<1>3. SequenceFits
  BY DEF SequenceFits
<1>4. LocksFit
  BY DEF LocksFit
<1>5. PointsFit
  BY DEF PointsFit
<1>6. ChecksFit
  BY DEF ChecksFit, NoRequest
<1> QED BY <1>1, <1>2, <1>3, <1>4, <1>5, <1>6 DEF Inv

-----------------------------------------------------------------------------
(* Every step preserves it: one lemma for each statement.                  *)

(* Taking a request touches nothing but the worker's own pc and req.       *)
LEMMA ReceiveInv ==
  ASSUME Inv, NEW w \in Workers, Receive(w)
  PROVE  Inv'
<1> USE DEF Inv
<1>1. PICK r \in Requests :
        /\ Grows(r) => grown < MaxGrowth
        /\ grown' = IF Grows(r) THEN grown + 1 ELSE grown
        /\ req' = [req EXCEPT ![w] = r]
        /\ pc' = [pc EXCEPT ![w] = FirstStatement(r.op)]
  BY DEF Receive, GoTo
<1>2. /\ pc[w] = "idle"
      /\ reply' = [reply EXCEPT ![w] = 0]
      /\ UNCHANGED <<tables, local, session, seen>>
  BY DEF Receive
<1>3. r.op \in {"create", "update", "cancel", "extend", "delete"} /\ r # NoRequest
  BY RequestsAssumption
     DEF CreateRequest, UpdateRequest, CancelRequest, ExtendRequest, DeleteRequest,
         NoRequest
<1>4. FirstStatement(r.op) \in {"isRoomAvailable", "write", "getBookingById"}
  BY <1>3 DEF FirstStatement
<1>5. DOMAIN rowWrite[w] = {} /\ DOMAIN bonusWrite[w] = {} /\ local[w].points = 0
  <2>1. \A i \in DOMAIN rowWrite[w] : HeldRow(w, i)
    BY DEF LocksFit
  <2>2. \A i \in DOMAIN rowWrite[w] : pc[w] \in {"addServices", "addBonuses", "commit"}
    BY <2>1 DEF HeldRow
  <2>3. DOMAIN bonusWrite[w] = {}
    BY <1>2 DEF LocksFit, HeldBalance
  <2> QED BY <1>2, <2>2, <2>3 DEF PointsFit, TypeOK, Locals
<1>6. TypeOK'
  BY <1>1, <1>2, <1>4, BoundsAssumption
     DEF TypeOK, TablesTypeOK, tables, session, Statements, Codes
<1>7. StatementsFit'
  BY <1>1, <1>2, <1>3 DEF StatementsFit, TypeOK, FirstStatement, CreateOnly
<1>8. SequenceFits'
  BY <1>2 DEF SequenceFits, tables
<1>9. LocksFit'
  BY <1>1, <1>2, <1>5 DEF LocksFit, HeldRow, HeldBalance, TypeOK, tables, session
<1>10. PointsFit'
  BY <1>1, <1>2, <1>5 DEF PointsFit, TypeOK, session
<1>11. ChecksFit'
  BY <1>1, <1>2, <1>3 DEF ChecksFit, TypeOK, FirstStatement
<1> QED BY <1>6, <1>7, <1>8, <1>9, <1>10, <1>11

(* Rolling back and answering gives up what the worker held.               *)
LEMMA AbortInv ==
  ASSUME Inv, NEW w \in Workers, NEW code \in Codes, Abort(w, code)
  PROVE  Inv'
<1> USE EmptySession DEF Inv, Abort, Answer
<1>1. TypeOK'
  BY DEF TypeOK, TablesTypeOK, tables, Statements
<1>2. StatementsFit'
  BY DEF StatementsFit, TypeOK, CreateOnly, NoRequest
<1>3. SequenceFits'
  BY DEF SequenceFits, tables
<1>4. LocksFit'
  BY DEF LocksFit, HeldRow, HeldBalance, TypeOK, tables
<1>5. PointsFit'
  BY DEF PointsFit, TypeOK
<1>6. ChecksFit'
  BY DEF ChecksFit, TypeOK, NoRequest
<1> QED BY <1>1, <1>2, <1>3, <1>4, <1>5, <1>6

(* A commit installs rows nobody else has locked, so that what the other   *)
(* workers hold still stands on the committed tables.                      *)
LEMMA CommitInv ==
  ASSUME Inv, NEW w \in Workers, pc[w] = "commit",
         NEW code \in Codes, InstallRows(w), Answer(w, code)
  PROVE  Inv'
<1> USE EmptySession DEF Inv, Answer
<1>1. TablesTypeOK'
  BY DEF InstallRows, TypeOK, TablesTypeOK
<1>2. TypeOK'
  BY <1>1 DEF InstallRows, TypeOK, Statements
<1>3. StatementsFit'
  BY DEF StatementsFit, TypeOK, CreateOnly, NoRequest
<1>4. SequenceFits'
  <2> SUFFICES ASSUME NEW i \in BookingIds, i >= nextId'
               PROVE  bookings'[i] = NoRow
    BY DEF SequenceFits
  <2>1. nextId' = nextId /\ nextId \in Int /\ i \in Int
    BY DEF InstallRows, TypeOK, TablesTypeOK, BookingIds
  <2>2. i \notin DOMAIN rowWrite[w]
    BY <2>1 DEF LocksFit, HeldRow
  <2> QED BY <2>1, <2>2 DEF InstallRows, SequenceFits
<1>5. LocksFit'
  <2>1. \A v \in Workers \ {w} :
          /\ \A i \in DOMAIN rowWrite[v] :
               i \in BookingIds /\ bookings'[i] = bookings[i]
          /\ \A u \in DOMAIN bonusWrite[v] :
               u \in Users /\ bonuses'[u] = bonuses[u]
    BY DEF InstallRows, LocksFit, TypeOK
  <2>2. \A v \in Workers \ {w} :
          /\ pc'[v] = pc[v] /\ req'[v] = req[v] /\ local'[v] = local[v]
          /\ rowWrite'[v] = rowWrite[v] /\ bonusWrite'[v] = bonusWrite[v]
    BY DEF TypeOK
  <2>3. nextId' = nextId /\ rowWrite'[w] = NoWrites /\ bonusWrite'[w] = NoWrites
    BY DEF InstallRows, TypeOK
  <2> QED BY <2>1, <2>2, <2>3 DEF LocksFit, HeldRow, HeldBalance
<1>6. PointsFit'
  BY DEF PointsFit, TypeOK
<1>7. ChecksFit'
  BY DEF ChecksFit, TypeOK, NoRequest
<1> QED BY <1>2, <1>3, <1>4, <1>5, <1>6, <1>7

(* The server's death empties every session.                               *)
LEMMA DieInv ==
  ASSUME Inv, Die
  PROVE  Inv'
<1> USE EmptySession DEF Inv, Die
<1>1. TypeOK'
  BY DEF TypeOK, TablesTypeOK, tables, Statements, Codes
<1>2. StatementsFit'
  BY DEF StatementsFit, CreateOnly, NoRequest
<1>3. SequenceFits'
  BY DEF SequenceFits, tables
<1>4. LocksFit'
  BY DEF LocksFit
<1>5. PointsFit'
  BY DEF PointsFit
<1>6. ChecksFit'
  BY DEF ChecksFit, NoRequest
<1> QED BY <1>1, <1>2, <1>3, <1>4, <1>5, <1>6

(* The check records the table it found room in.                           *)
LEMMA IsRoomAvailableInv ==
  ASSUME Inv, NEW w \in Workers, IsRoomAvailable(w)
  PROVE  Inv'
<1>1. CASE ~RoomIsFree(req[w])
  BY <1>1, AbortInv DEF IsRoomAvailable, Codes
<1>2. CASE RoomIsFree(req[w])
  <2>1. /\ pc[w] = "isRoomAvailable"
        /\ seen' = [seen EXCEPT ![w] = bookings]
        /\ pc' = [pc EXCEPT ![w] = "calculateTotalCost"]
        /\ UNCHANGED <<tables, req, local, session, reply, grown>>
    BY <1>2 DEF IsRoomAvailable, GoTo
  <2> USE <2>1 DEF Inv, tables, session
  <2>2. TypeOK'
    BY DEF TypeOK, TablesTypeOK, Statements
  <2>3. StatementsFit'
    BY DEF StatementsFit, TypeOK, CreateOnly
  <2>4. SequenceFits'
    BY DEF SequenceFits
  <2>5. LocksFit'
    BY DEF LocksFit, HeldRow, HeldBalance, TypeOK
  <2>6. PointsFit'
    BY DEF PointsFit, TypeOK
  <2>7. ChecksFit'
    BY <1>2 DEF ChecksFit, TypeOK, RoomIsFree
  <2> QED BY <2>2, <2>3, <2>4, <2>5, <2>6, <2>7
<1> QED BY <1>1, <1>2

(* Pricing writes a non-negative cost and leaves the points alone.         *)
LEMMA CalculateTotalCostInv ==
  ASSUME Inv, NEW w \in Workers, CalculateTotalCost(w)
  PROVE  Inv'
<1> DEFINE s == Stay(w)
<1>1. CASE rooms[s.room_id] = NoRow
  BY <1>1, AbortInv DEF CalculateTotalCost, Codes
<1>2. CASE rooms[s.room_id] # NoRow
  <2> DEFINE cost == PriceOf(s.room_id, s.check_in_date, s.check_out_date, s.services)
  <2>1. /\ pc[w] = "calculateTotalCost"
        /\ local' = [local EXCEPT ![w].totalCost = cost]
        /\ pc' = [pc EXCEPT ![w] = AfterPrice(req[w])]
        /\ UNCHANGED <<tables, req, session, reply, grown, seen>>
    BY <1>2 DEF CalculateTotalCost, GoTo
  <2>2. req[w].op \in {"create", "update", "extend"}
    BY <2>1 DEF Inv, StatementsFit
  <2>3. /\ s.room_id \in Rooms /\ s.check_in_date \in Int
        /\ s.check_out_date \in Int /\ s.services \in SUBSET Services
    <3>1. req[w] \in Requests \cup {NoRequest} /\ local[w] \in Locals
      BY DEF Inv, TypeOK
    <3>2. CASE req[w].op = "extend"
      BY <2>1, <3>1, <3>2, RequestShape
         DEF Inv, StatementsFit, Stay, Locals, Booking, ExtendRequest
    <3>3. CASE req[w].op = "update"
      BY <3>1, <3>3, RequestShape DEF Stay, UpdateRequest
    <3>4. CASE req[w].op = "create"
      BY <3>1, <3>4, RequestShape DEF Stay, CreateRequest
    <3> QED BY <2>2, <3>2, <3>3, <3>4
  <2>4. cost \in Nat
    BY <1>2, <2>3, PriceIsNat DEF Inv, TypeOK
  <2>5. /\ AfterPrice(req[w]) \in {"write", "getUserById", "createBooking"}
        /\ req[w].op = "create" <=> AfterPrice(req[w]) # "write"
    BY DEF AfterPrice
  <2> HIDE DEF s, cost
  <2> USE <2>1 DEF Inv, tables, session
  <2>6. TypeOK'
    BY <2>4, <2>5 DEF TypeOK, TablesTypeOK, Statements, Locals
  <2>7. StatementsFit'
    BY <2>2, <2>5 DEF StatementsFit, TypeOK, CreateOnly, Locals
  <2>8. SequenceFits'
    BY DEF SequenceFits
  <2>9. LocksFit'
    BY DEF LocksFit, HeldRow, HeldBalance, TypeOK, Locals
  <2>10. PointsFit'
    BY DEF PointsFit, TypeOK, Locals
  <2>11. ChecksFit'
    BY DEF ChecksFit, TypeOK
  <2> QED BY <2>6, <2>7, <2>8, <2>9, <2>10, <2>11
<1> QED BY <1>1, <1>2

(* The lookup of the account moves the worker on, whatever it returns.     *)
LEMMA GetUserByIdInv ==
  ASSUME Inv, NEW w \in Workers, GetUserById(w)
  PROVE  Inv'
<1>1. /\ pc[w] = "getUserById"
      /\ pc' = [pc EXCEPT ![w] = "selectBonuses"] \/ pc' = [pc EXCEPT ![w] = "createBooking"]
      /\ UNCHANGED <<tables, req, local, session, reply, grown, seen>>
  BY DEF GetUserById, GoTo
<1> USE <1>1 DEF Inv, tables, session
<1>2. TypeOK'
  BY DEF TypeOK, TablesTypeOK, Statements
<1>3. StatementsFit'
  BY DEF StatementsFit, TypeOK, CreateOnly
<1>4. SequenceFits'
  BY DEF SequenceFits
<1>5. LocksFit'
  <2>1. \A v \in Workers : \A i \in DOMAIN rowWrite[v] : HeldRow(v, i)'
    BY DEF LocksFit, HeldRow, TypeOK
  <2>2. \A v \in Workers : \A u \in DOMAIN bonusWrite[v] : HeldBalance(v, u)'
    BY DEF LocksFit, HeldBalance, TypeOK
  <2> QED BY <2>1, <2>2 DEF LocksFit, TypeOK
<1>6. PointsFit'
  BY DEF PointsFit, TypeOK
<1>7. ChecksFit'
  BY DEF ChecksFit, TypeOK
<1> QED BY <1>2, <1>3, <1>4, <1>5, <1>6, <1>7

(* The points of a discount are the points of the balance read, at most.   *)
LEMMA SelectBonusesInv ==
  ASSUME Inv, NEW w \in Workers, SelectBonuses(w)
  PROVE  Inv'
<1> DEFINE balance == bonuses[req[w].user_id]
           discount == Discount(balance, local[w].totalCost)
           cost == local[w].totalCost - discount
           spent == PointsSpent(discount)
<1>1. /\ pc[w] = "selectBonuses"
      /\ UNCHANGED <<tables, req, session, reply, grown, seen>>
      /\ \A v \in Workers \ {w} : pc'[v] = pc[v]
  BY DEF SelectBonuses, GoTo, Inv, TypeOK
<1>2. req[w].op = "create" /\ req[w].user_id \in Users
  BY <1>1, RequestShape DEF Inv, TypeOK, StatementsFit, CreateOnly, CreateRequest
<1>3. DOMAIN rowWrite[w] = {} /\ DOMAIN bonusWrite[w] = {}
  BY <1>1, <1>2 DEF Inv, LocksFit, HeldRow, HeldBalance
<1>4. local[w] \in Locals /\ local[w].points = 0
  BY <1>1, <1>3 DEF Inv, PointsFit, TypeOK, Locals
<1>5. SequenceFits' /\ ChecksFit'
  BY <1>1 DEF Inv, SequenceFits, ChecksFit, tables
<1>6. CASE HasPoints(balance)
  <2>1. /\ local' = [local EXCEPT ![w] =
                       [ totalCost |-> cost, oldBooking |-> NoRow,
                         currentBonuses |-> balance, points |-> -spent ]]
        /\ pc' = [pc EXCEPT ![w] = "addBonuses"]
    BY <1>6 DEF SelectBonuses, GoTo
  <2>2. balance \in Nat /\ local[w].totalCost \in Nat
    BY <1>2, <1>4, <1>6 DEF HasPoints, Inv, TypeOK, TablesTypeOK, Locals
  <2>3. discount \in Nat /\ discount <= local[w].totalCost
    BY <2>2, DiscountBounds
  <2>4. cost \in Nat
    BY <2>2, <2>3
  <2>5. spent \in Nat /\ spent <= balance
    BY <2>2, DiscountBounds
  <2> HIDE DEF balance, discount, cost, spent
  <2> USE <1>1, <2>1 DEF Inv, tables, session
  <2>6. TypeOK'
    BY <2>2, <2>4, <2>5 DEF TypeOK, TablesTypeOK, Statements, Locals
  <2>7. StatementsFit'
    BY <1>2 DEF StatementsFit, TypeOK, CreateOnly, Locals
  <2>8. LocksFit'
    BY <1>3 DEF LocksFit, HeldRow, HeldBalance, TypeOK, Locals
  <2>9. PointsFit'
    BY <1>2, <2>2, <2>5 DEF PointsFit, TypeOK, Locals
  <2> QED BY <1>5, <2>6, <2>7, <2>8, <2>9
<1>7. CASE ~HasPoints(balance)
  <2>1. local' = local /\ pc' = [pc EXCEPT ![w] = "createBooking"]
    BY <1>7 DEF SelectBonuses, GoTo
  <2> HIDE DEF balance, discount, cost, spent
  <2> USE <1>1, <2>1 DEF Inv, tables, session
  <2>2. TypeOK'
    BY DEF TypeOK, TablesTypeOK, Statements
  <2>3. StatementsFit'
    BY <1>2 DEF StatementsFit, TypeOK, CreateOnly
  <2>4. LocksFit'
    BY <1>3 DEF LocksFit, HeldRow, HeldBalance, TypeOK
  <2>5. PointsFit'
    BY <1>3, <1>4 DEF PointsFit, TypeOK
  <2> QED BY <1>5, <2>2, <2>3, <2>4, <2>5
<1> QED BY <1>6, <1>7

(* The UPDATE of an account takes its lock, and moves the balance          *)
(* committed last by the worker's points.                                  *)
LEMMA AddBonusesInv ==
  ASSUME Inv, NEW w \in Workers, AddBonuses(w)
  PROVE  Inv'
<1> DEFINE u == req[w].user_id
           moved == IF bonuses[u] = Null THEN Null ELSE bonuses[u] + local[w].points
<1>1. /\ pc[w] = "addBonuses"
      /\ ~BalanceLocked(w, u)
      /\ bonusWrite' = [bonusWrite EXCEPT ![w] = [x \in {u} |-> moved]]
      /\ pc' = [pc EXCEPT ![w] = IF req[w].op = "create" THEN "createBooking" ELSE "commit"]
      /\ UNCHANGED <<tables, req, local, rowWrite, reply, grown, seen>>
  BY DEF AddBonuses, GoTo
<1>2. req[w].op \in {"create", "update"} /\ u \in Users
  BY <1>1, RequestShape
     DEF Inv, TypeOK, StatementsFit, CreateRequest, UpdateRequest
<1>3. moved \in Int \cup {Null}
  BY <1>2 DEF Inv, TypeOK, TablesTypeOK, Locals
<1>4. req[w].op = "create" => DOMAIN rowWrite[w] = {}
  BY <1>1 DEF Inv, LocksFit, HeldRow
<1> USE <1>1 DEF Inv, tables
<1>5. TypeOK'
  BY <1>2, <1>3 DEF TypeOK, TablesTypeOK, Statements
<1>6. StatementsFit'
  BY <1>2 DEF StatementsFit, TypeOK, CreateOnly
<1>7. SequenceFits'
  BY DEF SequenceFits
<1>8. LocksFit'
  <2>1. \A v \in Workers : \A i \in DOMAIN rowWrite'[v] : HeldRow(v, i)'
    BY <1>2, <1>4 DEF LocksFit, HeldRow, TypeOK
  <2>2. \A v \in Workers : \A x \in DOMAIN bonusWrite'[v] : HeldBalance(v, x)'
    BY <1>2 DEF LocksFit, HeldBalance, TypeOK
  <2>3. \A v \in Workers \ {w} : DOMAIN bonusWrite'[w] \cap DOMAIN bonusWrite'[v] = {}
    BY DEF BalanceLocked, TypeOK
  <2> QED BY <2>1, <2>2, <2>3 DEF LocksFit, TypeOK
<1>9. PointsFit'
  BY DEF PointsFit, TypeOK
<1>10. ChecksFit'
  BY DEF ChecksFit, TypeOK
<1> QED BY <1>5, <1>6, <1>7, <1>8, <1>9, <1>10

(* The INSERT takes an id nobody has, and the row is the one requested.    *)
LEMMA CreateBookingInv ==
  ASSUME Inv, NEW w \in Workers, CreateBooking(w)
  PROVE  Inv'
<1> DEFINE r == req[w]
           row == [ user_id |-> r.user_id, room_id |-> r.room_id,
                    check_in_date |-> r.check_in_date,
                    check_out_date |-> r.check_out_date,
                    total_cost |-> local[w].totalCost,
                    status |-> "confirmed", services |-> {} ]
<1>1. /\ pc[w] = "createBooking"
      /\ nextId \in BookingIds
      /\ nextId' = nextId + 1
      /\ rowWrite' = [rowWrite EXCEPT ![w] = [i \in {nextId} |-> row]]
      /\ pc' = [pc EXCEPT ![w] = IF r.services = {} THEN "commit" ELSE "addServices"]
      /\ UNCHANGED <<bookings, bonuses, rooms, req, local, bonusWrite, reply, grown, seen>>
  BY DEF CreateBooking, GoTo
<1>2. r.op = "create" /\ r \in CreateRequest
  BY <1>1, RequestShape DEF Inv, TypeOK, StatementsFit, CreateOnly
<1>3. /\ row \in Booking /\ row # NoRow
      /\ row.room_id = r.room_id
      /\ row.check_in_date = r.check_in_date
      /\ row.check_out_date = r.check_out_date
      /\ row.status = "confirmed"
  <2>1. row \in Booking
    BY <1>2 DEF Inv, TypeOK, Locals, Booking, CreateRequest, Statuses
  <2> QED BY <2>1, NullAssumption
<1>4. /\ nextId \in Int /\ nextId + 1 \in 1..(MaxId + 1)
      /\ bookings[nextId] = NoRow
      /\ \A v \in Workers : nextId \notin DOMAIN rowWrite[v]
  BY <1>1, SequenceAssumption
     DEF Inv, TypeOK, TablesTypeOK, SequenceFits, LocksFit, HeldRow, BookingIds
<1> HIDE DEF row
<1> USE <1>1 DEF Inv
<1>5. TypeOK'
  BY <1>3, <1>4 DEF TypeOK, TablesTypeOK, Statements
<1>6. StatementsFit'
  BY <1>2 DEF StatementsFit, TypeOK, CreateOnly
<1>7. SequenceFits'
  BY <1>4 DEF SequenceFits, BookingIds
<1>8. LocksFit'
  <2>1. \A i \in DOMAIN rowWrite'[w] : HeldRow(w, i)'
    BY <1>2, <1>3, <1>4 DEF HeldRow, TypeOK
  <2>2. \A v \in Workers \ {w} : \A i \in DOMAIN rowWrite'[v] : HeldRow(v, i)'
    <3> SUFFICES ASSUME NEW v \in Workers \ {w}, NEW i \in DOMAIN rowWrite'[v]
                 PROVE  HeldRow(v, i)'
      OBVIOUS
    <3>1. i \in Int /\ HeldRow(v, i)
      BY DEF LocksFit, TypeOK, BookingIds
    <3> QED BY <1>4, <3>1 DEF HeldRow, TypeOK
  <2>3. \A v \in Workers : \A u \in DOMAIN bonusWrite'[v] : HeldBalance(v, u)'
    BY DEF LocksFit, HeldBalance, TypeOK
  <2>4. DOMAIN rowWrite'[w] = {nextId}
    BY DEF TypeOK
  <2> QED BY <1>4, <2>1, <2>2, <2>3, <2>4 DEF LocksFit, TypeOK
<1>9. PointsFit'
  BY DEF PointsFit, TypeOK
<1>10. ChecksFit'
  BY DEF ChecksFit, TypeOK
<1> QED BY <1>5, <1>6, <1>7, <1>8, <1>9, <1>10

(* Services are added to the row just inserted.                            *)
LEMMA AddServicesInv ==
  ASSUME Inv, NEW w \in Workers, AddServicesToBooking(w)
  PROVE  Inv'
<1> DEFINE served == [i \in DOMAIN rowWrite[w] |->
                       [rowWrite[w][i] EXCEPT !.services = req[w].services]]
<1>1. /\ pc[w] = "addServices"
      /\ rowWrite' = [rowWrite EXCEPT ![w] = served]
      /\ pc' = [pc EXCEPT ![w] = "commit"]
      /\ UNCHANGED <<tables, req, local, bonusWrite, reply, grown, seen>>
  BY DEF AddServicesToBooking, GoTo
<1>2. req[w].op = "create" /\ req[w].services \in SUBSET Services
  BY <1>1, RequestShape DEF Inv, TypeOK, StatementsFit, CreateOnly, CreateRequest
<1>3. \A i \in DOMAIN rowWrite[w] :
        /\ rowWrite[w][i] \in Booking
        /\ served[i] \in Booking /\ served[i] # NoRow
        /\ served[i].room_id = rowWrite[w][i].room_id
        /\ served[i].check_in_date = rowWrite[w][i].check_in_date
        /\ served[i].check_out_date = rowWrite[w][i].check_out_date
        /\ served[i].status = rowWrite[w][i].status
  <2> SUFFICES ASSUME NEW i \in DOMAIN rowWrite[w]
               PROVE  /\ rowWrite[w][i] \in Booking
                      /\ served[i] \in Booking /\ served[i] # NoRow
                      /\ served[i].room_id = rowWrite[w][i].room_id
                      /\ served[i].check_in_date = rowWrite[w][i].check_in_date
                      /\ served[i].check_out_date = rowWrite[w][i].check_out_date
                      /\ served[i].status = rowWrite[w][i].status
    OBVIOUS
  <2>1. rowWrite[w][i] \in Booking
    BY <1>2 DEF Inv, TypeOK, LocksFit, HeldRow
  <2>2. served[i] \in Booking
    BY <1>2, <2>1 DEF Booking
  <2> QED BY <2>1, <2>2, NullAssumption DEF Booking
<1>4. DOMAIN served = DOMAIN rowWrite[w]
  OBVIOUS
<1>5. served \in [DOMAIN rowWrite[w] -> Booking \cup {NoRow}]
  BY <1>3
<1> HIDE DEF served
<1> USE <1>1 DEF Inv, tables
<1>6. TypeOK'
  BY <1>4, <1>5 DEF TypeOK, TablesTypeOK, Statements
<1>7. StatementsFit'
  BY <1>2 DEF StatementsFit, TypeOK, CreateOnly
<1>8. SequenceFits'
  BY DEF SequenceFits
<1>9. LocksFit'
  <2>1. \A v \in Workers : DOMAIN rowWrite'[v] = DOMAIN rowWrite[v]
    BY <1>4 DEF TypeOK
  <2>2. \A v \in Workers : \A i \in DOMAIN rowWrite'[v] : HeldRow(v, i)'
    BY <1>2, <1>3, <2>1 DEF LocksFit, HeldRow, TypeOK
  <2>3. \A v \in Workers : \A u \in DOMAIN bonusWrite'[v] : HeldBalance(v, u)'
    BY DEF LocksFit, HeldBalance, TypeOK
  <2> QED BY <2>1, <2>2, <2>3 DEF LocksFit
<1>10. PointsFit'
  BY DEF PointsFit, TypeOK
<1>11. ChecksFit'
  BY DEF ChecksFit, TypeOK
<1> QED BY <1>6, <1>7, <1>8, <1>9, <1>10, <1>11

(* A booking found is remembered; nothing is locked by reading it.         *)
LEMMA GetBookingByIdInv ==
  ASSUME Inv, NEW w \in Workers, GetBookingById(w)
  PROVE  Inv'
<1> DEFINE r == req[w]
           row == bookings[r.booking_id]
<1>1. CASE ~Admitted(r, row)
  BY <1>1, AbortInv DEF GetBookingById, Codes
<1>2. CASE Admitted(r, row)
  <2>1. /\ pc[w] = "getBookingById"
        /\ local' = [local EXCEPT ![w].oldBooking = row]
        /\ pc' = [pc EXCEPT ![w] = IF r.op = "cancel" THEN "write"
                                   ELSE "calculateTotalCost"]
        /\ UNCHANGED <<tables, req, session, reply, grown, seen>>
    BY <1>2 DEF GetBookingById, GoTo
  <2>2. r.op \in {"update", "cancel", "extend"} /\ r.booking_id \in BookingIds
    BY <2>1, RequestShape
       DEF Inv, TypeOK, StatementsFit, UpdateRequest, CancelRequest, ExtendRequest
  <2>3. row \in Booking \cup {NoRow} /\ row # NoRow
    BY <1>2, <2>2 DEF Admitted, Inv, TypeOK, TablesTypeOK
  <2> HIDE DEF row
  <2> USE <2>1 DEF Inv, tables, session
  <2>4. TypeOK'
    BY <2>3 DEF TypeOK, TablesTypeOK, Statements, Locals
  <2>5. StatementsFit'
    BY <2>2, <2>3 DEF StatementsFit, TypeOK, CreateOnly, Locals
  <2>6. SequenceFits'
    BY DEF SequenceFits
  <2>7. LocksFit'
    BY DEF LocksFit, HeldRow, HeldBalance, TypeOK, Locals
  <2>8. PointsFit'
    BY DEF PointsFit, TypeOK, Locals
  <2>9. ChecksFit'
    BY <2>2 DEF ChecksFit, TypeOK
  <2> QED BY <2>4, <2>5, <2>6, <2>7, <2>8, <2>9
<1> QED BY <1>1, <1>2

(* Any UPDATE or DELETE of a booking: the row is locked if it is there,    *)
(* and holds what the operation wrote; only an update goes on to credit    *)
(* points.                                                                 *)
LEMMA WriteRowInv ==
  ASSUME Inv, NEW w \in Workers, NEW row, WriteRow(w, row),
         NEW next \in {"addBonuses", "commit"}, NEW points \in Nat,
         next = "addBonuses" => req[w].op = "update",
         pc' = [pc EXCEPT ![w] = next],
         local' = IF next = "addBonuses"
                  THEN [local EXCEPT ![w].points = points] ELSE local,
         UNCHANGED <<tables, req, bonusWrite, reply, grown, seen>>,
         bookings[req[w].booking_id] \in Booking =>
           /\ row \in Booking \cup {NoRow}
           /\ row = NoRow <=> req[w].op = "delete"
           /\ req[w].op = "cancel" =>
                row.status = "cancelled" /\ row.room_id = bookings[req[w].booking_id].room_id
           /\ req[w].op = "extend" => StaysInPlace(row, bookings[req[w].booking_id])
  PROVE  Inv'
<1> DEFINE i == req[w].booking_id
           written == IF bookings[i] = NoRow THEN NoWrites ELSE [x \in {i} |-> row]
<1>1. /\ pc[w] = "write"
      /\ ~BookingLocked(w, i)
      /\ rowWrite' = [rowWrite EXCEPT ![w] = written]
  BY DEF WriteRow
<1>2. req[w].op \in {"update", "cancel", "extend", "delete"} /\ i \in BookingIds
  BY <1>1, RequestShape
     DEF Inv, TypeOK, StatementsFit, UpdateRequest, CancelRequest, ExtendRequest,
         DeleteRequest
<1>3. bookings[i] \in Booking \cup {NoRow}
  BY <1>2 DEF Inv, TypeOK, TablesTypeOK
<1>4. /\ DOMAIN written \subseteq {i}
      /\ written \in [DOMAIN written -> Booking \cup {NoRow}]
      /\ \A x \in DOMAIN written :
           /\ x = i /\ bookings[i] # NoRow
           /\ written[x] = row
  BY <1>3, EmptySession
<1>5. DOMAIN bonusWrite[w] = {} /\ local[w].points = 0 /\ local[w] \in Locals
  BY <1>1 DEF Inv, LocksFit, HeldBalance, PointsFit, TypeOK, Locals
<1> HIDE DEF written
<1> USE <1>1 DEF Inv, tables
<1>6. local' \in [Workers -> Locals]
  <2>1. [local[w] EXCEPT !.points = points] \in Locals
    BY <1>5 DEF Locals
  <2> QED BY <2>1 DEF TypeOK
<1>7. TypeOK'
  BY <1>2, <1>4, <1>6 DEF TypeOK, TablesTypeOK, Statements
<1>8. StatementsFit'
  BY <1>2 DEF StatementsFit, TypeOK, CreateOnly, Locals
<1>9. SequenceFits'
  BY DEF SequenceFits
<1>10. LocksFit'
  <2>1. \A x \in DOMAIN rowWrite'[w] : HeldRow(w, x)'
    <3>1. bookings[i] # NoRow => i < nextId
      BY <1>2 DEF SequenceFits, TypeOK, TablesTypeOK, BookingIds
    <3>2. bookings[i] # NoRow => bookings[i] \in Booking
      BY <1>3
    <3> QED BY <1>2, <1>4, <3>1, <3>2 DEF HeldRow, TypeOK
  <2>2. \A v \in Workers \ {w} : \A x \in DOMAIN rowWrite'[v] : HeldRow(v, x)'
    BY DEF LocksFit, HeldRow, TypeOK
  <2>3. \A v \in Workers : \A u \in DOMAIN bonusWrite'[v] : HeldBalance(v, u)'
    BY <1>5 DEF LocksFit, HeldBalance, TypeOK
  <2>4. \A v \in Workers \ {w} : DOMAIN rowWrite'[w] \cap DOMAIN rowWrite'[v] = {}
    BY <1>4 DEF BookingLocked, TypeOK
  <2>5. \A x, y \in DOMAIN rowWrite'[w] : x = y
    BY <1>4 DEF TypeOK
  <2> QED BY <2>1, <2>2, <2>3, <2>4, <2>5 DEF LocksFit, TypeOK
<1>11. PointsFit'
  BY <1>5 DEF PointsFit, TypeOK, Locals
<1>12. ChecksFit'
  BY <1>2 DEF ChecksFit, TypeOK
<1> QED BY <1>7, <1>8, <1>9, <1>10, <1>11, <1>12

(* The four operations on an existing booking are such writes.             *)
LEMMA WriteInv ==
  ASSUME Inv, NEW w \in Workers, Write(w)
  PROVE  Inv'
<1> DEFINE r == req[w]
           i == r.booking_id
           old == bookings[i]
<1>1. TypeOK /\ r \in Requests \cup {NoRequest} /\ local[w] \in Locals
  BY DEF Inv, TypeOK
<1>2. CASE AdminUpdateBooking(w)
  <2> DEFINE new == [old EXCEPT
                       !.user_id = r.user_id, !.room_id = r.room_id,
                       !.check_in_date = r.check_in_date,
                       !.check_out_date = r.check_out_date,
                       !.total_cost = local[w].totalCost, !.status = r.status]
             points == PointsGained(local[w].totalCost)
             next == IF Completes(w) THEN "addBonuses" ELSE "commit"
  <2>1. /\ r.op = "update"
        /\ WriteRow(w, new)
        /\ pc' = [pc EXCEPT ![w] = next]
        /\ local' = IF next = "addBonuses"
                    THEN [local EXCEPT ![w].points = points] ELSE local
        /\ UNCHANGED <<tables, req, bonusWrite, reply, grown, seen>>
    BY <1>2 DEF AdminUpdateBooking, GoTo
  <2>2. points \in Nat /\ next \in {"addBonuses", "commit"}
    BY <1>1, PointsGainedIsNat DEF Locals
  <2>3. old \in Booking => new \in Booking /\ new # NoRow
    BY <1>1, <2>1, RequestShape, NullAssumption DEF UpdateRequest, Booking, Locals
  <2> HIDE DEF new, points, next
  <2> QED BY <2>1, <2>2, <2>3, WriteRowInv
<1>3. CASE UpdateStatus(w)
  <2> DEFINE new == [old EXCEPT !.status = "cancelled"]
  <2>1. /\ r.op = "cancel"
        /\ WriteRow(w, new)
        /\ pc' = [pc EXCEPT ![w] = "commit"]
        /\ UNCHANGED <<tables, req, local, bonusWrite, reply, grown, seen>>
    BY <1>3 DEF UpdateStatus, GoTo
  <2>2. old \in Booking => /\ new \in Booking /\ new # NoRow
                           /\ new.status = "cancelled" /\ new.room_id = old.room_id
    BY NullAssumption DEF Booking, Statuses
  <2> HIDE DEF new
  <2> QED BY <2>1, <2>2, WriteRowInv
<1>4. CASE UpdateDateAndCost(w)
  <2> DEFINE new == [old EXCEPT !.check_out_date = r.check_out_date,
                                !.total_cost = local[w].totalCost]
  <2>1. /\ r.op = "extend"
        /\ WriteRow(w, new)
        /\ pc' = [pc EXCEPT ![w] = "commit"]
        /\ UNCHANGED <<tables, req, local, bonusWrite, reply, grown, seen>>
    BY <1>4 DEF UpdateDateAndCost, GoTo
  <2>2. old \in Booking => new \in Booking /\ new # NoRow /\ StaysInPlace(new, old)
    BY <1>1, <2>1, RequestShape, NullAssumption DEF ExtendRequest, Booking, Locals, StaysInPlace
  <2> HIDE DEF new
  <2> QED BY <2>1, <2>2, WriteRowInv
<1>5. CASE DeleteBooking(w)
  <2>1. /\ r.op = "delete"
        /\ WriteRow(w, NoRow)
        /\ pc' = [pc EXCEPT ![w] = "commit"]
        /\ UNCHANGED <<tables, req, local, bonusWrite, reply, grown, seen>>
    BY <1>5 DEF DeleteBooking, GoTo
  <2> QED BY <2>1, WriteRowInv
<1> QED BY <1>2, <1>3, <1>4, <1>5 DEF Write

(* Nothing changes in a step of something else.                            *)
LEMMA StutterInv ==
  ASSUME Inv, UNCHANGED vars
  PROVE  Inv'
<1> USE DEF Inv, vars, tables
<1>1. TypeOK'
  BY DEF TypeOK, TablesTypeOK
<1>2. StatementsFit'
  BY DEF StatementsFit
<1>3. SequenceFits'
  BY DEF SequenceFits
<1>4. LocksFit'
  BY DEF LocksFit, HeldRow, HeldBalance
<1>5. PointsFit' /\ ChecksFit'
  BY DEF PointsFit, ChecksFit
<1> QED BY <1>1, <1>2, <1>3, <1>4, <1>5

(* Another component may move or delete rooms at any time: nothing that a  *)
(* session holds depends on the category its room has.                     *)
LEMMA RoomsMayChange ==
  ASSUME Inv, rooms' \in [Rooms -> Categories \cup {NoRow}],
         UNCHANGED <<bookings, bonuses, nextId, pc, req, local, rowWrite, bonusWrite,
                     reply, grown, seen>>
  PROVE  Inv'
<1> USE DEF Inv
<1>1. TypeOK'
  BY DEF TypeOK, TablesTypeOK
<1>2. StatementsFit'
  BY DEF StatementsFit
<1>3. SequenceFits'
  BY DEF SequenceFits
<1>4. LocksFit'
  BY DEF LocksFit, HeldRow, HeldBalance
<1>5. PointsFit' /\ ChecksFit'
  BY DEF PointsFit, ChecksFit
<1> QED BY <1>1, <1>2, <1>3, <1>4, <1>5

(* The answers a commit can get are HTTP codes of the server.              *)
LEMMA SuccessCodeIsCode ==
  ASSUME NEW w \in Workers
  PROVE  SuccessCode(w) \in Codes
  BY DEF SuccessCode, Codes

(* Every step of the service preserves the invariant.                      *)
LEMMA NextInv == Inv /\ [Next]_vars => Inv'
<1> SUFFICES ASSUME Inv, [Next]_vars PROVE Inv'
  OBVIOUS
<1>1. CASE UNCHANGED vars
  BY <1>1, StutterInv
<1>2. CASE Crash
  BY <1>2, DieInv DEF Crash
<1>3. ASSUME NEW w \in Workers, Receive(w) PROVE Inv'
  BY <1>3, ReceiveInv
<1>4. ASSUME NEW w \in Workers, Create(w) PROVE Inv'
  BY <1>4, IsRoomAvailableInv, GetUserByIdInv, SelectBonusesInv,
     CreateBookingInv, AddServicesInv DEF Create
<1>5. ASSUME NEW w \in Workers,
             GetBookingById(w) \/ CalculateTotalCost(w) \/ AddBonuses(w) \/ Write(w)
      PROVE  Inv'
  BY <1>5, GetBookingByIdInv, CalculateTotalCostInv, AddBonusesInv, WriteInv
<1>6. ASSUME NEW w \in Workers, Commit(w) \/ CommitInDoubt(w) PROVE Inv'
  BY <1>6, CommitInv, SuccessCodeIsCode DEF Commit, CommitInDoubt, Codes
<1>7. ASSUME NEW w \in Workers, Fail(w) PROVE Inv'
  BY <1>7, AbortInv DEF Fail, Codes
<1> QED BY <1>1, <1>2, <1>3, <1>4, <1>5, <1>6, <1>7 DEF Next, Serve, Advance

-----------------------------------------------------------------------------
(* The theorems.                                                           *)

(* Locks, uncommitted writes and committed tables fit together in every    *)
(* state the workers of BookingService.cpp can reach.                      *)
THEOREM Invariance == Spec => []Inv
  BY InitInv, NextInv, PTL DEF Spec

(* Every row, balance, local variable and uncommitted write has its type:  *)
(* in particular a price is never negative, whatever discount              *)
(* createNewBooking (BookingService.cpp:36) takes off it.                  *)
THEOREM TypeCorrect == Spec => []TypeOK
<1>1. Inv => TypeOK
  BY DEF Inv
<1> QED BY <1>1, Invariance, PTL

(* The committed tables change in a step exactly by what one worker, at    *)
(* its commit, has written.                                                *)
LEMMA OnlyCommitsWrite ==
  ASSUME Inv, [Next]_vars, <<bookings, bonuses>>' # <<bookings, bonuses>>
  PROVE  \E w \in Workers :
           /\ Commits(w) /\ InstallRows(w)
           /\ \A v \in Workers \ {w} : ~Commits(v)
<1>1. PICK w \in Workers : Commit(w) \/ CommitInDoubt(w)
  <2>1. ~UNCHANGED tables
    BY DEF tables
  <2>2. \A v \in Workers : ~Receive(v) /\ ~Fail(v) /\ ~Create(v) /\ ~Write(v)
    BY <2>1
       DEF tables, Receive, Fail, Abort, Create, IsRoomAvailable, GetUserById,
           SelectBonuses, CreateBooking, AddServicesToBooking, Write,
           AdminUpdateBooking, UpdateStatus, UpdateDateAndCost, DeleteBooking
  <2>3. \A v \in Workers :
          ~GetBookingById(v) /\ ~CalculateTotalCost(v) /\ ~AddBonuses(v)
    BY <2>1 DEF GetBookingById, CalculateTotalCost, AddBonuses, Abort
  <2>4. ~Crash /\ ~UNCHANGED vars
    BY <2>1 DEF Crash, Die, vars
  <2> QED BY <2>2, <2>3, <2>4 DEF Next, Serve, Advance
<1>2. PICK code : pc[w] = "commit" /\ InstallRows(w) /\ Answer(w, code)
  BY <1>1 DEF Commit, CommitInDoubt
<1>3. pc' = [pc EXCEPT ![w] = "idle"] /\ pc \in [Workers -> Statements]
  BY <1>2 DEF Answer, Inv, TypeOK
<1>4. Commits(w)
  BY <1>2, <1>3 DEF Commits
<1>5. \A v \in Workers \ {w} : ~Commits(v)
  BY <1>3 DEF Commits
<1> QED BY <1>2, <1>4, <1>5

(* A worker that commits installs its own writes.                          *)
LEMMA CommitsInstalls ==
  ASSUME Inv, [Next]_vars, NEW w \in Workers, Commits(w)
  PROVE  InstallRows(w) /\ pc[w] = "commit"
  BY OnlyCommitsWrite DEF Commits

(* Two bookings of a room for the same night never come about unless one   *)
(* of them was written while the other one was being made: with the row    *)
(* seen by the check at BookingService.cpp:23 still in place, the check    *)
(* itself excludes the overlap.                                            *)
THEOREM DoubleBooking == Spec => DoubleBookingNeedsRace
<1> DEFINE Step ==
      \A w \in Workers, i, j \in BookingIds :
        /\ Commits(w) /\ req[w].op = "create"
        /\ bookings[i] = NoRow /\ bookings'[i] # NoRow
        /\ Overlaps(bookings[j], bookings'[i].room_id,
                    bookings'[i].check_in_date, bookings'[i].check_out_date)
        => bookings[j] # seen[w][j]
<1>1. Inv /\ [Next]_vars => Step
  <2> SUFFICES ASSUME Inv, [Next]_vars,
                      NEW w \in Workers, NEW i \in BookingIds, NEW j \in BookingIds,
                      Commits(w), req[w].op = "create",
                      bookings[i] = NoRow, bookings'[i] # NoRow,
                      Overlaps(bookings[j], bookings'[i].room_id,
                               bookings'[i].check_in_date,
                               bookings'[i].check_out_date)
               PROVE  bookings[j] # seen[w][j]
    OBVIOUS
  <2>1. InstallRows(w) /\ pc[w] = "commit"
    BY CommitsInstalls
  <2>2. i \in DOMAIN rowWrite[w] /\ bookings'[i] = rowWrite[w][i]
    BY <2>1 DEF InstallRows
  <2>3. /\ bookings'[i].room_id = req[w].room_id
        /\ bookings'[i].check_in_date = req[w].check_in_date
        /\ bookings'[i].check_out_date = req[w].check_out_date
    BY <2>2 DEF Inv, LocksFit, HeldRow
  <2>4. ~Overlaps(seen[w][j], req[w].room_id, req[w].check_in_date,
                  req[w].check_out_date)
    BY <2>1 DEF Inv, ChecksFit
  <2> QED BY <2>3, <2>4
<1>2. Inv /\ [Next]_vars => [Step]_vars
  BY <1>1
<1> QED BY <1>2, Invariance, PTL DEF Spec, DoubleBookingNeedsRace

(* Two bookings meet, whichever of them is looked at.                      *)
LEMMA ClashIsSymmetric ==
  ASSUME TypeOK, NEW i \in BookingIds, NEW j \in BookingIds, Clash(i, j)
  PROVE  Clash(j, i)
  BY DEF TypeOK, TablesTypeOK, Booking, Clash, Overlaps

(* Every new overlap is brought about by somebody.                         *)
OverlapBrought ==
  \A i, j \in BookingIds :
    ~Clash(i, j) /\ Clash(i, j)'
    => \E w \in Workers : Commits(w) /\ (Brings(w, i, j) \/ Brings(w, j, i))

LEMMA NewOverlapBrought == Inv /\ [Next]_vars => OverlapBrought
<1>1. ASSUME Inv, Inv', NEW w \in Workers, Commits(w), InstallRows(w),
             NEW i \in BookingIds, NEW j \in BookingIds,
             i \in DOMAIN rowWrite[w], ~Clash(i, j), Clash(i, j)'
      PROVE  Brings(w, i, j)
  <2> DEFINE row == rowWrite[w][i]
  <2>1. bookings'[i] = row /\ HeldRow(w, i)
    BY <1>1 DEF InstallRows, Inv, LocksFit
  <2>2. i # j /\ bookings'[j] = bookings[j]
    BY <1>1 DEF Clash, InstallRows, Inv, LocksFit
  <2>3. /\ row # NoRow /\ row.status # "cancelled"
        /\ Overlaps(bookings[j], row.room_id, row.check_in_date, row.check_out_date)
    BY <1>1, <2>1, <2>2 DEF Clash, Overlaps
  <2>4. req[w].op \in {"create", "update", "cancel", "extend", "delete"}
    BY <1>1, RequestShape DEF Inv, TypeOK, StatementsFit, Commits
  <2>5. CASE req[w].op = "create"
    <3>1. ~Overlaps(seen[w][j], req[w].room_id, req[w].check_in_date,
                    req[w].check_out_date)
      BY <1>1, <2>5 DEF Inv, ChecksFit, Commits
    <3> QED BY <2>1, <2>3, <2>5, <3>1 DEF HeldRow, Brings
  <2>6. CASE req[w].op = "extend"
    <3>1. /\ i = req[w].booking_id /\ bookings[i] # NoRow
          /\ StaysInPlace(row, bookings[i])
      BY <2>1, <2>6 DEF HeldRow
    <3>2. ~Overlaps(bookings[j], row.room_id, row.check_in_date,
                    bookings[i].check_out_date)
      BY <1>1, <2>2, <2>3, <3>1 DEF Clash, StaysInPlace
    <3>3. /\ bookings[j] \in Booking /\ bookings[i] \in Booking /\ row \in Booking
          /\ bookings[j] # NoRow
      BY <1>1, <2>1, <2>3, <3>1 DEF Inv, TypeOK, TablesTypeOK, Overlaps
    <3>4. /\ bookings[i].check_out_date <= bookings[j].check_in_date
          /\ bookings[j].check_in_date < row.check_out_date
      BY <2>3, <3>2, <3>3 DEF Overlaps, Booking
    <3> QED BY <2>1, <2>6, <3>1, <3>4 DEF Brings
  <2> QED BY <2>1, <2>3, <2>4, <2>5, <2>6 DEF HeldRow, Brings
<1>2. ASSUME Inv, [Next]_vars PROVE OverlapBrought
  <2> SUFFICES ASSUME NEW i \in BookingIds, NEW j \in BookingIds,
                      ~Clash(i, j), Clash(i, j)'
               PROVE  \E w \in Workers :
                        Commits(w) /\ (Brings(w, i, j) \/ Brings(w, j, i))
    BY DEF OverlapBrought
  <2>1. TypeOK /\ Inv /\ Inv' /\ TypeOK'
    BY <1>2, NextInv DEF Inv
  <2>2. <<bookings, bonuses>>' # <<bookings, bonuses>>
    BY DEF Clash, Overlaps
  <2>3. PICK w \in Workers : Commits(w) /\ InstallRows(w)
    BY <1>2, <2>2, OnlyCommitsWrite
  <2>4. CASE i \in DOMAIN rowWrite[w]
    BY <1>1, <2>1, <2>3, <2>4
  <2>5. CASE j \in DOMAIN rowWrite[w]
    <3>1. ~Clash(j, i) /\ Clash(j, i)'
      BY <2>1, ClashIsSymmetric DEF TypeOK, TablesTypeOK, Booking, Clash, Overlaps
    <3> QED BY <1>1, <2>1, <2>3, <2>5, <3>1
  <2>6. CASE i \notin DOMAIN rowWrite[w] /\ j \notin DOMAIN rowWrite[w]
    BY <2>3, <2>6 DEF InstallRows, Clash, Overlaps
  <2> QED BY <2>4, <2>5, <2>6
<1> QED BY <1>2

(* Of all the operations, only an unchecked one or an overtaken check      *)
(* makes two live bookings of a room meet, and an extension only on the    *)
(* nights it added (BookingService.cpp:23, 108, 156).                      *)
THEOREM OverlapOrigin == Spec => OverlapHasOrigin
<1>1. Inv /\ [Next]_vars => [OverlapBrought]_vars
  BY NewOverlapBrought
<1>2. [][OverlapBrought]_vars <=> OverlapHasOrigin
  BY DEF OverlapBrought, OverlapHasOrigin
<1> QED BY <1>1, <1>2, Invariance, PTL DEF Spec

(* No change of a balance is lost or applied twice, whatever the number of *)
(* workers that spend and earn points of one account.                      *)
THEOREM BonusesKept == Spec => NoLostBonus
<1> DEFINE Step ==
      \A w \in Workers :
        Commits(w) /\ local[w].points # 0
        => bonuses' = [bonuses EXCEPT ![req[w].user_id] =
                         IF @ = Null THEN Null ELSE @ + local[w].points]
<1>1. Inv /\ [Next]_vars => Step
  <2> SUFFICES ASSUME Inv, [Next]_vars, NEW w \in Workers,
                      Commits(w), local[w].points # 0
               PROVE  bonuses' = [bonuses EXCEPT ![req[w].user_id] =
                                    IF @ = Null THEN Null ELSE @ + local[w].points]
    OBVIOUS
  <2> DEFINE u == req[w].user_id
  <2>1. InstallRows(w) /\ pc[w] = "commit"
    BY CommitsInstalls
  <2>2. DOMAIN bonusWrite[w] = {u}
    BY <2>1 DEF Inv, PointsFit
  <2>3. bonusWrite[w][u] =
          IF bonuses[u] = Null THEN Null ELSE bonuses[u] + local[w].points
    BY <2>2 DEF Inv, LocksFit, HeldBalance
  <2>4. bonuses' = [x \in Users |-> IF x = u THEN bonusWrite[w][u] ELSE bonuses[x]]
    BY <2>1, <2>2 DEF InstallRows
  <2>5. DOMAIN bonuses = Users
    BY DEF Inv, TypeOK, TablesTypeOK
  <2> QED BY <2>3, <2>4, <2>5
<1>2. Inv /\ [Next]_vars => [Step]_vars
  BY <1>1
<1> QED BY <1>2, Invariance, PTL DEF Spec, NoLostBonus

(* A balance sinks below zero only when the account was written between    *)
(* the SELECT and the UPDATE of createNewBooking: the points taken are at  *)
(* most the balance that was read.                                         *)
THEOREM Overdraft == Spec => OverdraftNeedsRace
<1> DEFINE Step ==
      \A u \in Users :
        /\ bonuses[u] # Null /\ bonuses[u] >= 0
        /\ bonuses'[u] # Null /\ bonuses'[u] < 0
        => \E w \in Workers : /\ Commits(w)
                              /\ req[w].op = "create"
                              /\ bonuses[u] # local[w].currentBonuses
<1>1. Inv /\ [Next]_vars => Step
  <2> SUFFICES ASSUME Inv, [Next]_vars, NEW u \in Users,
                      bonuses[u] # Null, bonuses[u] >= 0,
                      bonuses'[u] # Null, bonuses'[u] < 0
               PROVE  \E w \in Workers : /\ Commits(w)
                                         /\ req[w].op = "create"
                                         /\ bonuses[u] # local[w].currentBonuses
    OBVIOUS
  <2>1. bonuses[u] \in Int
    BY DEF Inv, TypeOK, TablesTypeOK
  <2>2. bonuses' # bonuses
    BY <2>1
  <2>3. PICK w \in Workers : Commits(w) /\ InstallRows(w)
    BY <2>2, OnlyCommitsWrite
  <2>4. u \in DOMAIN bonusWrite[w] /\ bonuses'[u] = bonusWrite[w][u]
    BY <2>1, <2>3 DEF InstallRows
  <2>5. bonuses'[u] = bonuses[u] + local[w].points
    BY <2>4 DEF Inv, LocksFit, HeldBalance
  <2>6. local[w].points \in Int /\ local[w].currentBonuses \in Int
    BY DEF Inv, TypeOK, Locals
  <2>7. local[w].points < 0 /\ -local[w].points > bonuses[u]
    BY <2>1, <2>5, <2>6
  <2>8. req[w].op = "create" /\ -local[w].points <= local[w].currentBonuses
    BY <2>7 DEF Inv, PointsFit
  <2> QED BY <2>1, <2>3, <2>6, <2>7, <2>8
<1>2. Inv /\ [Next]_vars => [Step]_vars
  BY <1>1
<1> QED BY <1>2, Invariance, PTL DEF Spec, OverdraftNeedsRace

(* No extension, completed or interrupted, takes a cancelled booking back: *)
(* extendBooking writes its two columns to the row as it is by then.       *)
THEOREM Reopening == Spec => OnlyAdminReopens
<1> DEFINE Step ==
      \A i \in BookingIds :
        /\ bookings[i] # NoRow /\ bookings[i].status = "cancelled"
        /\ bookings'[i] # NoRow /\ bookings'[i].status # "cancelled"
        => \E w \in Workers : /\ Commits(w)
                              /\ req[w].op = "update"
                              /\ req[w].booking_id = i
<1>1. Inv /\ [Next]_vars => Step
  <2> SUFFICES ASSUME Inv, [Next]_vars, NEW i \in BookingIds,
                      bookings[i] # NoRow, bookings[i].status = "cancelled",
                      bookings'[i] # NoRow, bookings'[i].status # "cancelled"
               PROVE  \E w \in Workers : /\ Commits(w)
                                         /\ req[w].op = "update"
                                         /\ req[w].booking_id = i
    OBVIOUS
  <2>1. PICK w \in Workers : Commits(w) /\ InstallRows(w)
    BY OnlyCommitsWrite
  <2>2. i \in DOMAIN rowWrite[w] /\ bookings'[i] = rowWrite[w][i]
    BY <2>1 DEF InstallRows
  <2>3. HeldRow(w, i)
    BY <2>2 DEF Inv, LocksFit
  <2>4. req[w].op \in {"none", "create", "update", "cancel", "extend", "delete"}
    BY RequestShape DEF Inv, TypeOK
  <2>5. req[w].op # "none"
    BY <2>1, RequestShape DEF Inv, TypeOK, StatementsFit, Commits
  <2>6. req[w].op = "update" /\ req[w].booking_id = i
    BY <2>2, <2>3, <2>4, <2>5 DEF HeldRow, StaysInPlace
  <2> QED BY <2>1, <2>6
<1>2. Inv /\ [Next]_vars => [Step]_vars
  BY <1>1
<1> QED BY <1>2, Invariance, PTL DEF Spec, OnlyAdminReopens

(* There is never a deadlock of row locks: a worker that holds an account  *)
(* waits for nobody, and one that holds a booking waits for an account at  *)
(* most.                                                                   *)
THEOREM NoDeadlock == Spec => []WaitsEnd
<1>1. Inv => WaitsEnd
  <2> SUFFICES ASSUME Inv, NEW w \in Workers, NEW v \in Workers, WaitsFor(w, v)
               PROVE  /\ pc[v] # "idle"
                      /\ \A x \in Workers :
                           WaitsFor(v, x) => pc[x] # "idle" /\ ~Blocked(x)
    BY DEF WaitsEnd
  <2>1. \A x \in Workers : DOMAIN bonusWrite[x] # {} =>
          pc[x] \in {"createBooking", "addServices", "commit"}
    BY DEF Inv, LocksFit, HeldBalance
  <2>2. \A x \in Workers : DOMAIN rowWrite[x] # {} =>
          pc[x] \in {"addServices", "addBonuses", "commit"}
    BY DEF Inv, LocksFit, HeldRow
  <2>3. \A x \in Workers : Blocked(x) => pc[x] \in {"write", "addBonuses"}
    BY DEF Blocked, WaitsFor, WaitsForBooking, WaitsForBalance
  <2>4. CASE WaitsForBooking(w, v)
    <3>1. pc[v] \in {"addServices", "addBonuses", "commit"}
      BY <2>2, <2>4 DEF WaitsForBooking
    <3>2. ASSUME NEW x \in Workers, WaitsFor(v, x)
          PROVE  pc[x] # "idle" /\ ~Blocked(x)
      <4>1. WaitsForBalance(v, x)
        BY <3>1, <3>2 DEF WaitsFor, WaitsForBooking
      <4> QED BY <2>1, <2>3, <4>1 DEF WaitsForBalance
    <3> QED BY <3>1, <3>2
  <2>5. CASE WaitsForBalance(w, v)
    <3>1. pc[v] \in {"createBooking", "addServices", "commit"}
      BY <2>1, <2>5 DEF WaitsForBalance
    <3> QED BY <2>3, <3>1 DEF Blocked
  <2> QED BY <2>4, <2>5 DEF WaitsFor
<1> QED BY <1>1, Invariance, PTL
=============================================================================
