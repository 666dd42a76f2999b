------------------------- MODULE BookingDealsProofs -------------------------
(***************************************************************************)
(* Theorems about what one operation of BookingService reads in one        *)
(* statement and stores in another: the price and the points of a new      *)
(* booking, the points of a completed stay, the owner of the row that is   *)
(* cancelled or extended.  They rest on a second invariant, DealsFit, on   *)
(* top of Inv.  It needs the category of a room to stay as it is while a   *)
(* booking is priced, so it holds of BookingService alone and is no part   *)
(* of Inv, which HotelSystem carries over to rooms that change.  The last  *)
(* two sections prove that a commit on current reads is a step of          *)
(* BookingBook, and that one worker implements it.                         *)
(***************************************************************************)
EXTENDS BookingServiceProofs, BookingRefinement

-----------------------------------------------------------------------------
(* The invariant.                                                          *)

(* What an update has credited and written so far.                         *)
CreditFits(w) ==
  req[w].op = "update" =>
    /\ pc[w] = "addBonuses" =>
         Completes(w) /\ local[w].points = PointsGained(local[w].totalCost)
    /\ pc[w] = "commit" =>
         IF Completes(w)
         THEN /\ local[w].points = PointsGained(local[w].totalCost)
              /\ DOMAIN bonusWrite[w] = {req[w].user_id}
         ELSE DOMAIN bonusWrite[w] = {}
    /\ \A i \in DOMAIN rowWrite[w] :
         /\ rowWrite[w][i].status = req[w].status
         /\ rowWrite[w][i].total_cost = local[w].totalCost

(* Past getBookingById the id is an old one, which no insert can be giving *)
(* to another row: an UPDATE that found no row finds none for ever.        *)
LookupFits(w) ==
  req[w].op \in {"update", "cancel", "extend"} /\ pc[w] # "getBookingById" =>
    /\ local[w].oldBooking # NoRow
    /\ req[w].booking_id < nextId
    /\ \A v \in Workers :
         req[v].op = "create" => req[w].booking_id \notin DOMAIN rowWrite[v]
    /\ pc[w] \in {"addBonuses", "commit"} /\ DOMAIN rowWrite[w] = {} =>
         bookings[req[w].booking_id] = NoRow

(* What an owner's operation has found, priced and written so far.         *)
OwnedFits(w) ==
  LET old == local[w].oldBooking IN
  /\ req[w].op \in {"cancel", "extend"} =>
       /\ pc[w] # "getBookingById" => old.user_id = req[w].user_id
       /\ \A i \in DOMAIN rowWrite[w] :
            rowWrite[w][i].user_id = bookings[i].user_id
  /\ req[w].op = "extend" =>
       /\ pc[w] \in {"write", "commit"} =>
            local[w].totalCost = PriceOf(old.room_id, old.check_in_date,
                                         req[w].check_out_date, old.services)
       /\ \A i \in DOMAIN rowWrite[w] :
            /\ rowWrite[w][i].check_out_date = req[w].check_out_date
            /\ rowWrite[w][i].total_cost = local[w].totalCost
            /\ rowWrite[w][i].services = bookings[i].services

(* Points are worth what is off the price, less than one point apart.      *)
Pays(points, off) ==
  /\ points <= 0
  /\ -points * PointValue <= off
  /\ off < (-points + 1) * PointValue

(* What a new booking costs and what has been paid of it in points so far. *)
PaidFits(w) ==
  req[w].op = "create" =>
    /\ pc[w] \in {"getUserById", "selectBonuses"} =>
         local[w].totalCost = FullPrice(req[w])
    /\ pc[w] \in {"addBonuses", "createBooking", "addServices", "commit"} =>
         /\ Pays(local[w].points, FullPrice(req[w]) - local[w].totalCost)
         /\ local[w].points # 0 => bonuses[req[w].user_id] # Null
    /\ pc[w] \in {"addServices", "commit"} => DOMAIN rowWrite[w] # {}
    /\ \A i \in DOMAIN rowWrite[w] :
         /\ rowWrite[w][i].user_id = req[w].user_id
         /\ rowWrite[w][i].total_cost = local[w].totalCost
         /\ pc[w] = "commit" => rowWrite[w][i].services = req[w].services

Deal(w) == CreditFits(w) /\ LookupFits(w) /\ OwnedFits(w) /\ PaidFits(w)

(* Every worker's operation holds what it has computed from what it read.  *)
DealsFit == \A w \in Workers : Deal(w)

-----------------------------------------------------------------------------
(* What the steps of one worker leave to the others.                       *)

(* Worker w leaves alone what the other workers hold and rely on: their    *)
(* sessions, the rooms, the rows they have locked, that a balance is known *)
(* and that a row is gone.  An insert takes the next id.                   *)
Elsewhere(w) ==
  /\ \A v \in Workers \ {w} :
       /\ pc'[v] = pc[v] /\ req'[v] = req[v] /\ local'[v] = local[v]
       /\ rowWrite'[v] = rowWrite[v] /\ bonusWrite'[v] = bonusWrite[v]
       /\ \A i \in DOMAIN rowWrite[v] : bookings'[i] = bookings[i]
  /\ rooms' = rooms
  /\ nextId' \in {nextId, nextId + 1}
  /\ \A u \in Users : bonuses'[u] = Null => bonuses[u] = Null
  /\ req'[w].op = "create" =>
       DOMAIN rowWrite'[w] \subseteq
         {nextId} \cup {i \in DOMAIN rowWrite[w] : req[w].op = "create"}
  /\ \A i \in BookingIds :
       bookings[i] = NoRow /\ bookings'[i] # NoRow
       => req[w].op = "create" /\ i \in DOMAIN rowWrite[w]

(* The full price of a stay depends on the rooms and the request only.     *)
LEMMA FullPriceStays ==
  ASSUME rooms' = rooms, NEW v \in Workers, req'[v] = req[v]
  PROVE  FullPrice(req[v])' = FullPrice(req[v])
  BY DEF FullPrice, PriceOf, StayPrice

(* So the others' part of the invariant stands.                            *)
LEMMA OthersKept ==
  ASSUME Inv, DealsFit, NEW w \in Workers, Elsewhere(w), NEW v \in Workers \ {w}
  PROVE  Deal(v)'
<1> USE DEF Elsewhere
<1>1. Deal(v) /\ req[v] \in Requests \cup {NoRequest} /\ nextId \in Int
  BY DEF DealsFit, Inv, TypeOK, TablesTypeOK
<1>2. CreditFits(v)'
  BY <1>1 DEF Deal, CreditFits, Completes
<1>3. LookupFits(v)'
  <2> SUFFICES ASSUME req[v].op \in {"update", "cancel", "extend"},
                      pc[v] # "getBookingById"
               PROVE  LookupFits(v)'
    BY DEF LookupFits
  <2> DEFINE i == req[v].booking_id
  <2>1. i \in BookingIds /\ i \in Int
    BY <1>1, RequestShape DEF UpdateRequest, CancelRequest, ExtendRequest, BookingIds
  <2>2. /\ local[v].oldBooking # NoRow /\ i < nextId
        /\ \A x \in Workers : req[x].op = "create" => i \notin DOMAIN rowWrite[x]
        /\ pc[v] \in {"addBonuses", "commit"} /\ DOMAIN rowWrite[v] = {} =>
             bookings[i] = NoRow
    BY <1>1 DEF Deal, LookupFits
  <2>3. i < nextId'
    BY <1>1, <2>1, <2>2
  <2>4. \A x \in Workers : req'[x].op = "create" => i \notin DOMAIN rowWrite'[x]
    BY <1>1, <2>1, <2>2
  <2>5. pc[v] \in {"addBonuses", "commit"} /\ DOMAIN rowWrite[v] = {} =>
          bookings'[i] = NoRow
    BY <2>1, <2>2
  <2> QED BY <2>2, <2>3, <2>4, <2>5 DEF LookupFits
<1>4. OwnedFits(v)'
  BY <1>1 DEF Deal, OwnedFits, PriceOf, StayPrice
<1>5. PaidFits(v)'
  <2>1. req[v].op = "create" => req[v].user_id \in Users
    BY <1>1, RequestShape DEF CreateRequest
  <2>2. FullPrice(req[v])' = FullPrice(req[v])
    BY FullPriceStays
  <2> QED BY <1>1, <2>1, <2>2 DEF Deal, PaidFits
<1> QED BY <1>2, <1>3, <1>4, <1>5 DEF Deal

(* A step that keeps the worker's own part keeps the whole.                *)
LEMMA Combined ==
  ASSUME Inv, DealsFit, NEW w \in Workers, Elsewhere(w), Deal(w)'
  PROVE  DealsFit'
  BY OthersKept DEF DealsFit

(* Without a request there is nothing to keep.                             *)
LEMMA IdleDeal ==
  ASSUME NEW w \in Workers, req'[w] = NoRequest
  PROVE  Deal(w)'
  BY DEF Deal, CreditFits, LookupFits, OwnedFits, PaidFits, NoRequest

(* Most statements write nothing committed, and no row of bookings.        *)
LEMMA Quiet ==
  ASSUME Inv, NEW w \in Workers,
         UNCHANGED tables,
         \A v \in Workers \ {w} :
           /\ pc'[v] = pc[v] /\ req'[v] = req[v] /\ local'[v] = local[v]
           /\ rowWrite'[v] = rowWrite[v] /\ bonusWrite'[v] = bonusWrite[v],
         req'[w].op = "create" =>
           \/ req[w].op = "create" /\ DOMAIN rowWrite'[w] = DOMAIN rowWrite[w]
           \/ DOMAIN rowWrite'[w] = {}
  PROVE  Elsewhere(w)
  BY DEF Elsewhere, tables

-----------------------------------------------------------------------------
(* Every step preserves the invariant.                                     *)

LEMMA AbortDeals ==
  ASSUME Inv, DealsFit, NEW w \in Workers, NEW code, Abort(w, code)
  PROVE  DealsFit'
<1>1. req'[w] = NoRequest
  BY DEF Abort, Answer, Inv, TypeOK
<1>2. Elsewhere(w)
  BY <1>1, Quiet DEF Abort, Answer, Inv, TypeOK, NoRequest
<1> QED BY <1>1, <1>2, IdleDeal, Combined

(* The rows a commit installs are nobody else's, and it keeps no balance   *)
(* from being known.                                                       *)
LEMMA CommitDeals ==
  ASSUME Inv, DealsFit, NEW w \in Workers, NEW code, InstallRows(w), Answer(w, code)
  PROVE  DealsFit'
<1>1. req'[w] = NoRequest
  BY DEF Answer, Inv, TypeOK
<1>2. \A v \in Workers \ {w} :
        /\ pc'[v] = pc[v] /\ req'[v] = req[v] /\ local'[v] = local[v]
        /\ rowWrite'[v] = rowWrite[v] /\ bonusWrite'[v] = bonusWrite[v]
  BY DEF Answer, Inv, TypeOK
<1>3. \A v \in Workers \ {w} : \A i \in DOMAIN rowWrite[v] : bookings'[i] = bookings[i]
  BY DEF InstallRows, Inv, LocksFit, TypeOK
<1>4. \A u \in Users : bonuses'[u] = Null => bonuses[u] = Null
  <2> SUFFICES ASSUME NEW u \in Users, bonuses'[u] = Null, bonuses[u] # Null
               PROVE  FALSE
    OBVIOUS
  <2>1. u \in DOMAIN bonusWrite[w] /\ bonuses'[u] = bonusWrite[w][u]
    BY DEF InstallRows
  <2>2. bonuses'[u] = bonuses[u] + local[w].points
    BY <2>1 DEF Inv, LocksFit, HeldBalance
  <2>3. bonuses[u] \in Int /\ local[w].points \in Int
    BY DEF Inv, TypeOK, TablesTypeOK, Locals
  <2> QED BY <2>2, <2>3, NullAssumption
<1>5. \A i \in BookingIds :
        bookings[i] = NoRow /\ bookings'[i] # NoRow
        => req[w].op = "create" /\ i \in DOMAIN rowWrite[w]
  BY DEF InstallRows, Inv, LocksFit, HeldRow
<1>6. rooms' = rooms /\ nextId' = nextId
  BY DEF InstallRows
<1>7. Elsewhere(w)
  BY <1>1, <1>2, <1>3, <1>4, <1>5, <1>6 DEF Elsewhere, NoRequest
<1> QED BY <1>1, <1>7, IdleDeal, Combined

LEMMA DieDeals ==
  ASSUME Die
  PROVE  DealsFit'
  BY IdleDeal DEF Die, DealsFit

LEMMA ReceiveDeals ==
  ASSUME Inv, DealsFit, NEW w \in Workers, Receive(w)
  PROVE  DealsFit'
<1>1. PICK r \in Requests :
        /\ req' = [req EXCEPT ![w] = r]
        /\ pc' = [pc EXCEPT ![w] = FirstStatement(r.op)]
  BY DEF Receive, GoTo
<1>2. pc[w] = "idle" /\ UNCHANGED <<tables, local, session>>
  BY DEF Receive
<1>3. DOMAIN rowWrite[w] = {}
  BY <1>2 DEF Inv, LocksFit, HeldRow, StatementsFit
<1>4. r.op \in {"create", "update", "cancel", "extend", "delete"}
  BY RequestsAssumption
     DEF CreateRequest, UpdateRequest, CancelRequest, ExtendRequest, DeleteRequest
<1>5. Elsewhere(w)
  BY <1>1, <1>2, <1>3, Quiet DEF session, Inv, TypeOK
<1>6. Deal(w)'
  BY <1>1, <1>2, <1>3, <1>4
     DEF Deal, CreditFits, LookupFits, OwnedFits, PaidFits, FirstStatement, session,
         Inv, TypeOK
<1> QED BY <1>5, <1>6, Combined

(* Before its first write a worker has no lock and no points.              *)
LEMMA NothingHeld ==
  ASSUME Inv, NEW w \in Workers,
         pc[w] \notin {"createBooking", "addServices", "addBonuses", "commit"}
  PROVE  DOMAIN rowWrite[w] = {} /\ DOMAIN bonusWrite[w] = {} /\ local[w].points = 0
<1>1. DOMAIN rowWrite[w] = {}
  BY DEF Inv, LocksFit, HeldRow
<1>2. DOMAIN bonusWrite[w] = {}
  BY DEF Inv, LocksFit, HeldBalance
<1> QED BY <1>1, <1>2 DEF Inv, PointsFit

LEMMA IsRoomAvailableDeals ==
  ASSUME Inv, DealsFit, NEW w \in Workers, IsRoomAvailable(w)
  PROVE  DealsFit'
<1>1. CASE ~RoomIsFree(req[w])
  BY <1>1, AbortDeals DEF IsRoomAvailable
<1>2. CASE RoomIsFree(req[w])
  <2>1. /\ pc[w] = "isRoomAvailable"
        /\ pc' = [pc EXCEPT ![w] = "calculateTotalCost"]
        /\ UNCHANGED <<tables, req, local, session>>
    BY <1>2 DEF IsRoomAvailable, GoTo
  <2>2. req[w].op = "create"
    BY <2>1 DEF Inv, StatementsFit, CreateOnly
  <2>3. Elsewhere(w)
    BY <2>1, <2>2, Quiet DEF session, Inv, TypeOK
  <2>4. DOMAIN rowWrite[w] = {}
    BY <2>1, <2>2 DEF Inv, LocksFit, HeldRow
  <2>5. Deal(w)'
    BY <2>1, <2>2, <2>4
       DEF Deal, CreditFits, LookupFits, OwnedFits, PaidFits, session, Inv, TypeOK
  <2> QED BY <2>3, <2>5, Combined
<1> QED BY <1>1, <1>2

(* A worker without points has no booking paid in part.                    *)
LEMMA NothingOff ==
  ASSUME NEW price \in Int
  PROVE  Pays(0, price - price)
  BY DEF Pays, PointValue

LEMMA CalculateTotalCostDeals ==
  ASSUME Inv, DealsFit, NEW w \in Workers, CalculateTotalCost(w)
  PROVE  DealsFit'
<1> DEFINE s == Stay(w)
           cost == PriceOf(s.room_id, s.check_in_date, s.check_out_date, s.services)
           r == req[w]
<1>1. CASE rooms[s.room_id] = NoRow
  BY <1>1, AbortDeals DEF CalculateTotalCost
<1>2. CASE rooms[s.room_id] # NoRow
  <2>1. /\ pc[w] = "calculateTotalCost"
        /\ local' = [local EXCEPT ![w].totalCost = cost]
        /\ pc' = [pc EXCEPT ![w] = AfterPrice(r)]
        /\ UNCHANGED <<tables, req, session>>
    BY <1>2 DEF CalculateTotalCost, GoTo
  <2>2. /\ r.op \in {"create", "update", "extend"}
        /\ r \in Requests \cup {NoRequest} /\ local[w] \in Locals
    BY <2>1 DEF Inv, StatementsFit, TypeOK
  <2>3. /\ pc'[w] = AfterPrice(r) /\ req'[w] = r
        /\ rowWrite'[w] = rowWrite[w] /\ bonusWrite'[w] = bonusWrite[w]
        /\ local'[w] = [local[w] EXCEPT !.totalCost = cost]
        /\ bookings' = bookings /\ bonuses' = bonuses /\ rooms' = rooms
        /\ nextId' = nextId
    BY <2>1 DEF session, tables, Inv, TypeOK
  <2>4. /\ local'[w].totalCost = cost /\ local'[w].points = local[w].points
        /\ local'[w].oldBooking = local[w].oldBooking
    BY <2>2, <2>3 DEF Locals
  <2>5. Elsewhere(w)
    BY <2>1, Quiet DEF session, Inv, TypeOK
  <2>6. DOMAIN rowWrite[w] = {} /\ DOMAIN bonusWrite[w] = {} /\ local[w].points = 0
    BY <2>1, NothingHeld
  <2>7. Deal(w)
    BY DEF DealsFit
  <2>8. CASE r.op = "create"
    <3>1. cost = FullPrice(r)
      BY <2>8 DEF Stay, FullPrice
    <3>2. FullPrice(r)' = FullPrice(r)
      BY <2>3 DEF FullPrice, PriceOf, StayPrice
    <3>3. cost \in Int
      <4>1. /\ r.room_id \in Rooms /\ r.check_in_date \in Int
            /\ r.check_out_date \in Int /\ r.services \in SUBSET Services
        BY <2>2, <2>8, RequestShape DEF CreateRequest
      <4> QED BY <1>2, <2>8, <4>1, PriceIsNat DEF Stay, Inv, TypeOK
    <3>4. Pays(0, cost - cost)
      BY <3>3, NothingOff
    <3>5. pc'[w] \in {"getUserById", "createBooking"}
      BY <2>3, <2>8 DEF AfterPrice
    <3> HIDE DEF cost, s
    <3> QED BY <2>3, <2>4, <2>5, <2>6, <2>8, <3>1, <3>2, <3>4, <3>5, Combined
            DEF Deal, CreditFits, LookupFits, OwnedFits, PaidFits
  <2>9. CASE r.op \in {"update", "extend"}
    <3>1. pc'[w] = "write"
      BY <2>3, <2>9 DEF AfterPrice
    <3>2. LookupFits(w)'
      <4>1. \A v \in Workers : req'[v] = req[v] /\ rowWrite'[v] = rowWrite[v]
        BY <2>1 DEF session
      <4> QED BY <2>1, <2>3, <2>4, <2>7, <2>9, <3>1, <4>1 DEF Deal, LookupFits
    <3>3. OwnedFits(w)'
      <4> DEFINE old == local[w].oldBooking
      <4>1. r.op = "extend" =>
              cost = PriceOf(old.room_id, old.check_in_date, r.check_out_date,
                             old.services)
        BY DEF Stay
      <4>2. r.op = "extend" =>
              local'[w].totalCost = PriceOf(old.room_id, old.check_in_date,
                                            r.check_out_date, old.services)'
        BY <2>3, <2>4, <4>1 DEF PriceOf, StayPrice
      <4> HIDE DEF cost, s
      <4> QED BY <2>1, <2>3, <2>4, <2>6, <2>7, <2>9, <4>2 DEF Deal, OwnedFits
    <3>4. CreditFits(w)' /\ PaidFits(w)'
      BY <2>3, <2>6, <2>9, <3>1 DEF CreditFits, PaidFits
    <3> QED BY <2>5, <3>2, <3>3, <3>4, Combined DEF Deal
  <2> QED BY <2>2, <2>8, <2>9
<1> QED BY <1>1, <1>2

LEMMA GetUserByIdDeals ==
  ASSUME Inv, DealsFit, NEW w \in Workers, GetUserById(w)
  PROVE  DealsFit'
<1> DEFINE r == req[w]
<1>1. /\ pc[w] = "getUserById"
      /\ pc' = [pc EXCEPT ![w] = "selectBonuses"] \/ pc' = [pc EXCEPT ![w] = "createBooking"]
      /\ UNCHANGED <<tables, req, local, session>>
  BY DEF GetUserById, GoTo
<1>2. r.op = "create" /\ r \in Requests \cup {NoRequest} /\ local[w] \in Locals
  BY <1>1 DEF Inv, StatementsFit, CreateOnly, TypeOK
<1>3. DOMAIN rowWrite[w] = {} /\ DOMAIN bonusWrite[w] = {} /\ local[w].points = 0
  BY <1>1, NothingHeld
<1>4. Elsewhere(w)
  BY <1>1, <1>2, Quiet DEF session, Inv, TypeOK
<1>5. local[w].totalCost = FullPrice(r) /\ FullPrice(r)' = FullPrice(r)
  BY <1>1, <1>2, FullPriceStays DEF DealsFit, Deal, PaidFits, tables
<1>6. Pays(0, FullPrice(r) - local[w].totalCost)
  BY <1>2, <1>5, NothingOff DEF Locals
<1>7. pc'[w] \in {"selectBonuses", "createBooking"}
  BY <1>1 DEF Inv, TypeOK
<1>8. Deal(w)'
  BY <1>1, <1>2, <1>3, <1>5, <1>6, <1>7
     DEF Deal, CreditFits, LookupFits, OwnedFits, PaidFits, session
<1> QED BY <1>4, <1>8, Combined

(* The points taken are worth the discount but for its fraction            *)
(* (BookingService.cpp:39).                                                *)
LEMMA DiscountIsPaid ==
  ASSUME NEW points \in Nat, NEW price \in Nat
  PROVE  Pays(-PointsSpent(Discount(points, price)),
              price - (price - Discount(points, price)))
<1>1. Discount(points, price) \in Nat
  BY DiscountBounds
<1>2. \A d \in Nat : Pays(-PointsSpent(d), price - (price - d))
  BY DEF Pays, PointsSpent, PointValue
<1> QED BY <1>1, <1>2

LEMMA SelectBonusesDeals ==
  ASSUME Inv, DealsFit, NEW w \in Workers, SelectBonuses(w)
  PROVE  DealsFit'
<1> DEFINE r == req[w]
           balance == bonuses[r.user_id]
           price == local[w].totalCost
           discount == Discount(balance, price)
<1>1. pc[w] = "selectBonuses" /\ UNCHANGED <<tables, req, session>>
  BY DEF SelectBonuses
<1>2. /\ r.op = "create" /\ r \in Requests \cup {NoRequest} /\ local[w] \in Locals
      /\ r.user_id \in Users
  BY <1>1, RequestShape DEF Inv, StatementsFit, CreateOnly, TypeOK, CreateRequest
<1>3. DOMAIN rowWrite[w] = {} /\ DOMAIN bonusWrite[w] = {} /\ local[w].points = 0
  BY <1>1, NothingHeld
<1>4. Elsewhere(w)
  <2>1. \A v \in Workers \ {w} : pc'[v] = pc[v] /\ local'[v] = local[v]
    BY DEF SelectBonuses, GoTo, Inv, TypeOK
  <2> QED BY <1>1, <1>2, <2>1, Quiet DEF session, Inv, TypeOK
<1>5. price = FullPrice(r) /\ FullPrice(r)' = FullPrice(r) /\ price \in Nat
  BY <1>1, <1>2, FullPriceStays DEF DealsFit, Deal, PaidFits, tables, Locals
<1>6. CASE HasPoints(balance)
  <2>1. /\ local'[w] = [ totalCost |-> price - discount, oldBooking |-> NoRow,
                         currentBonuses |-> balance,
                         points |-> -PointsSpent(discount) ]
        /\ pc'[w] = "addBonuses"
    BY <1>6 DEF SelectBonuses, GoTo, Inv, TypeOK
  <2>2. balance \in Nat /\ balance # Null
    BY <1>2, <1>6 DEF HasPoints, Inv, TypeOK, TablesTypeOK
  <2>3. Pays(-PointsSpent(discount), price - (price - discount))
    BY <1>5, <2>2, DiscountIsPaid
  <2>4. /\ local'[w].totalCost = price - discount
        /\ local'[w].points = -PointsSpent(discount)
    BY <2>1
  <2>5. PaidFits(w)'
    <3>1. bonuses'[r.user_id] # Null
      BY <1>1, <2>2 DEF tables
    <3> HIDE DEF discount, price, balance
    <3> QED BY <1>1, <1>2, <1>3, <1>5, <2>1, <2>3, <2>4, <3>1 DEF PaidFits, session
  <2>6. Deal(w)'
    BY <1>1, <1>2, <2>5 DEF Deal, CreditFits, LookupFits, OwnedFits
  <2> QED BY <1>4, <2>6, Combined
<1>7. CASE ~HasPoints(balance)
  <2>1. local'[w] = local[w] /\ pc'[w] = "createBooking"
    BY <1>7 DEF SelectBonuses, GoTo, Inv, TypeOK
  <2>2. Pays(0, price - price)
    BY <1>5, NothingOff
  <2>3. Deal(w)'
    BY <1>1, <1>2, <1>3, <1>5, <2>1, <2>2
       DEF Deal, CreditFits, LookupFits, OwnedFits, PaidFits, session
  <2> QED BY <1>4, <2>3, Combined
<1> QED BY <1>6, <1>7

LEMMA AddBonusesDeals ==
  ASSUME Inv, DealsFit, NEW w \in Workers, AddBonuses(w)
  PROVE  DealsFit'
<1> DEFINE r == req[w]
<1>1. /\ pc[w] = "addBonuses"
      /\ pc'[w] = IF r.op = "create" THEN "createBooking" ELSE "commit"
      /\ DOMAIN bonusWrite'[w] = {r.user_id}
      /\ UNCHANGED <<tables, req, local, rowWrite>>
  BY DEF AddBonuses, GoTo, Inv, TypeOK
<1>2. /\ r.op \in {"create", "update"} /\ r \in Requests \cup {NoRequest}
      /\ local[w] \in Locals
  BY <1>1 DEF Inv, StatementsFit, TypeOK
<1>3. Elsewhere(w)
  <2>1. \A v \in Workers \ {w} : pc'[v] = pc[v] /\ bonusWrite'[v] = bonusWrite[v]
    BY DEF AddBonuses, GoTo, Inv, TypeOK
  <2> QED BY <1>1, <2>1, Quiet
<1>4. Deal(w) /\ FullPrice(r)' = FullPrice(r)
  BY <1>1, FullPriceStays DEF DealsFit, tables
<1>5. CASE r.op = "create"
  <2>1. DOMAIN rowWrite[w] = {}
    BY <1>1, <1>5 DEF Inv, LocksFit, HeldRow
  <2> QED BY <1>1, <1>3, <1>4, <1>5, <2>1, Combined
          DEF Deal, CreditFits, LookupFits, OwnedFits, PaidFits, tables
<1>6. CASE r.op = "update"
  BY <1>1, <1>3, <1>4, <1>6, Combined
     DEF Deal, CreditFits, LookupFits, OwnedFits, PaidFits, tables, Completes
<1> QED BY <1>2, <1>5, <1>6

LEMMA CreateBookingDeals ==
  ASSUME Inv, DealsFit, NEW w \in Workers, CreateBooking(w)
  PROVE  DealsFit'
<1> DEFINE r == req[w]
           row == [ user_id |-> r.user_id, room_id |-> r.room_id,
                    check_in_date |-> r.check_in_date,
                    check_out_date |-> r.check_out_date,
                    total_cost |-> local[w].totalCost,
                    status |-> "confirmed", services |-> {} ]
<1>1. /\ pc[w] = "createBooking"
      /\ nextId' = nextId + 1
      /\ pc' = [pc EXCEPT ![w] = IF r.services = {} THEN "commit" ELSE "addServices"]
      /\ rowWrite' = [rowWrite EXCEPT ![w] = [i \in {nextId} |-> row]]
      /\ UNCHANGED <<bookings, bonuses, rooms, req, local, bonusWrite>>
  BY DEF CreateBooking, GoTo
<1>2. /\ rowWrite'[w] = [i \in {nextId} |-> row]
      /\ pc'[w] = IF r.services = {} THEN "commit" ELSE "addServices"
      /\ r.op = "create" /\ r \in Requests \cup {NoRequest}
  BY <1>1 DEF Inv, StatementsFit, CreateOnly, TypeOK
<1>3. Elsewhere(w)
  BY <1>1, <1>2 DEF Elsewhere, Inv, TypeOK
<1>4. Deal(w) /\ FullPrice(r)' = FullPrice(r)
  BY <1>1, FullPriceStays DEF DealsFit
<1>5. /\ row.user_id = r.user_id /\ row.total_cost = local[w].totalCost
      /\ row.services = {}
  OBVIOUS
<1> HIDE DEF row
<1>6. PaidFits(w)'
  <2>1. /\ DOMAIN rowWrite'[w] = {nextId}
        /\ \A i \in DOMAIN rowWrite'[w] : rowWrite'[w][i] = row
    BY <1>2
  <2>2. pc'[w] = "commit" => r.services = {}
    BY <1>2
  <2>3. /\ Pays(local[w].points, FullPrice(r) - local[w].totalCost)
        /\ local[w].points # 0 => bonuses[r.user_id] # Null
    BY <1>1, <1>2, <1>4 DEF Deal, PaidFits
  <2>4. pc'[w] \in {"commit", "addServices"}
    BY <1>2
  <2> QED BY <1>1, <1>4, <1>5, <2>1, <2>2, <2>3, <2>4 DEF PaidFits
<1>7. Deal(w)'
  BY <1>1, <1>2, <1>6 DEF Deal, CreditFits, LookupFits, OwnedFits
<1> QED BY <1>3, <1>7, Combined

LEMMA AddServicesDeals ==
  ASSUME Inv, DealsFit, NEW w \in Workers, AddServicesToBooking(w)
  PROVE  DealsFit'
<1> DEFINE r == req[w]
           served == [i \in DOMAIN rowWrite[w] |->
                       [rowWrite[w][i] EXCEPT !.services = r.services]]
<1>1. /\ pc[w] = "addServices"
      /\ rowWrite' = [rowWrite EXCEPT ![w] = served]
      /\ pc' = [pc EXCEPT ![w] = "commit"]
      /\ UNCHANGED <<tables, req, local, bonusWrite>>
  BY DEF AddServicesToBooking, GoTo
<1>2. /\ rowWrite'[w] = served /\ pc'[w] = "commit"
      /\ r.op = "create" /\ r \in Requests \cup {NoRequest}
  BY <1>1 DEF Inv, StatementsFit, CreateOnly, TypeOK
<1>3. DOMAIN served = DOMAIN rowWrite[w]
  OBVIOUS
<1>4. Deal(w) /\ FullPrice(r)' = FullPrice(r)
  BY <1>1, FullPriceStays DEF DealsFit, tables
<1>5. \A i \in DOMAIN rowWrite[w] :
        /\ served[i].user_id = rowWrite[w][i].user_id
        /\ served[i].total_cost = rowWrite[w][i].total_cost
        /\ served[i].services = r.services
  <2>1. \A i \in DOMAIN rowWrite[w] : rowWrite[w][i] \in Booking
    BY <1>2 DEF Inv, TypeOK, LocksFit, HeldRow
  <2> QED BY <2>1 DEF Booking
<1> HIDE DEF served
<1>6. Elsewhere(w)
  <2>1. \A v \in Workers \ {w} : pc'[v] = pc[v] /\ rowWrite'[v] = rowWrite[v]
    BY <1>1 DEF Inv, TypeOK
  <2> QED BY <1>1, <1>2, <1>3, <2>1, Quiet
<1>7. PaidFits(w)'
  BY <1>1, <1>2, <1>3, <1>4, <1>5 DEF Deal, PaidFits, tables
<1>8. Deal(w)'
  BY <1>1, <1>2, <1>7 DEF Deal, CreditFits, LookupFits, OwnedFits
<1> QED BY <1>6, <1>8, Combined

LEMMA GetBookingByIdDeals ==
  ASSUME Inv, DealsFit, NEW w \in Workers, GetBookingById(w)
  PROVE  DealsFit'
<1> DEFINE r == req[w]
           i == r.booking_id
           row == bookings[i]
<1>1. CASE ~Admitted(r, row)
  BY <1>1, AbortDeals DEF GetBookingById
<1>2. CASE Admitted(r, row)
  <2>1. /\ pc[w] = "getBookingById"
        /\ local' = [local EXCEPT ![w].oldBooking = row]
        /\ pc' = [pc EXCEPT ![w] = IF r.op = "cancel" THEN "write"
                                   ELSE "calculateTotalCost"]
        /\ UNCHANGED <<tables, req, session>>
    BY <1>2 DEF GetBookingById, GoTo
  <2>2. /\ r.op \in {"update", "cancel", "extend"} /\ i \in BookingIds /\ i \in Int
        /\ local[w] \in Locals
    BY <2>1, RequestShape
       DEF Inv, TypeOK, StatementsFit, UpdateRequest, CancelRequest, ExtendRequest,
           BookingIds
  <2>3. /\ local'[w].oldBooking = row
        /\ pc'[w] \in {"write", "calculateTotalCost"}
        /\ r.op = "extend" => pc'[w] = "calculateTotalCost"
    BY <2>1, <2>2 DEF Inv, TypeOK, Locals
  <2>4. DOMAIN rowWrite[w] = {} /\ DOMAIN bonusWrite[w] = {}
    BY <2>1, NothingHeld
  <2>5. Elsewhere(w)
    BY <2>1, <2>2, Quiet DEF session, Inv, TypeOK
  <2>6. LookupFits(w)'
    <3>1. row # NoRow /\ nextId \in Int
      BY <1>2 DEF Admitted, Inv, TypeOK, TablesTypeOK
    <3>2. i < nextId
      BY <2>2, <3>1 DEF Inv, SequenceFits
    <3>3. \A v \in Workers : req[v].op = "create" => i \notin DOMAIN rowWrite[v]
      BY <3>1 DEF Inv, LocksFit, HeldRow
    <3> HIDE DEF row
    <3> QED BY <2>1, <2>3, <3>1, <3>2, <3>3 DEF LookupFits, session, tables
  <2>7. OwnedFits(w)'
    BY <1>2, <2>1, <2>3, <2>4 DEF OwnedFits, Admitted, session
  <2> QED BY <2>1, <2>2, <2>3, <2>4, <2>5, <2>6, <2>7, Combined
          DEF Deal, CreditFits, PaidFits, session
<1> QED BY <1>1, <1>2

(* What the four writes have in common: the lookup still stands, and a row *)
(* that is not there is not locked.                                        *)
LEMMA WriteLookup ==
  ASSUME Inv, DealsFit, NEW w \in Workers, NEW row, WriteRow(w, row),
         UNCHANGED <<tables, req>>,
         \A v \in Workers \ {w} : pc'[v] = pc[v] /\ local'[v] = local[v],
         local'[w].oldBooking = local[w].oldBooking,
         pc'[w] \in {"addBonuses", "commit"}, bonusWrite' = bonusWrite
  PROVE  /\ Elsewhere(w) /\ LookupFits(w)'
         /\ \A i \in DOMAIN rowWrite'[w] :
              /\ i = req[w].booking_id /\ rowWrite'[w][i] = row
              /\ bookings[i] \in Booking
<1> DEFINE id == req[w].booking_id
<1>1. /\ pc[w] = "write"
      /\ rowWrite'[w] = IF bookings[id] = NoRow THEN NoWrites ELSE [x \in {id} |-> row]
      /\ \A v \in Workers \ {w} : rowWrite'[v] = rowWrite[v]
  BY DEF WriteRow, Inv, TypeOK
<1>2. req[w].op \in {"update", "cancel", "extend", "delete"} /\ id \in BookingIds
  BY <1>1, RequestShape
     DEF Inv, TypeOK, StatementsFit, UpdateRequest, CancelRequest, ExtendRequest,
         DeleteRequest
<1>3. Elsewhere(w)
  BY <1>1, <1>2, Quiet
<1>4. \A i \in DOMAIN rowWrite'[w] :
        i = id /\ rowWrite'[w][i] = row /\ bookings[i] \in Booking
  BY <1>1, <1>2, EmptySession DEF Inv, TypeOK, TablesTypeOK
<1>5. DOMAIN rowWrite'[w] = {} => bookings[id] = NoRow
  BY <1>1
<1>6. LookupFits(w)'
  <2>1. LookupFits(w)
    BY DEF DealsFit, Deal
  <2>2. \A v \in Workers : req[v].op = "create" => v # w
    BY <1>2
  <2> QED BY <1>1, <1>2, <1>5, <2>1, <2>2 DEF LookupFits, tables
<1> QED BY <1>3, <1>4, <1>6

LEMMA WriteDeals ==
  ASSUME Inv, DealsFit, NEW w \in Workers, Write(w)
  PROVE  DealsFit'
<1> DEFINE r == req[w]
           old == bookings[r.booking_id]
<1>1. /\ pc[w] = "write" /\ UNCHANGED <<tables, req, bonusWrite>>
      /\ \A v \in Workers \ {w} : pc'[v] = pc[v] /\ local'[v] = local[v]
      /\ pc'[w] \in {"addBonuses", "commit"}
      /\ local[w] \in Locals
  BY DEF Write, AdminUpdateBooking, UpdateStatus, UpdateDateAndCost, DeleteBooking,
         WriteRow, GoTo, Inv, TypeOK
<1>2. Deal(w) /\ DOMAIN bonusWrite[w] = {}
  BY <1>1, NothingHeld DEF DealsFit
<1>3. CASE AdminUpdateBooking(w)
  <2> DEFINE new == [old EXCEPT
                       !.user_id = r.user_id, !.room_id = r.room_id,
                       !.check_in_date = r.check_in_date,
                       !.check_out_date = r.check_out_date,
                       !.total_cost = local[w].totalCost, !.status = r.status]
             points == PointsGained(local[w].totalCost)
  <2>1. /\ r.op = "update" /\ WriteRow(w, new)
        /\ IF Completes(w)
           THEN pc'[w] = "addBonuses" /\ local'[w] = [local[w] EXCEPT !.points = points]
           ELSE pc'[w] = "commit" /\ local'[w] = local[w]
    BY <1>3 DEF AdminUpdateBooking, GoTo, Inv, TypeOK
  <2>2. /\ local'[w].oldBooking = local[w].oldBooking
        /\ local'[w].totalCost = local[w].totalCost
        /\ Completes(w) => local'[w].points = points
    BY <1>1, <2>1 DEF Locals
  <2>3. old \in Booking => new.status = r.status /\ new.total_cost = local[w].totalCost
    BY DEF Booking
  <2>4. Completes(w)' <=> Completes(w)
    BY <1>1, <2>2 DEF Completes
  <2>5. points' = PointsGained(local'[w].totalCost)
    OBVIOUS
  <2> HIDE DEF new
  <2>6. /\ Elsewhere(w) /\ LookupFits(w)'
        /\ \A i \in DOMAIN rowWrite'[w] :
             i = r.booking_id /\ rowWrite'[w][i] = new /\ bookings[i] \in Booking
    BY <1>1, <2>1, <2>2, WriteLookup
  <2>7. CreditFits(w)'
    BY <1>1, <1>2, <2>1, <2>2, <2>3, <2>4, <2>6 DEF CreditFits
  <2> QED BY <1>1, <2>1, <2>6, <2>7, Combined DEF Deal, OwnedFits, PaidFits
<1>4. CASE UpdateStatus(w)
  <2> DEFINE new == [old EXCEPT !.status = "cancelled"]
  <2>1. /\ r.op = "cancel" /\ WriteRow(w, new)
        /\ pc'[w] = "commit" /\ local' = local
    BY <1>4 DEF UpdateStatus, GoTo, Inv, TypeOK
  <2>2. old \in Booking => new.user_id = old.user_id
    BY DEF Booking
  <2> HIDE DEF new
  <2>3. /\ Elsewhere(w) /\ LookupFits(w)'
        /\ \A i \in DOMAIN rowWrite'[w] :
             i = r.booking_id /\ rowWrite'[w][i] = new /\ bookings[i] \in Booking
    BY <1>1, <2>1, WriteLookup
  <2>4. OwnedFits(w)'
    BY <1>1, <1>2, <2>1, <2>2, <2>3 DEF Deal, OwnedFits, tables
  <2> QED BY <1>1, <2>1, <2>3, <2>4, Combined DEF Deal, CreditFits, PaidFits
<1>5. CASE UpdateDateAndCost(w)
  <2> DEFINE new == [old EXCEPT !.check_out_date = r.check_out_date,
                                !.total_cost = local[w].totalCost]
  <2>1. /\ r.op = "extend" /\ WriteRow(w, new)
        /\ pc'[w] = "commit" /\ local' = local
    BY <1>5 DEF UpdateDateAndCost, GoTo, Inv, TypeOK
  <2>2. old \in Booking => /\ new.user_id = old.user_id
                           /\ new.services = old.services
                           /\ new.check_out_date = r.check_out_date
                           /\ new.total_cost = local[w].totalCost
    BY DEF Booking
  <2> HIDE DEF new
  <2>3. /\ Elsewhere(w) /\ LookupFits(w)'
        /\ \A i \in DOMAIN rowWrite'[w] :
             i = r.booking_id /\ rowWrite'[w][i] = new /\ bookings[i] \in Booking
    BY <1>1, <2>1, WriteLookup
  <2>4. OwnedFits(w)'
    BY <1>1, <1>2, <2>1, <2>2, <2>3 DEF Deal, OwnedFits, PriceOf, StayPrice, tables
  <2> QED BY <1>1, <2>1, <2>3, <2>4, Combined DEF Deal, CreditFits, PaidFits
<1>6. CASE DeleteBooking(w)
  <2>1. /\ r.op = "delete" /\ WriteRow(w, NoRow) /\ local' = local
    BY <1>6 DEF DeleteBooking
  <2>2. Elsewhere(w) /\ LookupFits(w)'
    BY <1>1, <2>1, WriteLookup
  <2> QED BY <1>1, <2>1, <2>2, Combined DEF Deal, CreditFits, OwnedFits, PaidFits
<1> QED BY <1>3, <1>4, <1>5, <1>6 DEF Write

LEMMA StutterDeals ==
  ASSUME DealsFit, UNCHANGED vars
  PROVE  DealsFit'
<1> SUFFICES ASSUME NEW w \in Workers PROVE Deal(w)'
  BY DEF DealsFit
<1>1. Deal(w) /\ FullPrice(req[w])' = FullPrice(req[w])
  BY FullPriceStays DEF DealsFit, vars, tables
<1> QED BY <1>1 DEF vars, tables, Deal, CreditFits, LookupFits, OwnedFits, PaidFits,
                    Completes, PriceOf, StayPrice

LEMMA InitDeals == Init => DealsFit
  BY DEF Init, DealsFit, Deal, CreditFits, LookupFits, OwnedFits, PaidFits, NoRequest

LEMMA NextDeals == Inv /\ DealsFit /\ [Next]_vars => DealsFit'
<1> SUFFICES ASSUME Inv, DealsFit, [Next]_vars PROVE DealsFit'
  OBVIOUS
<1>1. CASE UNCHANGED vars
  BY <1>1, StutterDeals
<1>2. CASE Crash
  BY <1>2, DieDeals DEF Crash
<1>3. ASSUME NEW w \in Workers, Receive(w) PROVE DealsFit'
  BY <1>3, ReceiveDeals
<1>4. ASSUME NEW w \in Workers, Create(w) PROVE DealsFit'
  BY <1>4, IsRoomAvailableDeals, GetUserByIdDeals, SelectBonusesDeals,
     CreateBookingDeals, AddServicesDeals DEF Create
<1>5. ASSUME NEW w \in Workers,
             GetBookingById(w) \/ CalculateTotalCost(w) \/ AddBonuses(w) \/ Write(w)
      PROVE  DealsFit'
  BY <1>5, GetBookingByIdDeals, CalculateTotalCostDeals, AddBonusesDeals, WriteDeals
<1>6. ASSUME NEW w \in Workers, Commit(w) \/ CommitInDoubt(w) PROVE DealsFit'
  BY <1>6, CommitDeals DEF Commit, CommitInDoubt
<1>7. ASSUME NEW w \in Workers, Fail(w) PROVE DealsFit'
  BY <1>7, AbortDeals DEF Fail
<1> QED BY <1>1, <1>2, <1>3, <1>4, <1>5, <1>6, <1>7 DEF Next, Serve, Advance

-----------------------------------------------------------------------------
(* The theorems.                                                           *)

(* Every operation holds, at every statement, what follows from what it    *)
(* has read and been asked: its price, points, owner and row.              *)
THEOREM Deals == Spec => [](Inv /\ DealsFit)
<1>1. Init => Inv /\ DealsFit
  BY InitInv, InitDeals
<1>2. Inv /\ DealsFit /\ [Next]_vars => (Inv /\ DealsFit)'
  BY NextInv, NextDeals
<1> QED BY <1>1, <1>2, PTL DEF Spec

(* Points that pay for a discount, counted as they leave the account.      *)
LEMMA PaysExactly ==
  ASSUME NEW spent \in Int, NEW points \in Int, NEW off,
         spent + points = 0, Pays(points, off)
  PROVE  /\ 0 <= spent
         /\ spent * PointValue <= off
         /\ off < (spent + 1) * PointValue
<1>1. spent = -points
  OBVIOUS
<1> QED BY <1>1 DEF Pays, PointValue

(* A booking appears with its services, at the price of its stay less the  *)
(* discount that the points taken in the same step pay for; no balance     *)
(* sinks otherwise (BookingService.cpp:38-48).                             *)
THEOREM Payment == Spec => DiscountIsPaidFor
<1> DEFINE Sold(w, i) ==
      /\ bookings[i] = NoRow /\ bookings'[i] # NoRow
      /\ bookings'[i].services = req[w].services
      /\ LET row == bookings'[i]
             u == row.user_id
             off == PriceOf(row.room_id, row.check_in_date,
                            row.check_out_date, row.services)
                    - row.total_cost
             spent == IF bonuses[u] = Null THEN 0
                      ELSE bonuses[u] - bonuses'[u]
         IN /\ 0 <= spent /\ spent * PointValue <= off
            /\ off < (spent + 1) * PointValue
      /\ \A u \in Users \ {bookings'[i].user_id} : bonuses'[u] = bonuses[u]
    Step ==
      \A w \in Workers :
        /\ Commits(w)
        /\ \/ req[w].op = "create"
           \/ \E u \in Users : bonuses[u] # Null /\ bonuses'[u] < bonuses[u]
        => \E i \in BookingIds : Sold(w, i)
<1>1. Inv /\ DealsFit /\ [Next]_vars => Step
  <2> SUFFICES ASSUME Inv, DealsFit, [Next]_vars, NEW w \in Workers, Commits(w),
                      \/ req[w].op = "create"
                      \/ \E u \in Users : bonuses[u] # Null /\ bonuses'[u] < bonuses[u]
               PROVE  \E i \in BookingIds : Sold(w, i)
    OBVIOUS
  <2> DEFINE r == req[w]
             points == local[w].points
  <2>1. InstallRows(w) /\ pc[w] = "commit" /\ PaidFits(w)
    BY CommitsInstalls DEF DealsFit, Deal
  <2>2. /\ r \in Requests \cup {NoRequest} /\ local[w] \in Locals
        /\ \A u \in Users : bonuses[u] \in Int \cup {Null}
    BY DEF Inv, TypeOK, TablesTypeOK
  <2>3. \A u \in Users :
          \/ bonuses'[u] = bonuses[u]
          \/ /\ u = r.user_id /\ DOMAIN bonusWrite[w] # {}
             /\ bonuses'[u] = IF bonuses[u] = Null THEN Null ELSE bonuses[u] + points
    BY <2>1 DEF InstallRows, Inv, LocksFit, HeldBalance
  <2>4. r.op = "create"
    <3>1. CASE \E u \in Users : bonuses[u] # Null /\ bonuses'[u] < bonuses[u]
      <4>1. PICK u \in Users : bonuses[u] # Null /\ bonuses'[u] < bonuses[u]
        BY <3>1
      <4>2. bonuses[u] \in Int /\ points \in Int
        BY <2>2, <4>1 DEF Locals
      <4>3. points < 0
        BY <2>3, <4>1, <4>2
      <4> QED BY <4>3 DEF Inv, PointsFit
    <3> QED BY <3>1
  <2>5. PICK i \in DOMAIN rowWrite[w] :
          /\ HeldRow(w, i) /\ i \in BookingIds /\ bookings'[i] = rowWrite[w][i]
    BY <2>1, <2>4 DEF PaidFits, Inv, LocksFit, TypeOK, InstallRows
  <2> DEFINE row == rowWrite[w][i]
  <2>6. /\ bookings[i] = NoRow /\ row # NoRow
        /\ row.room_id = r.room_id /\ row.check_in_date = r.check_in_date
        /\ row.check_out_date = r.check_out_date
        /\ row.user_id = r.user_id /\ row.services = r.services
        /\ row.total_cost = local[w].totalCost
    BY <2>1, <2>4, <2>5 DEF HeldRow, PaidFits
  <2>7. /\ Pays(points, FullPrice(r) - local[w].totalCost)
        /\ points # 0 => bonuses[r.user_id] # Null
    BY <2>1, <2>4 DEF PaidFits
  <2>8. points \in Int /\ r.user_id \in Users
    BY <2>2, <2>4, RequestShape DEF Locals, CreateRequest
  <2> DEFINE u == r.user_id
             spent == IF bonuses[u] = Null THEN 0 ELSE bonuses[u] - bonuses'[u]
  <2>9. spent \in Int /\ spent + points = 0
    <3>1. CASE points = 0
      <4>1. CASE bonuses[u] = Null
        <5>1. spent = 0
          BY <4>1
        <5> HIDE DEF spent, points
        <5> QED BY <3>1, <5>1
      <4>2. CASE bonuses[u] \in Int /\ bonuses[u] # Null
        <5>1. bonuses'[u] = bonuses[u]
          BY <2>3, <2>8, <3>1, <4>2
        <5> QED BY <3>1, <4>2, <5>1
      <4> QED BY <2>2, <2>8, <4>1, <4>2
    <3>2. CASE points # 0
      <4>1. DOMAIN bonusWrite[w] = {u} /\ bonuses[u] \in Int
        BY <2>1, <2>2, <2>7, <2>8, <3>2 DEF Inv, PointsFit
      <4>2. bonuses'[u] = bonuses[u] + points
        BY <2>1, <2>7, <2>8, <3>2, <4>1 DEF InstallRows, Inv, LocksFit, HeldBalance
      <4> QED BY <2>7, <2>8, <3>2, <4>1, <4>2
    <3> QED BY <3>1, <3>2
  <2>10. /\ 0 <= spent
         /\ spent * PointValue <= FullPrice(r) - local[w].totalCost
         /\ FullPrice(r) - local[w].totalCost < (spent + 1) * PointValue
    <3> HIDE DEF spent, points
    <3> QED BY <2>7, <2>8, <2>9, PaysExactly
  <2>11. \A x \in Users \ {u} : bonuses'[x] = bonuses[x]
    BY <2>3
  <2>12. FullPrice(r) = PriceOf(row.room_id, row.check_in_date, row.check_out_date,
                                row.services)
    BY <2>6 DEF FullPrice
  <2> QED BY <2>5, <2>6, <2>10, <2>11, <2>12
<1>2. Inv /\ DealsFit /\ [Next]_vars => [Step]_vars
  BY <1>1
<1> QED BY <1>2, Deals, PTL DEF Spec, DiscountIsPaidFor

(* A row that was found by its id and is still the one that was read has   *)
(* been written.                                                           *)
LEMMA UnracedIsWritten ==
  ASSUME Inv, DealsFit, NEW w \in Workers, Unraced(w), InstallRows(w), pc[w] = "commit",
         req[w].op \in {"update", "cancel", "extend"}
  PROVE  LET i == req[w].booking_id IN
         /\ i \in DOMAIN rowWrite[w]
         /\ bookings'[i] = rowWrite[w][i]
         /\ bookings[i] = local[w].oldBooking
<1> DEFINE i == req[w].booking_id
<1>1. /\ local[w].oldBooking # NoRow
      /\ DOMAIN rowWrite[w] = {} => bookings[i] = NoRow
  BY DEF DealsFit, Deal, LookupFits
<1>2. PICK x \in DOMAIN rowWrite[w] : TRUE
  BY <1>1 DEF Unraced
<1>3. x = i
  BY DEF Inv, LocksFit, HeldRow
<1>4. i \in BookingIds
  BY <1>2, <1>3 DEF Inv, TypeOK
<1> QED BY <1>2, <1>3, <1>4 DEF InstallRows, Unraced

(* Points are credited exactly by the update that completes a stay, and    *)
(* for the price it wrote, unless the row changed after it was read        *)
(* (BookingService.cpp:110).                                               *)
THEOREM Credit == Spec => UnracedCreditIsEarned
<1> DEFINE Step ==
      \A w \in Workers :
        LET i == req[w].booking_id
            earned == bookings'[i].total_cost \div (10 * PointValue)
        IN /\ Commits(w) /\ req[w].op = "update" /\ Unraced(w)
           => bonuses' =
                IF /\ bookings[i].status # "completed"
                   /\ bookings'[i].status = "completed"
                THEN [bonuses EXCEPT ![req[w].user_id] =
                        IF @ = Null THEN Null ELSE @ + earned]
                ELSE bonuses
<1>1. Inv /\ DealsFit /\ [Next]_vars => Step
  <2> SUFFICES ASSUME Inv, DealsFit, [Next]_vars, NEW w \in Workers,
                      Commits(w), req[w].op = "update", Unraced(w)
               PROVE  LET i == req[w].booking_id
                          earned == bookings'[i].total_cost \div (10 * PointValue)
                      IN bonuses' =
                           IF /\ bookings[i].status # "completed"
                              /\ bookings'[i].status = "completed"
                           THEN [bonuses EXCEPT ![req[w].user_id] =
                                   IF @ = Null THEN Null ELSE @ + earned]
                           ELSE bonuses
    OBVIOUS
  <2> DEFINE r == req[w]
             i == r.booking_id
             u == r.user_id
  <2>1. InstallRows(w) /\ pc[w] = "commit" /\ CreditFits(w)
    BY CommitsInstalls DEF DealsFit, Deal
  <2>2. /\ i \in DOMAIN rowWrite[w] /\ bookings'[i] = rowWrite[w][i]
        /\ bookings[i] = local[w].oldBooking
    BY <2>1, UnracedIsWritten
  <2>3. /\ bookings'[i].status = r.status
        /\ bookings'[i].total_cost = local[w].totalCost
    BY <2>1, <2>2 DEF CreditFits
  <2>4. Completes(w) <=> /\ bookings[i].status # "completed"
                         /\ bookings'[i].status = "completed"
    BY <2>2, <2>3 DEF Completes
  <2>5. bonuses \in [Users -> Int \cup {Null}]
    BY DEF Inv, TypeOK, TablesTypeOK
  <2>6. CASE ~Completes(w)
    <3>1. DOMAIN bonusWrite[w] = {}
      BY <2>1, <2>6 DEF CreditFits
    <3>2. bonuses' = bonuses
      BY <2>1, <2>5, <3>1 DEF InstallRows
    <3> QED BY <2>4, <2>6, <3>2
  <2>7. CASE Completes(w)
    <3>1. /\ DOMAIN bonusWrite[w] = {u}
          /\ local[w].points = bookings'[i].total_cost \div (10 * PointValue)
      BY <2>1, <2>3, <2>7 DEF CreditFits, PointsGained
    <3>2. bonusWrite[w][u] =
            IF bonuses[u] = Null THEN Null ELSE bonuses[u] + local[w].points
      BY <3>1 DEF Inv, LocksFit, HeldBalance
    <3>3. bonuses' = [x \in Users |-> IF x = u THEN bonusWrite[w][u] ELSE bonuses[x]]
      BY <2>1, <3>1 DEF InstallRows
    <3>4. bonuses' = [bonuses EXCEPT ![u] =
                        IF @ = Null THEN Null ELSE @ + local[w].points]
      BY <2>5, <3>2, <3>3
    <3> QED BY <2>4, <2>7, <3>1, <3>4
  <2> QED BY <2>6, <2>7
<1>2. Inv /\ DealsFit /\ [Next]_vars => [Step]_vars
  BY <1>1
<1> QED BY <1>2, Deals, PTL DEF Spec, UnracedCreditIsEarned

(* A client cancels and extends his own booking only, and an extension     *)
(* leaves the price of the row's own stay, unless the row changed after it *)
(* was read (BookingService.cpp:133, 151).                                 *)
THEOREM Ownership == Spec => OwnerActsUnlessRaced
<1> DEFINE Step ==
      \A w \in Workers :
        LET i == req[w].booking_id
            row == bookings'[i]
        IN /\ Commits(w) /\ req[w].op \in {"cancel", "extend"} /\ Unraced(w)
           => /\ row.user_id = req[w].user_id
              /\ req[w].op = "extend" =>
                   row.total_cost = PriceOf(row.room_id, row.check_in_date,
                                            row.check_out_date, row.services)
<1>1. Inv /\ DealsFit /\ [Next]_vars => Step
  <2> SUFFICES ASSUME Inv, DealsFit, [Next]_vars, NEW w \in Workers,
                      Commits(w), req[w].op \in {"cancel", "extend"}, Unraced(w)
               PROVE  LET row == bookings'[req[w].booking_id] IN
                      /\ row.user_id = req[w].user_id
                      /\ req[w].op = "extend" =>
                           row.total_cost = PriceOf(row.room_id, row.check_in_date,
                                                    row.check_out_date, row.services)
    OBVIOUS
  <2> DEFINE r == req[w]
             i == r.booking_id
             old == local[w].oldBooking
  <2>1. InstallRows(w) /\ pc[w] = "commit" /\ OwnedFits(w)
    BY CommitsInstalls DEF DealsFit, Deal
  <2>2. /\ i \in DOMAIN rowWrite[w] /\ bookings'[i] = rowWrite[w][i]
        /\ bookings[i] = old /\ HeldRow(w, i)
    BY <2>1, UnracedIsWritten DEF Inv, LocksFit
  <2>3. bookings'[i].user_id = r.user_id
    BY <2>1, <2>2 DEF OwnedFits
  <2>4. ASSUME r.op = "extend"
        PROVE  bookings'[i].total_cost =
                 PriceOf(bookings'[i].room_id, bookings'[i].check_in_date,
                         bookings'[i].check_out_date, bookings'[i].services)
    BY <2>1, <2>2, <2>4 DEF OwnedFits, HeldRow, StaysInPlace
  <2> QED BY <2>3, <2>4
<1>2. Inv /\ DealsFit /\ [Next]_vars => [Step]_vars
  BY <1>1
<1> QED BY <1>2, Deals, PTL DEF Spec, OwnerActsUnlessRaced
-----------------------------------------------------------------------------
(* The abstract specification.  What a worker computes and writes is what  *)
(* BookingBook computes from the same reads: the invariant ExactFits.      *)

(* Worker w leaves alone the sessions of the others, the rooms and the     *)
(* rows that others have locked.                                           *)
Apart(w) ==
  /\ \A v \in Workers \ {w} :
       /\ pc'[v] = pc[v] /\ req'[v] = req[v] /\ local'[v] = local[v]
       /\ rowWrite'[v] = rowWrite[v] /\ bonusWrite'[v] = bonusWrite[v]
       /\ \A i \in DOMAIN rowWrite[v] : bookings'[i] = bookings[i]
  /\ rooms' = rooms

LEMMA ServeApart ==
  ASSUME Inv, NEW w \in Workers, Serve(w)
  PROVE  Apart(w)
<1> USE DEF Inv, TypeOK, tables, session, GoTo
<1>1. CASE Receive(w)
  BY <1>1 DEF Receive, Apart
<1>2. ASSUME NEW code, Abort(w, code) PROVE Apart(w)
  BY <1>2 DEF Abort, Answer, Apart
<1>3. ASSUME NEW code, InstallRows(w), Answer(w, code) PROVE Apart(w)
  BY <1>3 DEF InstallRows, Answer, Apart, LocksFit
<1>4. CASE IsRoomAvailable(w)
  BY <1>2, <1>4 DEF IsRoomAvailable, Apart
<1>5. CASE GetUserById(w) \/ SelectBonuses(w)
  BY <1>5 DEF GetUserById, SelectBonuses, Apart
<1>6. CASE CreateBooking(w) \/ AddServicesToBooking(w)
  BY <1>6 DEF CreateBooking, AddServicesToBooking, Apart
<1>7. CASE GetBookingById(w)
  BY <1>2, <1>7 DEF GetBookingById, Apart
<1>8. CASE CalculateTotalCost(w)
  BY <1>2, <1>8 DEF CalculateTotalCost, Apart
<1>9. CASE AddBonuses(w)
  BY <1>9 DEF AddBonuses, Apart
<1>10. CASE Write(w)
  BY <1>10 DEF Write, AdminUpdateBooking, UpdateStatus, UpdateDateAndCost,
               DeleteBooking, WriteRow, Apart
<1>11. CASE Commit(w) \/ CommitInDoubt(w) \/ Fail(w)
  BY <1>2, <1>3, <1>11 DEF Commit, CommitInDoubt, Fail
<1> QED BY <1>1, <1>4, <1>5, <1>6, <1>7, <1>8, <1>9, <1>10, <1>11
        DEF Serve, Advance, Create

(* A worker whose session, rooms and locked rows stay is as exact as it    *)
(* was.                                                                    *)
LEMMA ExactStays ==
  ASSUME NEW v \in Workers, Exact(v),
         pc'[v] = pc[v], req'[v] = req[v], local'[v] = local[v],
         rowWrite'[v] = rowWrite[v], bonusWrite'[v] = bonusWrite[v],
         \A i \in DOMAIN rowWrite[v] : bookings'[i] = bookings[i],
         rooms' = rooms
  PROVE  Exact(v)'
<1>1. FullPrice(req[v])' = FullPrice(req[v])
  BY FullPriceStays
<1>2. CreateExact(v) => CreateExact(v)'
  <2>1. Undiscounted(v) => Undiscounted(v)'
    BY <1>1 DEF Undiscounted
  <2>2. Discounted(v) => Discounted(v)'
    BY <1>1 DEF Discounted
  <2> QED BY <2>1, <2>2 DEF CreateExact
<1>3. UpdateExact(v) => UpdateExact(v)'
  BY DEF UpdateExact, PriceOf, StayPrice
<1>4. CancelExact(v) => CancelExact(v)'
  BY DEF CancelExact
<1>5. ExtendExact(v) => ExtendExact(v)'
  BY DEF ExtendExact
<1> QED BY <1>2, <1>3, <1>4, <1>5 DEF Exact

LEMMA ExactCombined ==
  ASSUME ExactFits, NEW w \in Workers, Apart(w), Exact(w)'
  PROVE  ExactFits'
<1>1. ASSUME NEW v \in Workers \ {w} PROVE Exact(v)'
  BY <1>1, ExactStays DEF Apart, ExactFits
<1> QED BY <1>1 DEF ExactFits

LEMMA IdleExact ==
  ASSUME NEW w \in Workers, req'[w] = NoRequest, local'[w] = NoLocals
  PROVE  Exact(w)'
  BY DEF Exact, NoRequest, NoLocals

LEMMA AnswerExact ==
  ASSUME Inv, NEW w \in Workers, NEW code, Answer(w, code)
  PROVE  Exact(w)'
  BY IdleExact DEF Answer, Inv, TypeOK

LEMMA ReceiveExact ==
  ASSUME Inv, ExactFits, NEW w \in Workers, Receive(w)
  PROVE  Exact(w)'
<1>1. PICK r \in Requests : req'[w] = r /\ pc'[w] = FirstStatement(r.op)
  BY DEF Receive, GoTo, Inv, TypeOK
<1>2. pc[w] = "idle" /\ UNCHANGED <<local, session>>
  BY DEF Receive
<1>3. DOMAIN rowWrite[w] = {} /\ DOMAIN bonusWrite[w] = {}
  BY <1>2, NothingHeld
<1>4. r.op \in {"create", "update", "cancel", "extend", "delete"}
  BY RequestsAssumption
     DEF CreateRequest, UpdateRequest, CancelRequest, ExtendRequest, DeleteRequest
<1>5. local[w].currentBonuses = 0
  BY <1>2 DEF ExactFits, Exact, Settled
<1> QED BY <1>1, <1>2, <1>3, <1>4, <1>5
        DEF Exact, CreateExact, UpdateExact, CancelExact, ExtendExact, Settled,
            FirstStatement, session

LEMMA IsRoomAvailableExact ==
  ASSUME Inv, ExactFits, NEW w \in Workers, IsRoomAvailable(w)
  PROVE  Exact(w)'
<1>1. CASE ~RoomIsFree(req[w])
  BY <1>1, AnswerExact DEF IsRoomAvailable, Abort
<1>2. CASE RoomIsFree(req[w])
  <2>1. /\ pc[w] = "isRoomAvailable" /\ pc'[w] = "calculateTotalCost"
        /\ UNCHANGED <<tables, req, local, session>>
    BY <1>2 DEF IsRoomAvailable, GoTo, Inv, TypeOK
  <2>2. req[w].op = "create" /\ local[w].currentBonuses = 0
    BY <2>1 DEF Inv, StatementsFit, CreateOnly, ExactFits, Exact, Settled
  <2> QED BY <2>1, <2>2 DEF Exact, CreateExact, Settled
<1> QED BY <1>1, <1>2

LEMMA CalculateTotalCostExact ==
  ASSUME Inv, ExactFits, NEW w \in Workers, CalculateTotalCost(w)
  PROVE  Exact(w)'
<1> DEFINE s == Stay(w)
           cost == PriceOf(s.room_id, s.check_in_date, s.check_out_date, s.services)
           r == req[w]
<1>1. CASE rooms[s.room_id] = NoRow
  BY <1>1, AnswerExact DEF CalculateTotalCost, Abort
<1>2. CASE rooms[s.room_id] # NoRow
  <2>1. /\ pc[w] = "calculateTotalCost" /\ pc'[w] = AfterPrice(r)
        /\ local'[w] = [local[w] EXCEPT !.totalCost = cost]
        /\ UNCHANGED <<tables, req, session>>
    BY <1>2 DEF CalculateTotalCost, GoTo, Inv, TypeOK
  <2>2. r.op \in {"create", "update", "extend"} /\ local[w] \in Locals
    BY <2>1 DEF Inv, StatementsFit, TypeOK
  <2>3. /\ local'[w].totalCost = cost /\ local'[w].points = local[w].points
        /\ local'[w].oldBooking = local[w].oldBooking
        /\ local'[w].currentBonuses = local[w].currentBonuses
    BY <2>1, <2>2 DEF Locals
  <2>4. /\ DOMAIN rowWrite[w] = {} /\ DOMAIN bonusWrite[w] = {}
        /\ local[w].points = 0 /\ local[w].currentBonuses = 0
    BY <2>1, NothingHeld DEF ExactFits, Exact, Settled
  <2>5. /\ rooms' = rooms /\ req' = req /\ bonusWrite' = bonusWrite
        /\ rowWrite' = rowWrite
    BY <2>1 DEF tables, session
  <2>6. CASE r.op = "create"
    <3>1. cost = FullPrice(r) /\ s.room_id = r.room_id
      BY <2>6 DEF Stay, FullPrice
    <3>2. FullPrice(r)' = FullPrice(r)
      BY <2>5, FullPriceStays
    <3>3. /\ pc'[w] \in {"getUserById", "createBooking"}
          /\ pc'[w] = "getUserById" => r.use_bonuses
      BY <2>1, <2>6 DEF AfterPrice
    <3>4. Undiscounted(w)' \/ pc'[w] = "getUserById"
      BY <2>3, <2>4, <2>5, <3>1, <3>2, <3>3 DEF Undiscounted
    <3> QED BY <1>2, <2>3, <2>4, <2>5, <2>6, <3>1, <3>3, <3>4
            DEF Exact, CreateExact, Settled
  <2>7. CASE r.op = "update"
    <3>1. /\ cost = PriceOf(r.room_id, r.check_in_date, r.check_out_date, {})
          /\ s.room_id = r.room_id
      BY <2>7 DEF Stay
    <3>2. UpdateExact(w)'
      BY <1>2, <2>3, <2>4, <2>5, <3>1 DEF UpdateExact, PriceOf, StayPrice
    <3> QED BY <2>3, <2>4, <2>5, <2>7, <3>2 DEF Exact
  <2>8. CASE r.op = "extend"
    <3>1. s.room_id = local[w].oldBooking.room_id
      BY <2>8 DEF Stay
    <3>2. ExtendExact(w)'
      BY <1>2, <2>3, <2>4, <2>5, <3>1 DEF ExtendExact
    <3> QED BY <2>3, <2>4, <2>5, <2>8, <3>2 DEF Exact
  <2> QED BY <2>2, <2>6, <2>7, <2>8
<1> QED BY <1>1, <1>2

LEMMA GetUserByIdExact ==
  ASSUME Inv, DealsFit, ExactFits, NEW w \in Workers, GetUserById(w)
  PROVE  Exact(w)'
<1>1. /\ pc[w] = "getUserById" /\ pc'[w] \in {"selectBonuses", "createBooking"}
      /\ UNCHANGED <<tables, req, local, session>>
  BY DEF GetUserById, GoTo, Inv, TypeOK
<1>2. req[w].op = "create"
  BY <1>1 DEF Inv, StatementsFit, CreateOnly
<1>3. /\ DOMAIN rowWrite[w] = {} /\ DOMAIN bonusWrite[w] = {}
      /\ local[w].points = 0 /\ local[w].currentBonuses = 0
  BY <1>1, NothingHeld DEF ExactFits, Exact, Settled
<1>4. CreateExact(w)
  BY <1>2 DEF ExactFits, Exact
<1>5. local[w].totalCost = FullPrice(req[w]) /\ FullPrice(req[w])' = FullPrice(req[w])
  BY <1>1, <1>2, FullPriceStays DEF DealsFit, Deal, PaidFits, tables
<1>6. Undiscounted(w)'
  BY <1>1, <1>3, <1>5 DEF Undiscounted, session
<1> QED BY <1>1, <1>2, <1>3, <1>4, <1>6 DEF Exact, CreateExact, Settled, tables

LEMMA SelectBonusesExact ==
  ASSUME Inv, DealsFit, ExactFits, NEW w \in Workers, SelectBonuses(w)
  PROVE  Exact(w)'
<1> DEFINE r == req[w]
           balance == bonuses[r.user_id]
           price == local[w].totalCost
           discount == Discount(balance, price)
<1>1. pc[w] = "selectBonuses" /\ UNCHANGED <<tables, req, session>>
  BY DEF SelectBonuses
<1>2. r.op = "create"
  BY <1>1 DEF Inv, StatementsFit, CreateOnly
<1>3. /\ DOMAIN rowWrite[w] = {} /\ DOMAIN bonusWrite[w] = {}
      /\ local[w].points = 0 /\ local[w].currentBonuses = 0
  BY <1>1, NothingHeld DEF ExactFits, Exact, Settled
<1>4. CreateExact(w)
  BY <1>2 DEF ExactFits, Exact
<1>5. price = FullPrice(r) /\ FullPrice(r)' = FullPrice(r)
  BY <1>1, <1>2, FullPriceStays DEF DealsFit, Deal, PaidFits, tables
<1>6. CASE HasPoints(balance)
  <2>1. /\ local'[w] = [ totalCost |-> price - discount, oldBooking |-> NoRow,
                         currentBonuses |-> balance,
                         points |-> -PointsSpent(discount) ]
        /\ pc'[w] = "addBonuses"
    BY <1>6 DEF SelectBonuses, GoTo, Inv, TypeOK
  <2>2. /\ local'[w].totalCost = price - discount
        /\ local'[w].currentBonuses = balance
        /\ local'[w].points = -PointsSpent(discount)
    BY <2>1
  <2>3. r.use_bonuses /\ balance > 0
    BY <1>1, <1>4, <1>6 DEF CreateExact, HasPoints
  <2>4. Discounted(w)'
    <3> HIDE DEF price, balance
    <3> QED BY <1>1, <1>5, <2>1, <2>2, <2>3 DEF Discounted
  <2> QED BY <1>1, <1>2, <1>4, <2>1, <2>4 DEF Exact, CreateExact, Settled, tables
<1>7. CASE ~HasPoints(balance)
  <2>1. local'[w] = local[w] /\ pc'[w] = "createBooking"
    BY <1>7 DEF SelectBonuses, GoTo, Inv, TypeOK
  <2>2. Undiscounted(w)'
    BY <1>1, <1>3, <1>5, <2>1 DEF Undiscounted, session
  <2> QED BY <1>1, <1>2, <1>4, <2>1, <2>2 DEF Exact, CreateExact, Settled, tables
<1> QED BY <1>6, <1>7

LEMMA AddBonusesExact ==
  ASSUME Inv, ExactFits, NEW w \in Workers, AddBonuses(w)
  PROVE  Exact(w)'
<1> DEFINE r == req[w]
<1>1. /\ pc[w] = "addBonuses"
      /\ pc'[w] = IF r.op = "create" THEN "createBooking" ELSE "commit"
      /\ DOMAIN bonusWrite'[w] = {r.user_id}
      /\ UNCHANGED <<tables, req, local, rowWrite>>
  BY DEF AddBonuses, GoTo, Inv, TypeOK
<1>2. r.op \in {"create", "update"}
  BY <1>1 DEF Inv, StatementsFit
<1>3. Exact(w) /\ FullPrice(r)' = FullPrice(r)
  BY <1>1, FullPriceStays DEF ExactFits, tables
<1>4. CASE r.op = "create"
  <2>1. Discounted(w) /\ rooms[r.room_id] # NoRow
    BY <1>1, <1>3, <1>4 DEF Exact, CreateExact, Undiscounted, Settled
  <2>2. Discounted(w)'
    BY <1>1, <1>3, <2>1 DEF Discounted
  <2> QED BY <1>1, <1>4, <2>1, <2>2 DEF Exact, CreateExact, Settled, tables
<1>5. CASE r.op = "update"
  BY <1>1, <1>3, <1>5 DEF Exact, UpdateExact, Settled, tables, PriceOf, StayPrice
<1> QED BY <1>2, <1>4, <1>5

LEMMA InsertsExact ==
  ASSUME Inv, ExactFits, NEW w \in Workers,
         CreateBooking(w) \/ AddServicesToBooking(w)
  PROVE  Exact(w)'
<1>1. /\ pc[w] \in {"createBooking", "addServices"}
      /\ pc'[w] \in {"addServices", "commit"}
      /\ UNCHANGED <<rooms, req, local, bonusWrite>>
  BY DEF CreateBooking, AddServicesToBooking, GoTo, tables, Inv, TypeOK
<1>2. req[w].op = "create"
  BY <1>1 DEF Inv, StatementsFit, CreateOnly
<1>3. CreateExact(w) /\ FullPrice(req[w])' = FullPrice(req[w])
  BY <1>1, <1>2, FullPriceStays DEF ExactFits, Exact
<1>4. Undiscounted(w) \/ Discounted(w)
  BY <1>1, <1>3 DEF CreateExact, Settled
<1>5. (Undiscounted(w) \/ Discounted(w))'
  BY <1>1, <1>3, <1>4 DEF Undiscounted, Discounted
<1> QED BY <1>1, <1>2, <1>3, <1>5 DEF Exact, CreateExact, Settled

LEMMA GetBookingByIdExact ==
  ASSUME Inv, ExactFits, NEW w \in Workers, GetBookingById(w)
  PROVE  Exact(w)'
<1> DEFINE r == req[w]
           row == bookings[r.booking_id]
<1>1. CASE ~Admitted(r, row)
  BY <1>1, AnswerExact DEF GetBookingById, Abort
<1>2. CASE Admitted(r, row)
  <2>1. /\ pc[w] = "getBookingById"
        /\ local'[w] = [local[w] EXCEPT !.oldBooking = row]
        /\ pc'[w] = IF r.op = "cancel" THEN "write" ELSE "calculateTotalCost"
        /\ UNCHANGED <<tables, req, session>>
    BY <1>2 DEF GetBookingById, GoTo, Inv, TypeOK
  <2>2. r.op \in {"update", "cancel", "extend"} /\ local[w] \in Locals
    BY <2>1 DEF Inv, TypeOK, StatementsFit
  <2>3. local'[w].currentBonuses = 0
    BY <2>1, <2>2 DEF ExactFits, Exact, Settled, Locals
  <2>4. DOMAIN rowWrite[w] = {} /\ DOMAIN bonusWrite[w] = {}
    BY <2>1, NothingHeld
  <2> QED BY <2>1, <2>2, <2>3, <2>4
          DEF Exact, UpdateExact, CancelExact, ExtendExact, session
<1> QED BY <1>1, <1>2
(* The row that an update leaves, and that row by its columns.             *)
Rewritten(old, user, room, checkIn, checkOut, cost, status) ==
  [old EXCEPT !.user_id = user, !.room_id = room, !.check_in_date = checkIn,
              !.check_out_date = checkOut, !.total_cost = cost, !.status = status]

RowWith(user, room, checkIn, checkOut, cost, status, services) ==
  [ user_id |-> user, room_id |-> room, check_in_date |-> checkIn,
    check_out_date |-> checkOut, total_cost |-> cost, status |-> status,
    services |-> services ]

LEMMA RewrittenRow ==
  ASSUME NEW old \in Booking, NEW user, NEW room, NEW checkIn, NEW checkOut,
         NEW cost, NEW status
  PROVE  Rewritten(old, user, room, checkIn, checkOut, cost, status)
         = RowWith(user, room, checkIn, checkOut, cost, status, old.services)
<1> USE DEF Rewritten, RowWith
<1> DEFINE x == [old EXCEPT !.user_id = user, !.room_id = room,
                            !.check_in_date = checkIn, !.check_out_date = checkOut,
                            !.total_cost = cost, !.status = status]
           y == [ user_id |-> user, room_id |-> room, check_in_date |-> checkIn,
                  check_out_date |-> checkOut, total_cost |-> cost,
                  status |-> status, services |-> old.services ]
           Columns == { "user_id", "room_id", "check_in_date", "check_out_date",
                        "total_cost", "status", "services" }
<1>1. x = [k \in Columns |-> x[k]]
  BY DEF Booking
<1>2. y = [k \in Columns |-> y[k]]
  OBVIOUS
<1>3. /\ x.user_id = user /\ x.room_id = room /\ x.check_in_date = checkIn
      /\ x.check_out_date = checkOut /\ x.total_cost = cost /\ x.status = status
      /\ x.services = old.services
  BY DEF Booking
<1>4. /\ y.user_id = user /\ y.room_id = room /\ y.check_in_date = checkIn
      /\ y.check_out_date = checkOut /\ y.total_cost = cost /\ y.status = status
      /\ y.services = old.services
  OBVIOUS
<1>5. x = y
  <2> HIDE DEF x, y
  <2>1. \A k \in Columns : x[k] = y[k]
    BY <1>3, <1>4
  <2> HIDE DEF Columns
  <2> QED BY <1>1, <1>2, <2>1, Zenon
<1> QED BY <1>5

(* A row is the record of its columns.                                     *)
LEMMA RowOfColumns ==
  ASSUME NEW row \in Booking
  PROVE  row = RowWith(row.user_id, row.room_id, row.check_in_date, row.check_out_date,
                       row.total_cost, row.status, row.services)
  BY DEF Booking, RowWith

LEMMA WriteExact ==
  ASSUME Inv, ExactFits, NEW w \in Workers, Write(w)
  PROVE  Exact(w)'
<1> DEFINE r == req[w]
           old == bookings[r.booking_id]
<1>1. /\ pc[w] = "write" /\ pc'[w] \in {"addBonuses", "commit"}
      /\ UNCHANGED <<tables, req, bonusWrite>>
      /\ local[w] \in Locals
  BY DEF Write, AdminUpdateBooking, UpdateStatus, UpdateDateAndCost, DeleteBooking,
         WriteRow, GoTo, Inv, TypeOK
<1>2. /\ Exact(w) /\ DOMAIN bonusWrite[w] = {}
      /\ local[w].currentBonuses = 0
  BY <1>1, NothingHeld DEF ExactFits, Exact, Settled
<1>3. ASSUME NEW row, WriteRow(w, row)
      PROVE  \A i \in DOMAIN rowWrite'[w] :
               i = r.booking_id /\ rowWrite'[w][i] = row /\ bookings[i] # NoRow
  BY <1>3, EmptySession DEF WriteRow, Inv, TypeOK
<1>4. \A i \in DOMAIN rowWrite'[w] : i = r.booking_id => i \in BookingIds
  <2>1. r.booking_id \in BookingIds
    BY <1>1, RequestShape
       DEF Inv, TypeOK, StatementsFit, UpdateRequest, CancelRequest, ExtendRequest,
           DeleteRequest
  <2> QED BY <2>1
<1>5. old # NoRow /\ r.booking_id \in BookingIds => old \in Booking
  BY DEF Inv, TypeOK, TablesTypeOK
<1>6. CASE AdminUpdateBooking(w)
  <2> DEFINE new == [old EXCEPT
                       !.user_id = r.user_id, !.room_id = r.room_id,
                       !.check_in_date = r.check_in_date,
                       !.check_out_date = r.check_out_date,
                       !.total_cost = local[w].totalCost, !.status = r.status]
             row == [ user_id |-> r.user_id, room_id |-> r.room_id,
                      check_in_date |-> r.check_in_date,
                      check_out_date |-> r.check_out_date,
                      total_cost |-> local[w].totalCost, status |-> r.status,
                      services |-> old.services ]
  <2>1. /\ r.op = "update" /\ WriteRow(w, new)
        /\ \/ local'[w] = [local[w] EXCEPT !.points = PointsGained(local[w].totalCost)]
           \/ local'[w] = local[w]
    BY <1>6 DEF AdminUpdateBooking, Inv, TypeOK
  <2>2. /\ local'[w].totalCost = local[w].totalCost
        /\ local'[w].currentBonuses = local[w].currentBonuses
    BY <1>1, <2>1 DEF Locals
  <2>3. old \in Booking => new = row
    <3>1. old \in Booking =>
            Rewritten(old, r.user_id, r.room_id, r.check_in_date, r.check_out_date,
                      local[w].totalCost, r.status)
            = RowWith(r.user_id, r.room_id, r.check_in_date, r.check_out_date,
                      local[w].totalCost, r.status, old.services)
      BY RewrittenRow
    <3> QED BY <3>1 DEF Rewritten, RowWith
  <2>4. \A i \in DOMAIN rowWrite'[w] : i = r.booking_id /\ rowWrite'[w][i] = row
    <3> HIDE DEF new, row
    <3> QED BY <1>3, <1>4, <1>5, <2>1, <2>3
  <2>5. UpdateExact(w)
    BY <1>2, <2>1 DEF Exact
  <2>6. /\ rooms[r.room_id] # NoRow
        /\ local[w].totalCost =
             PriceOf(r.room_id, r.check_in_date, r.check_out_date, {})
    BY <1>1, <2>5 DEF UpdateExact
  <2>7. UpdateExact(w)'
    BY <1>1, <2>2, <2>4, <2>6 DEF UpdateExact, tables, PriceOf, StayPrice
  <2> QED BY <1>1, <1>2, <2>1, <2>2, <2>7 DEF Exact
<1>7. CASE UpdateStatus(w)
  <2> DEFINE new == [old EXCEPT !.status = "cancelled"]
  <2>1. r.op = "cancel" /\ WriteRow(w, new) /\ local' = local
    BY <1>7 DEF UpdateStatus
  <2>2. \A i \in DOMAIN rowWrite'[w] : i = r.booking_id /\ rowWrite'[w][i] = new
    BY <1>3, <2>1
  <2>3. CancelExact(w)'
    BY <1>1, <2>2 DEF CancelExact, tables
  <2> QED BY <1>1, <1>2, <2>1, <2>3 DEF Exact
<1>8. CASE UpdateDateAndCost(w)
  <2> DEFINE new == [old EXCEPT !.check_out_date = r.check_out_date,
                                !.total_cost = local[w].totalCost]
  <2>1. r.op = "extend" /\ WriteRow(w, new) /\ local' = local
    BY <1>8 DEF UpdateDateAndCost
  <2>2. \A i \in DOMAIN rowWrite'[w] : i = r.booking_id /\ rowWrite'[w][i] = new
    BY <1>3, <2>1
  <2>3. rooms[local[w].oldBooking.room_id] # NoRow
    BY <1>1, <1>2, <2>1 DEF Exact, ExtendExact
  <2>4. ExtendExact(w)'
    BY <1>1, <2>1, <2>2, <2>3 DEF ExtendExact, tables
  <2> QED BY <1>1, <1>2, <2>1, <2>4 DEF Exact
<1>9. CASE DeleteBooking(w)
  <2>1. r.op = "delete" /\ local' = local
    BY <1>9 DEF DeleteBooking
  <2> QED BY <1>1, <1>2, <2>1 DEF Exact
<1> QED BY <1>6, <1>7, <1>8, <1>9 DEF Write

LEMMA InitExact == Init => ExactFits
  BY DEF Init, ExactFits, Exact, NoRequest, NoLocals

LEMMA NextExact == Inv /\ DealsFit /\ ExactFits /\ [Next]_vars => ExactFits'
<1> SUFFICES ASSUME Inv, DealsFit, ExactFits, [Next]_vars PROVE ExactFits'
  OBVIOUS
<1>1. CASE UNCHANGED vars
  BY <1>1, ExactStays DEF vars, tables, ExactFits
<1>2. CASE Crash
  BY <1>2, IdleExact DEF Crash, Die, ExactFits
<1>3. ASSUME NEW w \in Workers, Serve(w) PROVE ExactFits'
  <2>1. CASE Receive(w)
    BY <2>1, ReceiveExact, <1>3, ServeApart, ExactCombined
  <2>2. CASE Create(w)
    BY <2>2, IsRoomAvailableExact, GetUserByIdExact, SelectBonusesExact, InsertsExact,
       <1>3, ServeApart, ExactCombined DEF Create
  <2>3. CASE GetBookingById(w) \/ CalculateTotalCost(w)
    BY <2>3, GetBookingByIdExact, CalculateTotalCostExact,
       <1>3, ServeApart, ExactCombined
  <2>4. CASE AddBonuses(w) \/ Write(w)
    BY <2>4, AddBonusesExact, WriteExact, <1>3, ServeApart, ExactCombined
  <2>5. CASE Commit(w) \/ CommitInDoubt(w) \/ Fail(w)
    BY <2>5, AnswerExact, <1>3, ServeApart, ExactCombined
       DEF Commit, CommitInDoubt, Fail, Abort
  <2> QED BY <1>3, <2>1, <2>2, <2>3, <2>4, <2>5 DEF Serve, Advance
<1> QED BY <1>1, <1>2, <1>3 DEF Next

(* Every operation computes and writes what its atomic counterpart would.  *)
THEOREM Exactness == Spec => [](Inv /\ DealsFit /\ ExactFits)
<1>1. Init => Inv /\ DealsFit /\ ExactFits
  BY InitInv, InitDeals, InitExact
<1>2. Inv /\ DealsFit /\ ExactFits /\ [Next]_vars => (Inv /\ DealsFit /\ ExactFits)'
  BY NextInv, NextDeals, NextExact
<1> QED BY <1>1, <1>2, PTL DEF Spec
(* BookingBook computes with the operators of BookingService.              *)
LEMMA BookAgrees ==
  /\ \A room, checkIn, checkOut, services :
       Book!PriceOf(room, checkIn, checkOut, services)
         = PriceOf(room, checkIn, checkOut, services)
  /\ \A points, cost : Book!Discount(points, cost) = Discount(points, cost)
  /\ \A d : Book!PointsSpent(d) = PointsSpent(d)
  /\ \A cost : Book!PointsGained(cost) = PointsGained(cost)
  /\ \A row, room, checkIn, checkOut :
       Book!Overlaps(row, room, checkIn, checkOut)
         <=> Overlaps(row, room, checkIn, checkOut)
  /\ Book!BookingIds = BookingIds
  BY DEF Book!PriceOf, PriceOf, Book!StayPrice, StayPrice, Book!Nights, Nights,
         Book!Discount, Discount, Book!PointValue, PointValue,
         Book!PointsSpent, PointsSpent, Book!PointsGained, PointsGained,
         Book!Overlaps, Overlaps, Book!BookingIds, BookingIds

(* A commit writes the one row its worker has written, and pays the points *)
(* it has computed.                                                        *)
LEMMA CommitWritesRow ==
  ASSUME Inv, NEW w \in Workers, InstallRows(w), NEW i \in DOMAIN rowWrite[w]
  PROVE  /\ bookings' = [bookings EXCEPT ![i] = rowWrite[w][i]]
         /\ i \in BookingIds /\ HeldRow(w, i)
<1>1. DOMAIN rowWrite[w] = {i} /\ HeldRow(w, i) /\ i \in BookingIds
  BY DEF Inv, LocksFit, TypeOK
<1>2. bookings \in [BookingIds -> Booking \cup {NoRow}]
  BY DEF Inv, TypeOK, TablesTypeOK
<1> QED BY <1>1, <1>2 DEF InstallRows

LEMMA CommitPays ==
  ASSUME Inv, NEW w \in Workers, InstallRows(w), DOMAIN bonusWrite[w] = {req[w].user_id}
  PROVE  bonuses' = [bonuses EXCEPT ![req[w].user_id] =
                       IF @ = Null THEN Null ELSE @ + local[w].points]
<1> DEFINE u == req[w].user_id
<1>1. bonuses \in [Users -> Int \cup {Null}]
  BY DEF Inv, TypeOK, TablesTypeOK
<1>2. bonusWrite[w][u] = IF bonuses[u] = Null THEN Null ELSE bonuses[u] + local[w].points
  BY DEF Inv, LocksFit, HeldBalance
<1>3. bonuses' = [x \in Users |-> IF x = u THEN bonusWrite[w][u] ELSE bonuses[x]]
  BY DEF InstallRows
<1> QED BY <1>1, <1>2, <1>3

LEMMA CommitPaysNothing ==
  ASSUME Inv, NEW w \in Workers, InstallRows(w), DOMAIN bonusWrite[w] = {}
  PROVE  bonuses' = bonuses
<1>1. bonuses \in [Users -> Int \cup {Null}]
  BY DEF Inv, TypeOK, TablesTypeOK
<1> QED BY <1>1 DEF InstallRows

(* The commit of a booking is the atomic booking.                          *)
LEMMA CreateIsBook ==
  ASSUME Inv, DealsFit, ExactFits, NEW w \in Workers, InstallRows(w), pc[w] = "commit",
         req[w].op = "create", Current(w)
  PROVE  Book!Book(req[w])
<1> DEFINE r == req[w]
           u == r.user_id
           price == FullPrice(r)
           points == local[w].currentBonuses
           off == Discount(points, price)
<1>1. /\ r \in CreateRequest /\ local[w] \in Locals
      /\ \A x \in Users : bonuses[x] \in Int \cup {Null}
  BY RequestShape DEF Inv, TypeOK, TablesTypeOK
<1>2. PaidFits(w) /\ CreateExact(w)
  BY DEF DealsFit, Deal, ExactFits, Exact
<1>3. PICK i \in DOMAIN rowWrite[w] : TRUE
  BY <1>2 DEF PaidFits
<1> DEFINE row == rowWrite[w][i]
<1>4. /\ bookings' = [bookings EXCEPT ![i] = row]
      /\ i \in BookingIds /\ HeldRow(w, i)
  BY <1>3, CommitWritesRow
<1>5. /\ bookings[i] = NoRow /\ row \in Booking
      /\ row.room_id = r.room_id /\ row.check_in_date = r.check_in_date
      /\ row.check_out_date = r.check_out_date /\ row.status = "confirmed"
      /\ row.user_id = u /\ row.services = r.services
      /\ row.total_cost = local[w].totalCost
  BY <1>2, <1>3, <1>4 DEF HeldRow, PaidFits, Inv, TypeOK
<1>6. row = RowWith(u, r.room_id, r.check_in_date, r.check_out_date,
                    local[w].totalCost, "confirmed", r.services)
  BY <1>5, RowOfColumns
<1>7. rooms[r.room_id] # NoRow /\ (Undiscounted(w) \/ Discounted(w))
  BY <1>2 DEF CreateExact, Settled
<1>8. \A j \in BookingIds :
        ~Overlaps(bookings[j], r.room_id, r.check_in_date, r.check_out_date)
  BY DEF Current, RoomIsFree
<1>9. Book!Free(r.room_id, r.check_in_date, r.check_out_date)
  BY <1>8, BookAgrees DEF Book!Free
<1>10. /\ Book!PriceOf(r.room_id, r.check_in_date, r.check_out_date, r.services) = price
       /\ Book!BookingIds = BookingIds
  BY BookAgrees DEF FullPrice
<1> DEFINE Row(cost) == RowWith(u, r.room_id, r.check_in_date, r.check_out_date,
                                cost, "confirmed", r.services)
<1>11. CASE Undiscounted(w)
  <2>1. bonuses' = bonuses
    BY <1>11, CommitPaysNothing DEF Undiscounted
  <2>2. bookings' = [bookings EXCEPT ![i] = Row(price)]
    BY <1>4, <1>6, <1>11 DEF Undiscounted
  <2> HIDE DEF price
  <2> QED BY <1>4, <1>5, <1>7, <1>9, <1>10, <2>1, <2>2 DEF Book!Book, RowWith
<1>12. CASE Discounted(w)
  <2>1. bonuses[u] = points /\ bonuses[u] # Null /\ points > 0 /\ r.use_bonuses
    BY <1>1, <1>12, NullAssumption DEF Discounted, Current, Locals
  <2>2. bookings' = [bookings EXCEPT ![i] = Row(price - off)]
    BY <1>4, <1>6, <1>12 DEF Discounted
  <2>3. bonuses' = [bonuses EXCEPT ![u] =
                      IF @ = Null THEN Null ELSE @ + (-PointsSpent(off))]
    BY <1>12, CommitPays DEF Discounted
  <2>4. Book!Pay(u, -Book!PointsSpent(off)) /\ Book!Discount(bonuses[u], price) = off
    BY <2>1, <2>3, BookAgrees DEF Book!Pay
  <2> HIDE DEF price, off, points
  <2> QED BY <1>4, <1>5, <1>7, <1>9, <1>10, <2>1, <2>2, <2>4 DEF Book!Book, RowWith
<1> QED BY <1>7, <1>11, <1>12

(* A row that is still the one that was read has been written.             *)
LEMMA CurrentIsWritten ==
  ASSUME Inv, DealsFit, NEW w \in Workers, InstallRows(w), pc[w] = "commit",
         req[w].op \in {"update", "cancel", "extend"}, Current(w)
  PROVE  LET i == req[w].booking_id IN
         /\ i \in DOMAIN rowWrite[w]
         /\ bookings' = [bookings EXCEPT ![i] = rowWrite[w][i]]
         /\ bookings[i] = local[w].oldBooking /\ bookings[i] # NoRow
<1>1. Unraced(w) /\ local[w].oldBooking # NoRow
  BY DEF Current, DealsFit, Deal, LookupFits
<1>2. req[w].booking_id \in DOMAIN rowWrite[w]
  BY <1>1, UnracedIsWritten
<1> QED BY <1>1, <1>2, CommitWritesRow DEF Unraced

LEMMA UpdateIsRewrite ==
  ASSUME Inv, DealsFit, ExactFits, NEW w \in Workers, InstallRows(w), pc[w] = "commit",
         req[w].op = "update", Current(w)
  PROVE  Book!Rewrite(req[w])
<1> DEFINE r == req[w]
           i == r.booking_id
           cost == PriceOf(r.room_id, r.check_in_date, r.check_out_date, {})
<1>1. /\ i \in DOMAIN rowWrite[w]
      /\ bookings' = [bookings EXCEPT ![i] = rowWrite[w][i]]
      /\ bookings[i] = local[w].oldBooking /\ bookings[i] # NoRow
  BY CurrentIsWritten
<1>2. UpdateExact(w) /\ CreditFits(w)
  BY DEF ExactFits, Exact, DealsFit, Deal
<1>3. rooms[r.room_id] # NoRow /\ local[w].totalCost = cost
  BY <1>2 DEF UpdateExact
<1>4. bookings' = [bookings EXCEPT ![i] =
                     RowWith(r.user_id, r.room_id, r.check_in_date, r.check_out_date,
                             cost, r.status, bookings[i].services)]
  BY <1>1, <1>2, <1>3 DEF UpdateExact, RowWith
<1>5. bookings' = [bookings EXCEPT ![i] =
                     RowWith(r.user_id, r.room_id, r.check_in_date, r.check_out_date,
                             cost, r.status, @.services)]
  BY <1>4
<1>6. Completes(w) <=> r.status = "completed" /\ bookings[i].status # "completed"
  BY <1>1 DEF Completes
<1>7. IF Completes(w) THEN Book!Pay(r.user_id, Book!PointsGained(cost))
      ELSE UNCHANGED bonuses
  <2>1. CASE Completes(w)
    <3>1. /\ local[w].points = PointsGained(cost)
          /\ DOMAIN bonusWrite[w] = {r.user_id}
      BY <1>2, <1>3, <2>1 DEF CreditFits
    <3> QED BY <2>1, <3>1, CommitPays, BookAgrees DEF Book!Pay
  <2>2. CASE ~Completes(w)
    <3>1. DOMAIN bonusWrite[w] = {}
      BY <1>2, <2>2 DEF CreditFits
    <3> QED BY <2>2, <3>1, CommitPaysNothing
  <2> QED BY <2>1, <2>2
<1>8. Book!PriceOf(r.room_id, r.check_in_date, r.check_out_date, {}) = cost
  BY BookAgrees
<1> HIDE DEF cost
<1> QED BY <1>1, <1>3, <1>5, <1>6, <1>7, <1>8 DEF Book!Rewrite, RowWith

LEMMA CancelIsCancel ==
  ASSUME Inv, DealsFit, ExactFits, NEW w \in Workers, InstallRows(w), pc[w] = "commit",
         req[w].op = "cancel", Current(w)
  PROVE  Book!Cancel(req[w])
<1> DEFINE i == req[w].booking_id
<1>1. /\ i \in DOMAIN rowWrite[w]
      /\ bookings' = [bookings EXCEPT ![i] = rowWrite[w][i]]
      /\ bookings[i] = local[w].oldBooking /\ bookings[i] # NoRow
  BY CurrentIsWritten
<1>2. rowWrite[w][i] = [bookings[i] EXCEPT !.status = "cancelled"]
  BY <1>1 DEF ExactFits, Exact, CancelExact
<1>3. local[w].oldBooking.user_id = req[w].user_id
  BY DEF DealsFit, Deal, OwnedFits
<1>4. bonuses' = bonuses
  BY CommitPaysNothing DEF ExactFits, Exact
<1>5. bookings' = [bookings EXCEPT ![i].status = "cancelled"]
  BY <1>1, <1>2
<1> QED BY <1>1, <1>3, <1>4, <1>5 DEF Book!Cancel, Book!OwnRow

LEMMA ExtendIsExtend ==
  ASSUME Inv, DealsFit, ExactFits, NEW w \in Workers, InstallRows(w), pc[w] = "commit",
         req[w].op = "extend", Current(w)
  PROVE  Book!Extend(req[w])
<1> DEFINE r == req[w]
           i == r.booking_id
           row == bookings[i]
           cost == PriceOf(row.room_id, row.check_in_date, r.check_out_date,
                           row.services)
<1>1. /\ i \in DOMAIN rowWrite[w]
      /\ bookings' = [bookings EXCEPT ![i] = rowWrite[w][i]]
      /\ row = local[w].oldBooking /\ row # NoRow
  BY CurrentIsWritten
<1>2. OwnedFits(w) /\ ExtendExact(w)
  BY DEF DealsFit, Deal, ExactFits, Exact
<1>3. local[w].totalCost = cost /\ row.user_id = r.user_id
  BY <1>1, <1>2 DEF OwnedFits
<1>4. rooms[row.room_id] # NoRow
  BY <1>1, <1>2 DEF ExtendExact
<1>5. rowWrite[w][i] = [row EXCEPT !.check_out_date = r.check_out_date,
                                   !.total_cost = cost]
  BY <1>1, <1>2, <1>3 DEF ExtendExact
<1>6. bonuses' = bonuses
  BY CommitPaysNothing DEF ExactFits, Exact
<1>7. Book!PriceOf(row.room_id, row.check_in_date, r.check_out_date, row.services) = cost
  BY BookAgrees
<1> HIDE DEF cost
<1> QED BY <1>1, <1>3, <1>4, <1>5, <1>6, <1>7 DEF Book!Extend, Book!OwnRow

LEMMA DeleteIsRemove ==
  ASSUME Inv, ExactFits, NEW w \in Workers, InstallRows(w), pc[w] = "commit",
         req[w].op = "delete", <<bookings, bonuses>>' # <<bookings, bonuses>>
  PROVE  Book!Remove(req[w])
<1>1. bonuses' = bonuses
  BY CommitPaysNothing DEF ExactFits, Exact
<1>2. PICK i \in DOMAIN rowWrite[w] : TRUE
  <2>1. bookings \in [BookingIds -> Booking \cup {NoRow}]
    BY DEF Inv, TypeOK, TablesTypeOK
  <2> QED BY <1>1, <2>1 DEF InstallRows
<1>3. /\ bookings' = [bookings EXCEPT ![i] = rowWrite[w][i]]
      /\ i = req[w].booking_id /\ rowWrite[w][i] = NoRow
  BY <1>2, CommitWritesRow DEF HeldRow
<1> QED BY <1>1, <1>3 DEF Book!Remove

(* Whatever the operation, a commit on current reads is a step of the book. *)
LEMMA CurrentCommitIsAtomic ==
  ASSUME Inv, DealsFit, ExactFits, [Next]_vars, NEW w \in Workers, Commits(w), Current(w)
  PROVE  Book!BookNext
<1> DEFINE r == req[w]
<1>1. InstallRows(w) /\ pc[w] = "commit"
  BY CommitsInstalls
<1>2. r \in Requests /\ r.op \in {"create", "update", "cancel", "extend", "delete"}
  BY <1>1, RequestShape DEF Inv, TypeOK, StatementsFit
<1>3. \/ Book!Book(r) \/ Book!Rewrite(r) \/ Book!Cancel(r) \/ Book!Extend(r)
      \/ Book!Remove(r)
  BY <1>1, <1>2, CreateIsBook, UpdateIsRewrite, CancelIsCancel, ExtendIsExtend,
     DeleteIsRemove DEF Commits
<1> QED BY <1>2, <1>3 DEF Book!BookNext

(* For any number of workers: a commit whose worker's reads still hold is  *)
(* the whole operation of BookingBook at once, on both tables              *)
(* (BookingService.cpp:23-50, 99-114, 129-137, 147-162).                   *)
THEOREM Atomicity == Spec => UnracedIsAtomic
<1> DEFINE Step == \A w \in Workers : Commits(w) /\ Current(w) => Book!BookNext
<1>1. Inv /\ DealsFit /\ ExactFits /\ [Next]_vars => [Step]_vars
  BY CurrentCommitIsAtomic
<1> QED BY <1>1, Exactness, PTL DEF Spec, UnracedIsAtomic
-----------------------------------------------------------------------------
(* A server of one worker.                                                 *)

OneWorker == \A v, w \in Workers : v = w

(* A step that leaves the tables, the request and what was read of them.   *)
LEMMA ReadsStay ==
  ASSUME NEW w \in Workers, Undisturbed(w),
         UNCHANGED <<bookings, bonuses>>, req'[w] = req[w], seen'[w] = seen[w],
         local'[w].oldBooking = local[w].oldBooking,
         local'[w].currentBonuses = local[w].currentBonuses,
         pc[w] \notin {"isRoomAvailable", "getBookingById"}
  PROVE  Undisturbed(w)'
  BY DEF Undisturbed, Unraced

LEMMA AnswerAlone ==
  ASSUME Inv, NEW w \in Workers, NEW code, Answer(w, code)
  PROVE  Undisturbed(w)'
<1>1. req'[w] = NoRequest
  BY DEF Answer, Inv, TypeOK
<1> QED BY <1>1 DEF Undisturbed, NoRequest

LEMMA ServeAlone ==
  ASSUME Inv, ExactFits, NEW w \in Workers, Undisturbed(w), Serve(w)
  PROVE  Undisturbed(w)'
<1> USE DEF GoTo, tables
<1>1. /\ pc \in [Workers -> Statements] /\ local[w] \in Locals
      /\ req \in [Workers -> Requests \cup {NoRequest}]
      /\ local \in [Workers -> Locals]
      /\ seen \in [Workers -> [BookingIds -> Booking \cup {NoRow}]]
  BY DEF Inv, TypeOK
<1>2. CASE Receive(w)
  <2>1. PICK r \in Requests : req'[w] = r /\ pc'[w] = FirstStatement(r.op)
    BY <1>1, <1>2 DEF Receive
  <2>2. local' = local /\ local[w].currentBonuses = 0
    BY <1>2 DEF Receive, ExactFits, Exact, Settled
  <2> QED BY <2>1, <2>2 DEF Undisturbed, FirstStatement
<1>3. CASE IsRoomAvailable(w)
  <2>1. CASE ~RoomIsFree(req[w])
    BY <1>3, <2>1, AnswerAlone DEF IsRoomAvailable, Abort
  <2>2. CASE RoomIsFree(req[w])
    <3>1. /\ pc[w] = "isRoomAvailable" /\ seen'[w] = bookings
          /\ UNCHANGED <<bookings, bonuses, req, local>>
      BY <1>1, <1>3, <2>2 DEF IsRoomAvailable
    <3>2. req[w].op = "create"
      BY <3>1 DEF Inv, StatementsFit, CreateOnly
    <3> QED BY <3>1, <3>2 DEF Undisturbed
  <2> QED BY <2>1, <2>2
<1>4. CASE GetUserById(w)
  BY <1>4, ReadsStay DEF GetUserById
<1>5. CASE SelectBonuses(w)
  <2>1. /\ pc[w] = "selectBonuses"
        /\ UNCHANGED <<bookings, bonuses, req, seen>>
    BY <1>5 DEF SelectBonuses
  <2>2. req[w].op = "create"
    BY <2>1 DEF Inv, StatementsFit, CreateOnly
  <2>3. local'[w].currentBonuses \in {0, bonuses[req[w].user_id]}
    <3>1. local[w].currentBonuses = 0
      BY <2>1 DEF ExactFits, Exact, Settled
    <3> QED BY <1>1, <1>5, <3>1 DEF SelectBonuses
  <2> QED BY <2>1, <2>2, <2>3 DEF Undisturbed
<1>6. CASE CreateBooking(w) \/ AddServicesToBooking(w)
  BY <1>6, ReadsStay DEF CreateBooking, AddServicesToBooking
<1>7. CASE GetBookingById(w)
  <2>1. CASE ~Admitted(req[w], bookings[req[w].booking_id])
    BY <1>7, <2>1, AnswerAlone DEF GetBookingById, Abort
  <2>2. CASE Admitted(req[w], bookings[req[w].booking_id])
    <3>1. /\ pc[w] = "getBookingById"
          /\ local'[w] = [local[w] EXCEPT !.oldBooking = bookings[req[w].booking_id]]
          /\ UNCHANGED <<bookings, bonuses, req>>
      BY <1>1, <1>7, <2>2 DEF GetBookingById
    <3>2. req[w].op # "create"
      BY <3>1 DEF Inv, StatementsFit
    <3>3. local'[w].oldBooking = bookings[req[w].booking_id]
      BY <1>1, <3>1 DEF Locals
    <3> QED BY <3>1, <3>2, <3>3 DEF Undisturbed, Unraced
  <2> QED BY <2>1, <2>2
<1>8. CASE CalculateTotalCost(w)
  <2> DEFINE s == Stay(w)
  <2>1. CASE rooms[s.room_id] = NoRow
    BY <1>8, <2>1, AnswerAlone DEF CalculateTotalCost, Abort
  <2>2. CASE rooms[s.room_id] # NoRow
    <3>1. PICK cost : local'[w] = [local[w] EXCEPT !.totalCost = cost]
      BY <1>1, <1>8, <2>2 DEF CalculateTotalCost
    <3>2. /\ pc[w] = "calculateTotalCost"
          /\ UNCHANGED <<bookings, bonuses, req, seen>>
      BY <1>8, <2>2 DEF CalculateTotalCost
    <3>3. /\ local'[w].oldBooking = local[w].oldBooking
          /\ local'[w].currentBonuses = local[w].currentBonuses
      BY <1>1, <3>1 DEF Locals
    <3> QED BY <3>2, <3>3, ReadsStay
  <2> QED BY <2>1, <2>2
<1>9. CASE AddBonuses(w)
  BY <1>9, ReadsStay DEF AddBonuses
<1>10. CASE Write(w)
  <2>1. /\ pc[w] = "write" /\ UNCHANGED <<bookings, bonuses, req, seen>>
        /\ \/ \E points : local' = [local EXCEPT ![w].points = points]
           \/ local' = local
    BY <1>10 DEF Write, AdminUpdateBooking, UpdateStatus, UpdateDateAndCost,
                 DeleteBooking, WriteRow
  <2>2. /\ local'[w].oldBooking = local[w].oldBooking
        /\ local'[w].currentBonuses = local[w].currentBonuses
    BY <1>1, <2>1 DEF Locals
  <2> QED BY <2>1, <2>2, ReadsStay
<1>11. CASE Commit(w) \/ CommitInDoubt(w) \/ Fail(w)
  BY <1>11, AnswerAlone DEF Commit, CommitInDoubt, Fail, Abort
<1> QED BY <1>2, <1>3, <1>4, <1>5, <1>6, <1>7, <1>8, <1>9, <1>10, <1>11
        DEF Serve, Advance, Create

LEMMA NextAlone ==
  OneWorker /\ Inv /\ ExactFits /\ AloneFits /\ [Next]_vars => AloneFits'
<1> SUFFICES ASSUME OneWorker, Inv, ExactFits, AloneFits, [Next]_vars PROVE AloneFits'
  OBVIOUS
<1>1. CASE UNCHANGED vars
  BY <1>1 DEF vars, tables, AloneFits, Undisturbed, Unraced
<1>2. CASE Crash
  BY <1>2 DEF Crash, Die, AloneFits, Undisturbed, NoRequest
<1>3. ASSUME NEW w \in Workers, Serve(w) PROVE AloneFits'
  <2>1. Undisturbed(w)'
    BY <1>3, ServeAlone DEF AloneFits
  <2> QED BY <2>1 DEF AloneFits, OneWorker
<1> QED BY <1>1, <1>2, <1>3 DEF Next

(* The only worker commits on what it has read.                            *)
LEMMA AloneIsCurrent ==
  ASSUME Inv, AloneFits, NEW w \in Workers, pc[w] = "commit"
  PROVE  Current(w)
<1>1. Undisturbed(w)
  BY DEF AloneFits
<1>2. req[w].op = "create" => RoomIsFree(req[w])
  BY <1>1 DEF Undisturbed, Inv, ChecksFit, RoomIsFree
<1> QED BY <1>1, <1>2 DEF Current, Undisturbed

(* A server of one worker implements BookingBook: clients see every        *)
(* operation at once or not at all, through failures, in-doubt commits and *)
(* crashes (BookingService.cpp:16-165).                                    *)
THEOREM Serial == (OneWorker /\ Spec) => ImplementsBook
<1>1. Init => Book!BookInit /\ AloneFits
  BY DEF Init, Book!BookInit, AloneFits, Undisturbed, NoRequest
<1>2. OneWorker /\ Inv /\ ExactFits /\ AloneFits /\ [Next]_vars
      => (OneWorker /\ AloneFits)'
  BY NextAlone DEF OneWorker
<1>3. Inv /\ DealsFit /\ ExactFits /\ AloneFits /\ [Next]_vars
      => [Book!BookNext]_(Book!book)
  <2> SUFFICES ASSUME Inv, DealsFit, ExactFits, AloneFits, [Next]_vars,
                      <<bookings, bonuses>>' # <<bookings, bonuses>>
               PROVE  Book!BookNext
    BY DEF Book!book
  <2>1. PICK w \in Workers : Commits(w)
    BY OnlyCommitsWrite
  <2>2. Current(w)
    BY <2>1, AloneIsCurrent DEF Commits
  <2> QED BY <2>1, <2>2, CurrentCommitIsAtomic
<1> QED BY <1>1, <1>2, <1>3, Exactness, PTL
        DEF Spec, ImplementsBook, Book!BookSpec
(* The operations that never ask whether the room is free.                 *)
Unchecked == {"update", "extend"}

(* With one worker, and without the two operations that never look at the  *)
(* room, the refusal of BookingService.cpp:24 means what it says: hotels   *)
(* without a double booking never get one.  So the race between the check  *)
(* and the INSERT, updates and extensions are its only causes.             *)
THEOREM SerialBookings ==
  OneWorker /\ (\A r \in Requests : r.op \notin Unchecked) /\ NoDoubleBooking /\ Spec
  => []NoDoubleBooking
<1> DEFINE Checked == OneWorker /\ \A r \in Requests : r.op \notin Unchecked
<1>1. Init => AloneFits
  BY DEF Init, AloneFits, Undisturbed, NoRequest
<1>2. /\ Checked /\ Inv /\ ExactFits /\ AloneFits /\ NoDoubleBooking
      /\ [Next]_vars
      => (Checked /\ AloneFits /\ NoDoubleBooking)'
  <2> SUFFICES ASSUME Checked, Inv, ExactFits, AloneFits, NoDoubleBooking, [Next]_vars
               PROVE  (AloneFits /\ NoDoubleBooking)'
    BY DEF OneWorker, Unchecked
  <2>1. AloneFits'
    BY NextAlone
  <2>2. ASSUME NEW i \in BookingIds, NEW j \in BookingIds, Clash(i, j)'
        PROVE  FALSE
    <3>1. PICK w \in Workers : Commits(w) /\ (Brings(w, i, j) \/ Brings(w, j, i))
      BY <2>2, NewOverlapBrought DEF OverlapBrought, NoDoubleBooking
    <3>2. pc[w] = "commit" /\ req[w] \in Requests
      BY <3>1, RequestShape DEF Commits, Inv, TypeOK, StatementsFit
    <3>3. req[w].op = "create"
      BY <3>1, <3>2 DEF Brings, Unchecked
    <3>4. seen[w] = bookings
      BY <3>2, <3>3 DEF AloneFits, Undisturbed
    <3> QED BY <3>1, <3>3, <3>4 DEF Brings
  <2>3. NoDoubleBooking'
    BY <2>2 DEF NoDoubleBooking, BookingIds
  <2> QED BY <2>1, <2>3
<1> QED BY <1>1, <1>2, Exactness, PTL DEF Spec
=============================================================================
