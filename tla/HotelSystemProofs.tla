------------------------- MODULE HotelSystemProofs -------------------------
(***************************************************************************)
(* Theorems about the composition of the booking service and the           *)
(* administration of rooms.                                                *)
(***************************************************************************)
EXTENDS HotelSystem, Folding

(* Both components start in their invariants.                              *)
LEMMA InitInv == Init => R!Inv /\ B!Inv
<1>1. R!Init => R!Inv
  BY TablesAssumption, R!InitInv
<1>2. B!Init => B!Inv
  BY TablesAssumption, B!InitInv
<1> QED BY <1>1, <1>2 DEF Init

(* A step of one component is a step of the booking service, or one that   *)
(* moves rooms under it.                                                   *)
LEMMA NextInv == R!Inv /\ B!Inv /\ [Next]_vars => R!Inv' /\ B!Inv'
<1> SUFFICES ASSUME R!Inv, B!Inv, [Next]_vars PROVE R!Inv' /\ B!Inv'
  OBVIOUS
<1>1. CASE BookingStep
  <2>1. B!Inv'
    BY <1>1, TablesAssumption, B!NextInv DEF BookingStep, B!Next
  <2>2. UNCHANGED R!vars
    BY <1>1 DEF BookingStep, roomVars, R!vars, R!roomTables
  <2> QED BY <2>1, <2>2, TablesAssumption, R!NextInv
<1>2. CASE RoomStep
  <2>1. R!Inv'
    BY <1>2, TablesAssumption, R!NextInv DEF RoomStep, R!Next
  <2>2. Category' \in [Rooms -> Categories \cup {NoRow}]
    BY <2>1 DEF R!Inv, R!TypeOK, R!Room, Category
  <2>3. UNCHANGED bookingVars
    BY <1>2 DEF RoomStep
  <2>4. B!Inv'
    BY <2>2, <2>3, TablesAssumption, B!RoomsMayChange DEF bookingVars
  <2> QED BY <2>1, <2>4
<1>3. CASE Crash
  BY <1>3, TablesAssumption, R!DieInv, B!DieInv DEF Crash
<1>4. CASE UNCHANGED vars
  <2>1. UNCHANGED R!vars /\ UNCHANGED B!vars
    BY <1>4 DEF vars, bookingVars, roomVars, R!vars, R!roomTables, B!vars, B!tables, Category
  <2> QED BY <2>1, TablesAssumption, R!NextInv, B!NextInv
<1> QED BY <1>1, <1>2, <1>3, <1>4 DEF Next

(* Moving and removing rooms (RoomRepository.cpp:114, 128) under the       *)
(* booking service disturbs nothing that it holds, for any number of       *)
(* threads on either side.                                                 *)
THEOREM Invariance == Spec => []BookingsKept
<1>1. R!Inv /\ B!Inv => BookingsKept
  BY DEF BookingsKept
<1> QED BY <1>1, InitInv, NextInv, PTL DEF Spec

(* With rooms changing, double bookings still come about in no other way   *)
(* than OverlapHasOrigin says (BookingService.cpp:23, 108, 156).           *)
THEOREM OverlapOrigin == Spec => OverlapHasOrigin
<1> DEFINE Brought == [B!OverlapBrought]_(B!vars)
<1>1. ASSUME B!Inv, [Next]_vars PROVE Brought
  <2>1. CASE BookingStep
    BY <1>1, <2>1, TablesAssumption, B!NewOverlapBrought DEF BookingStep, B!Next
  <2>2. CASE RoomStep
    BY <2>2 DEF RoomStep, bookingVars, B!OverlapBrought, B!Clash, B!Overlaps
  <2>3. CASE Crash
    BY <2>3 DEF Crash, B!Die, B!tables, B!OverlapBrought, B!Clash, B!Overlaps
  <2>4. CASE UNCHANGED vars
    BY <2>4 DEF vars, bookingVars, B!OverlapBrought, B!Clash, B!Overlaps
  <2> QED BY <1>1, <2>1, <2>2, <2>3, <2>4 DEF Next
<1>2. R!Inv /\ B!Inv /\ [Next]_vars => Brought
  BY <1>1
<1>3. [][B!OverlapBrought]_(B!vars) <=> OverlapHasOrigin
  BY DEF B!OverlapBrought, B!OverlapHasOrigin, OverlapHasOrigin
<1> QED BY <1>2, <1>3, InitInv, NextInv, PTL DEF Spec
-----------------------------------------------------------------------------
(* The occupancy report.                                                   *)

(* Both queries ask whether a night is in a stay, in other words.          *)
LEMMA SameNights ==
  ASSUME B!TablesTypeOK, NEW day \in Int, NEW r \in Rooms, NEW i \in B!BookingIds
  PROVE  i \in Report!Rows /\ Report!Stays(i, r, day)
         <=> B!Overlaps(bookings[i], r, day, day + 1)
<1>1. bookings[i] \in B!Booking \cup {NoRow}
  BY DEF B!TablesTypeOK
<1>2. CASE bookings[i] = NoRow
  BY <1>2 DEF Report!Rows, B!Overlaps, Report!BookingIds, B!BookingIds
<1>3. CASE bookings[i] # NoRow
  <2>1. bookings[i].check_in_date \in Int /\ bookings[i].check_out_date \in Int
    BY <1>1, <1>3 DEF B!Booking
  <2> QED BY <1>3, <2>1 DEF Report!Rows, Report!Stays, B!Overlaps, Report!BookingIds, B!BookingIds
<1> QED BY <1>2, <1>3

(* A row of the report is about a room, with a booking of that night or    *)
(* none.                                                                   *)
LEMMA OccupancyRows ==
  ASSUME NEW day \in Int, NEW row \in Report!Occupancy(day)
  PROVE  /\ row.room_id \in Rooms
         /\ \/ /\ row = [ room_id |-> row.room_id, booking_id |-> row.booking_id,
                         status |-> "occupied" ]
               /\ row.booking_id \in Report!Rows
               /\ Report!Stays(row.booking_id, row.room_id, day)
            \/ /\ row = [room_id |-> row.room_id, booking_id |-> 0, status |-> "available"]
               /\ \A i \in Report!Rows : ~Report!Stays(i, row.room_id, day)
<1> DEFINE guests(r) == {i \in Report!Rows : Report!Stays(i, r, day)}
<1>1. PICK r \in Rooms :
        row \in IF guests(r) = {}
                THEN {[room_id |-> r, booking_id |-> 0, status |-> "available"]}
                ELSE [room_id : {r}, booking_id : guests(r), status : {"occupied"}]
  BY DEF Report!Occupancy
<1>2. CASE guests(r) = {}
  <2>1. row = [room_id |-> r, booking_id |-> 0, status |-> "available"]
    BY <1>1, <1>2
  <2> QED BY <1>2, <2>1
<1>3. CASE guests(r) # {}
  BY <1>1, <1>3
<1> QED BY <1>2, <1>3

(* Whatever the threads do, the occupancy report (ReportController.cpp:124)*)
(* calls a room available exactly when a booking of that night would be    *)
(* accepted (BookingService.cpp:221).                                      *)
THEOREM Occupancy == Spec => []OccupancyAgreesWithCheck
<1>1. ASSUME B!Inv PROVE OccupancyAgreesWithCheck
  <2> SUFFICES ASSUME NEW day \in Days, NEW row \in Report!Occupancy(day)
               PROVE  row.status = "available"
                      <=> B!RoomIsFree([room_id |-> row.room_id, check_in_date |-> day,
                                        check_out_date |-> day + 1])
    BY DEF OccupancyAgreesWithCheck
  <2>1. B!TablesTypeOK /\ day \in Int
    BY <1>1, DaysAssumption DEF B!Inv, B!TypeOK
  <2>2. B!RoomIsFree([room_id |-> row.room_id, check_in_date |-> day,
                      check_out_date |-> day + 1])
        <=> \A i \in B!BookingIds : ~B!Overlaps(bookings[i], row.room_id, day, day + 1)
    BY DEF B!RoomIsFree
  <2>3. \A i \in Report!Rows : i \in B!BookingIds
    BY DEF Report!Rows, Report!BookingIds, B!BookingIds
  <2>4. row.status = "available"
        <=> \A i \in Report!Rows : ~Report!Stays(i, row.room_id, day)
    BY <2>1, OccupancyRows
  <2>5. row.room_id \in Rooms
    BY <2>1, OccupancyRows
  <2> QED BY <2>1, <2>2, <2>3, <2>4, <2>5, SameNights
<1>2. B!Inv => OccupancyAgreesWithCheck
  BY <1>1
<1> QED BY <1>2, InitInv, NextInv, PTL DEF Spec

(* The report lists a room twice for no other reason than a double         *)
(* booking, for any number of rooms and bookings.                          *)
THEOREM ListedTwice == Spec => []ListedTwiceNeedsClash
<1>1. ASSUME B!Inv PROVE ListedTwiceNeedsClash
  <2> SUFFICES ASSUME NEW day \in Days, NEW x \in Report!Occupancy(day),
                      NEW y \in Report!Occupancy(day), x.room_id = y.room_id, x # y
               PROVE  B!Clash(x.booking_id, y.booking_id)
    BY DEF ListedTwiceNeedsClash
  <2> DEFINE i == x.booking_id
             j == y.booking_id
  <2>1. B!TablesTypeOK /\ day \in Int
    BY <1>1, DaysAssumption DEF B!Inv, B!TypeOK
  <2>2. /\ i \in Report!Rows /\ Report!Stays(i, x.room_id, day)
        /\ j \in Report!Rows /\ Report!Stays(j, x.room_id, day)
        /\ i # j
    BY <2>1, OccupancyRows
  <2>3. bookings[i] \in B!Booking /\ bookings[j] \in B!Booking
        /\ bookings[i] # NoRow /\ bookings[j] # NoRow
    BY <2>1, <2>2 DEF Report!Rows, Report!BookingIds, B!BookingIds, B!TablesTypeOK
  <2>4. /\ bookings[i].check_in_date \in Int /\ bookings[i].check_out_date \in Int
        /\ bookings[j].check_in_date \in Int /\ bookings[j].check_out_date \in Int
    BY <2>3 DEF B!Booking
  <2> QED BY <2>1, <2>2, <2>3, <2>4 DEF B!Clash, B!Overlaps, Report!Stays
<1>2. B!Inv => ListedTwiceNeedsClash
  BY <1>1
<1> QED BY <1>2, InitInv, NextInv, PTL DEF Spec
-----------------------------------------------------------------------------
(* The reports of money.                                                   *)

(* The costs of the rows S of a table b, and what SUM makes of them.       *)
Costs(b, S) == [i \in S |-> b[i].total_cost]

CostIn(b, T) == Report!MapThenSumSet(LAMBDA i : b[i].total_cost, T)

Cost == Costs(bookings, Report!Rows)

LEMMA RowsAreFinite ==
  ASSUME B!TablesTypeOK
  PROVE  IsFiniteSet(Report!Rows) /\ Cost \in [Report!Rows -> Nat]
<1>1. IsFiniteSet(Report!BookingIds)
  BY TablesAssumption, FS_Interval DEF B!SequenceAssumption, Report!BookingIds
<1>2. Report!Rows \in SUBSET Report!BookingIds
  BY DEF Report!Rows
<1>3. \A i \in Report!Rows : bookings[i] \in B!Booking
  BY DEF Report!Rows, B!TablesTypeOK, B!BookingIds, Report!BookingIds
<1>4. \A i \in Report!Rows : bookings[i].total_cost \in Nat
  BY <1>3 DEF B!Booking
<1> QED BY <1>1, <1>2, <1>4, FS_Subset DEF Cost, Costs

(* What SUM(total_cost) adds up is the cost of the rows selected.          *)
LEMMA CostInIsSum ==
  ASSUME NEW b, NEW S, NEW F, SumOver(F, Costs(b, S), S), NEW T \in SUBSET S
  PROVE  CostIn(b, T) = F[T]
<1> DEFINE Eqn(G) ==
      G = [s \in SUBSET T |->
             IF s = {} THEN 0
             ELSE b[CHOOSE x \in s : TRUE].total_cost + G[s \ {CHOOSE x \in s : TRUE}]]
<1>1. ASSUME NEW s \in SUBSET T, s # {}
      PROVE  Costs(b, S)[CHOOSE x \in s : TRUE] = b[CHOOSE x \in s : TRUE].total_cost
  <2>1. (CHOOSE x \in s : TRUE) \in s
    BY <1>1
  <2> QED BY <2>1 DEF Costs
<1>2. ASSUME NEW G PROVE Eqn(G) <=> IsSum(G, Costs(b, S), T)
  BY <1>1 DEF IsSum
<1>3. \E G : Eqn(G)
  <2> HIDE DEF Eqn
  <2> QED BY <1>2, SumRestricted
<1> DEFINE G == CHOOSE H : Eqn(H)
<1>4. Eqn(G)
  <2> HIDE DEF Eqn
  <2> QED BY <1>3
<1>5. CostIn(b, T) = G[T]
  BY Zenon DEF CostIn, Report!MapThenSumSet, Report!MapThenFoldSet
<1> HIDE DEF G, Eqn
<1> QED BY <1>2, <1>4, <1>5, SumUnique

LEMMA CostOfIsSum ==
  ASSUME NEW F, SumOver(F, Cost, Report!Rows), NEW T \in SUBSET Report!Rows
  PROVE  Report!CostOf(T) = F[T]
<1>1. Report!CostOf(T) = CostIn(bookings, T)
  BY Zenon DEF Report!CostOf, CostIn
<1> QED BY <1>1, CostInIsSum DEF Cost

(* Rows that stay as they are cost what they did.                          *)
LEMMA SameRowsSameCost ==
  ASSUME B!TablesTypeOK, NEW T \in SUBSET Report!Rows,
         \A i \in T : bookings'[i] = bookings[i]
  PROVE  Report!CostOf(T)' = Report!CostOf(T)
<1>1. IsFiniteSet(T) /\ Costs(bookings, T) \in [T -> Nat]
  BY RowsAreFinite, FS_Subset DEF Cost, Costs
<1>2. PICK F : SumOver(F, Costs(bookings, T), T)
  BY <1>1, SumExists
<1>3. Costs(bookings', T) = Costs(bookings, T)
  BY DEF Costs
<1>4. CostIn(bookings', T) = F[T] /\ CostIn(bookings, T) = F[T]
  BY <1>2, <1>3, CostInIsSum
<1>5. Report!CostOf(T) = CostIn(bookings, T)
  BY Zenon DEF Report!CostOf, CostIn
<1>6. Report!CostOf(T)' = CostIn(bookings', T)
  BY Zenon DEF Report!CostOf, CostIn, Report!MapThenSumSet, Report!MapThenFoldSet
<1> QED BY <1>4, <1>5, <1>6

(* The revenue of the months hangs on the completed rows alone.            *)
LEMMA SameStaysSameRevenue ==
  ASSUME B!TablesTypeOK, Report!Completed' = Report!Completed,
         \A i \in Report!Completed : bookings'[i] = bookings[i]
  PROVE  Report!MonthlyRevenue' = Report!MonthlyRevenue
<1> DEFINE C == Report!Completed
           In(m) == {i \in C : Report!MonthIn(i) = m}
<1>1. \A i \in C : Report!MonthIn(i)' = Report!MonthIn(i)
  BY DEF Report!MonthIn
<1>2. ASSUME NEW m PROVE In(m)' = In(m) /\ Report!CostOf(In(m))' = Report!CostOf(In(m))
  <2>1. In(m)' = In(m)
    BY <1>1
  <2>2. In(m) \in SUBSET Report!Rows
    BY DEF Report!Completed
  <2>3. Report!CostOf(In(m))' = Report!CostOf(In(m))
    BY <2>1, <2>2, SameRowsSameCost
  <2> QED BY <2>1, <2>3
<1> QED BY <1>1, <1>2 DEF Report!MonthlyRevenue

(* A commit that is not about a completed stay leaves every one of them.   *)
LEMMA OtherStaysKept ==
  ASSUME B!Inv, NEW w \in Workers, B!InstallRows(w), pc[w] = "commit",
         req[w].op # "create" =>
           /\ req[w].booking_id \notin Report!Completed
           /\ req[w].op = "update" => req[w].booking_id \notin Report!Completed'
  PROVE  /\ Report!Completed' = Report!Completed
         /\ \A i \in Report!Completed : bookings'[i] = bookings[i]
<1>1. ASSUME NEW i \in B!BookingIds, i \in DOMAIN rowWrite[w]
      PROVE  i \notin Report!Completed /\ i \notin Report!Completed'
  <2>1. B!HeldRow(w, i)
    BY <1>1 DEF B!Inv, B!LocksFit
  <2>2. bookings'[i] = rowWrite[w][i]
    BY <1>1 DEF B!InstallRows
  <2>3. CASE req[w].op = "create"
    BY <2>1, <2>2, <2>3 DEF B!HeldRow, Report!Completed, Report!Rows
  <2>4. CASE req[w].op = "update"
    BY <2>1, <2>4 DEF B!HeldRow
  <2>5. CASE req[w].op \in {"cancel", "delete"}
    BY <2>1, <2>2, <2>5 DEF B!HeldRow, Report!Completed, Report!Rows
  <2>6. CASE req[w].op = "extend"
    <3>1. i \notin Report!Completed /\ bookings[i] # NoRow
      BY <2>1, <2>6 DEF B!HeldRow
    <3>2. bookings[i].status # "completed"
      BY <3>1, <1>1 DEF Report!Completed, Report!Rows, B!BookingIds, Report!BookingIds
    <3>3. bookings'[i].status # "completed"
      BY <2>1, <2>2, <2>6, <3>2 DEF B!HeldRow, B!StaysInPlace
    <3> QED BY <3>1, <3>3 DEF Report!Completed
  <2>7. req[w].op \in {"create", "update", "cancel", "extend", "delete"}
    <3>1. req[w] \in Requests
      BY TablesAssumption DEF B!Inv, B!TypeOK, B!StatementsFit
    <3> QED BY <3>1, TablesAssumption
         DEF B!RequestsAssumption, B!CreateRequest, B!UpdateRequest,
             B!CancelRequest, B!ExtendRequest, B!DeleteRequest
  <2> QED BY <2>3, <2>4, <2>5, <2>6, <2>7
<1>2. ASSUME NEW i \in B!BookingIds, i \notin DOMAIN rowWrite[w]
      PROVE  bookings'[i] = bookings[i]
  BY <1>2 DEF B!InstallRows
<1>3. B!BookingIds = Report!BookingIds
  BY DEF B!BookingIds, Report!BookingIds
<1>4. ASSUME NEW i \in B!BookingIds
      PROVE  i \in Report!Completed' <=> i \in Report!Completed
  BY <1>1, <1>2, <1>3 DEF Report!Completed, Report!Rows
<1> QED BY <1>1, <1>2, <1>3, <1>4 DEF Report!Completed, Report!Rows

(* What a month has earned (ReportController.cpp:13) changes by no other   *)
(* commit than one about a completed stay, or one that completes it, and   *)
(* by nothing that happens to a room, for any number of workers.           *)
THEOREM Revenue == Spec => RevenueIsKept
<1> DEFINE Kept ==
      Report!MonthlyRevenue # Report!MonthlyRevenue'
      => \E w \in Workers :
           /\ B!Commits(w) /\ req[w].op # "create"
           /\ LET i == req[w].booking_id IN
              \/ i \in Report!Completed
              \/ req[w].op = "update" /\ i \in Report!Completed'
<1>1. B!Inv /\ [Next]_vars => Kept
  <2> SUFFICES ASSUME B!Inv, [Next]_vars, Report!MonthlyRevenue # Report!MonthlyRevenue'
               PROVE  \E w \in Workers :
                        /\ B!Commits(w) /\ req[w].op # "create"
                        /\ LET i == req[w].booking_id IN
                           \/ i \in Report!Completed
                           \/ req[w].op = "update" /\ i \in Report!Completed'
    OBVIOUS
  <2>1. B!TablesTypeOK
    BY DEF B!Inv, B!TypeOK
  <2>2. ~( /\ Report!Completed' = Report!Completed
           /\ \A i \in Report!Completed : bookings'[i] = bookings[i] )
    BY <2>1, SameStaysSameRevenue
  <2>3. bookings' # bookings
    BY <2>2 DEF Report!Completed, Report!Rows
  <2>4. [B!Next]_(B!vars)
    <3>1. CASE BookingStep
      BY <3>1 DEF BookingStep, B!Next
    <3>2. CASE RoomStep \/ Crash \/ UNCHANGED vars
      BY <2>3, <3>2 DEF RoomStep, bookingVars, Crash, B!Die, B!tables, vars
    <3> QED BY <3>1, <3>2 DEF Next
  <2>5. PICK w \in Workers : B!Commits(w) /\ B!InstallRows(w)
    BY <2>3, <2>4, TablesAssumption, B!OnlyCommitsWrite
  <2>6. pc[w] = "commit"
    BY <2>5 DEF B!Commits
  <2> QED BY <2>2, <2>5, <2>6, OtherStaysKept
<1>2. R!Inv /\ B!Inv /\ [Next]_vars => [Kept]_vars
  BY <1>1
<1>3. [][Kept]_vars <=> RevenueIsKept
  BY DEF RevenueIsKept
<1> QED BY <1>2, <1>3, InitInv, NextInv, PTL DEF Spec

-----------------------------------------------------------------------------
(* The list of the best clients.                                           *)

StaysOf(u) == {i \in Report!Completed : bookings[i].user_id = u}

Payers == {bookings[i].user_id : i \in Report!Completed}

(* The list is one of the best by what they have spent, and what they have *)
(* spent is the cost of their completed stays.                             *)
SpentFits ==
  /\ IsFiniteSet(Payers)
  /\ Report!TotalSpent \in [Payers -> Nat]
  /\ \A u \in Payers : Report!TotalSpent[u] = CostIn(bookings, StaysOf(u))
  /\ \A best : best \in Report!TopClients <=> IsTop(best, Payers, Report!TotalSpent, Best)

(* What table b holds of user u's completed stays T can be added up.       *)
CanBeAdded(b, T) == IsFiniteSet(T) /\ Costs(b, T) \in [T -> Nat]

LEMMA StaysCanBeAdded == B!TablesTypeOK => \A u : CanBeAdded(bookings, StaysOf(u))
<1> SUFFICES ASSUME B!TablesTypeOK, NEW u PROVE CanBeAdded(bookings, StaysOf(u))
  OBVIOUS
<1>1. StaysOf(u) \in SUBSET Report!Rows
  BY DEF StaysOf, Report!Completed
<1>2. IsFiniteSet(StaysOf(u))
  BY <1>1, RowsAreFinite, FS_Subset
<1>3. Costs(bookings, StaysOf(u)) \in [StaysOf(u) -> Nat]
  BY <1>1, RowsAreFinite DEF Cost, Costs
<1> QED BY <1>2, <1>3 DEF CanBeAdded

LEMMA CostInIsNat ==
  ASSUME NEW b, NEW T, CanBeAdded(b, T)
  PROVE  CostIn(b, T) \in Nat
<1>1. PICK F : SumOver(F, Costs(b, T), T)
  BY SumExists DEF CanBeAdded
<1>2. CostIn(b, T) = F[T]
  BY <1>1, CostInIsSum
<1> QED BY <1>1, <1>2 DEF SumOver

(* More stays cost more.                                                   *)
LEMMA MoreStaysCostMore ==
  ASSUME NEW b, NEW c, NEW T, CanBeAdded(c, T), NEW S \in SUBSET T,
         \A i \in S : b[i] = c[i]
  PROVE  CostIn(b, S) <= CostIn(c, T)
<1>1. PICK F : SumOver(F, Costs(c, T), T)
  BY SumExists DEF CanBeAdded
<1>2. IsFiniteSet(S) /\ Costs(b, S) \in [S -> Nat] /\ Costs(b, S) = Costs(c, S)
  BY FS_Subset DEF CanBeAdded, Costs
<1>3. PICK G : SumOver(G, Costs(b, S), S)
  BY <1>2, SumExists
<1>4. CostIn(b, S) = G[S] /\ CostIn(c, S) = G[S]
  BY <1>2, <1>3, CostInIsSum
<1>5. CostIn(c, S) = F[S] /\ CostIn(c, T) = F[T]
  BY <1>1, CostInIsSum
<1>6. F[S] <= F[T]
  BY <1>1, SumOfPart
<1> QED BY <1>4, <1>5, <1>6

LEMMA SpentNow == B!TablesTypeOK => SpentFits
<1> SUFFICES ASSUME B!TablesTypeOK PROVE SpentFits
  OBVIOUS
<1> DEFINE spent == Report!TotalSpent
           guest == [i \in Report!Completed |-> bookings[i].user_id]
<1>1. IsFiniteSet(Payers)
  <2>1. IsFiniteSet(Report!Completed)
    <3>1. Report!Completed \in SUBSET Report!Rows
      BY DEF Report!Completed
    <3> QED BY <3>1, RowsAreFinite, FS_Subset
  <2>2. guest \in Surjection(Report!Completed, Payers)
    BY DEF Surjection, Payers
  <2> QED BY <2>1, <2>2, FS_Surjection
<1>2. spent = [u \in Payers |-> Report!CostOf(StaysOf(u))]
  BY DEF Report!TotalSpent, Payers, StaysOf
<1>3. ASSUME NEW u PROVE Report!CostOf(StaysOf(u)) = CostIn(bookings, StaysOf(u))
  BY Zenon DEF Report!CostOf, CostIn
<1>4. ASSUME NEW u PROVE CostIn(bookings, StaysOf(u)) \in Nat
  BY StaysCanBeAdded, CostInIsNat
<1>5. DOMAIN spent = Payers
  BY <1>2
<1>6. Report!Min({Best, Cardinality(Payers)}) = Size(Best, Payers)
  <2>1. Best \in Nat /\ Cardinality(Payers) \in Nat
    BY <1>1, BestAssumption, FS_CardinalityType
  <2> DEFINE S == {Best, Cardinality(Payers)}
  <2>2. \A x : (x \in S /\ \A y \in S : x =< y) <=> x = Size(Best, Payers)
    BY <2>1 DEF Size
  <2>3. (CHOOSE x \in S : \A y \in S : x =< y) = Size(Best, Payers)
    <3> HIDE DEF S
    <3> QED BY <2>2
  <2> QED BY <2>3 DEF Report!Min
<1>7. \A S : Report!Cardinality(S) = Cardinality(S)
  BY Zenon DEF Report!Cardinality, Cardinality
<1>8. ASSUME NEW best
      PROVE  best \in Report!TopClients <=> IsTop(best, Payers, spent, Best)
  <2> HIDE DEF spent
  <2>1. Report!TopClients =
          {T \in {s \in SUBSET Payers : Cardinality(s) = Size(Best, Payers)} :
             \A u \in T, v \in Payers \ T : spent[v] <= spent[u]}
    BY <1>5, <1>6, <1>7 DEF Report!TopClients, Report!kSubset, spent
  <2> QED BY <2>1 DEF IsTop
<1> HIDE DEF spent
<1>9. spent \in [Payers -> Nat] /\ \A u \in Payers : spent[u] = CostIn(bookings, StaysOf(u))
  BY <1>2, <1>3, <1>4
<1> QED BY <1>1, <1>8, <1>9 DEF SpentFits, spent

(* The same of the state after a step.                                     *)
LEMMA SpentNext ==
  B!TablesTypeOK' => SpentFits' /\ (\A u : CanBeAdded(bookings, StaysOf(u)))'
BY SpentNow, StaysCanBeAdded, PTL

(* Who keeps his stays, beside others who get none, keeps his place.       *)
LEMMA PlaceKept ==
  ASSUME B!TablesTypeOK, B!TablesTypeOK', NEW u,
         \A i \in StaysOf(u) : i \in StaysOf(u)' /\ bookings'[i] = bookings[i],
         \A v : v # u => \A i \in StaysOf(v)' : i \in StaysOf(v) /\ bookings'[i] = bookings[i],
         \A best \in Report!TopClients : u \in best
  PROVE  \A best \in Report!TopClients' : u \in best
<1> DEFINE P == Payers
           Q == Payers'
           f == Report!TotalSpent
           g == Report!TotalSpent'
<1>1. /\ SpentFits /\ SpentFits'
      /\ \A v : CanBeAdded(bookings, StaysOf(v)) /\ CanBeAdded(bookings', StaysOf(v)')
  BY SpentNow, SpentNext, StaysCanBeAdded
<1>2. /\ IsFiniteSet(P) /\ f \in [P -> Nat] /\ IsFiniteSet(Q) /\ g \in [Q -> Nat]
      /\ \A v \in P : f[v] = CostIn(bookings, StaysOf(v))
      /\ \A v \in Q : g[v] = CostIn(bookings', StaysOf(v)')
      /\ \A best : best \in Report!TopClients <=> IsTop(best, P, f, Best)
      /\ \A best : best \in Report!TopClients' <=> IsTop(best, Q, g, Best)
  BY <1>1 DEF SpentFits
<1>3. \A v : (v \in P <=> StaysOf(v) # {}) /\ (v \in Q <=> StaysOf(v)' # {})
  BY DEF Payers, StaysOf
<1> HIDE DEF P, Q, f, g
<1>4. u \in P => u \in Q /\ f[u] <= g[u]
  <2> SUFFICES ASSUME u \in P PROVE u \in Q /\ f[u] <= g[u]
    OBVIOUS
  <2>1. StaysOf(u) \in SUBSET StaysOf(u)' /\ u \in Q
    BY <1>3
  <2>2. CostIn(bookings, StaysOf(u)) <= CostIn(bookings', StaysOf(u)')
    BY <1>1, <2>1, MoreStaysCostMore
  <2> QED BY <1>2, <2>1, <2>2
<1>5. ASSUME NEW v \in Q \ {u} PROVE v \in P /\ g[v] <= f[v]
  <2>1. StaysOf(v)' \in SUBSET StaysOf(v) /\ v \in P
    BY <1>3, <1>5
  <2>2. CostIn(bookings', StaysOf(v)') <= CostIn(bookings, StaysOf(v))
    BY <1>1, <1>5, <2>1, MoreStaysCostMore
  <2> QED BY <1>2, <2>1, <2>2
<1> QED BY <1>2, <1>4, <1>5, BestAssumption, StaysSure

(* Who gets no stays, beside others who keep theirs, gets no new chance.   *)
LEMMA ChanceKept ==
  ASSUME B!TablesTypeOK, B!TablesTypeOK', NEW u,
         \A i \in StaysOf(u)' : i \in StaysOf(u) /\ bookings'[i] = bookings[i],
         \A v : v # u => \A i \in StaysOf(v) : i \in StaysOf(v)' /\ bookings'[i] = bookings[i],
         \E best \in Report!TopClients' : u \in best
  PROVE  \E best \in Report!TopClients : u \in best
<1> DEFINE P == Payers
           Q == Payers'
           f == Report!TotalSpent
           g == Report!TotalSpent'
<1>1. /\ SpentFits /\ SpentFits'
      /\ \A v : CanBeAdded(bookings, StaysOf(v)) /\ CanBeAdded(bookings', StaysOf(v)')
  BY SpentNow, SpentNext, StaysCanBeAdded
<1>2. /\ IsFiniteSet(P) /\ f \in [P -> Nat] /\ IsFiniteSet(Q) /\ g \in [Q -> Nat]
      /\ \A v \in P : f[v] = CostIn(bookings, StaysOf(v))
      /\ \A v \in Q : g[v] = CostIn(bookings', StaysOf(v)')
      /\ \A best : best \in Report!TopClients <=> IsTop(best, P, f, Best)
      /\ \A best : best \in Report!TopClients' <=> IsTop(best, Q, g, Best)
  BY <1>1 DEF SpentFits
<1>3. \A v : (v \in P <=> StaysOf(v) # {}) /\ (v \in Q <=> StaysOf(v)' # {})
  BY DEF Payers, StaysOf
<1> HIDE DEF P, Q, f, g
<1>4. u \in Q => u \in P /\ g[u] <= f[u]
  <2> SUFFICES ASSUME u \in Q PROVE u \in P /\ g[u] <= f[u]
    OBVIOUS
  <2>1. StaysOf(u)' \in SUBSET StaysOf(u) /\ u \in P
    BY <1>3
  <2>2. CostIn(bookings', StaysOf(u)') <= CostIn(bookings, StaysOf(u))
    BY <1>1, <2>1, MoreStaysCostMore
  <2> QED BY <1>2, <2>1, <2>2
<1>5. ASSUME NEW v \in P \ {u} PROVE v \in Q /\ f[v] <= g[v]
  <2>1. StaysOf(v) \in SUBSET StaysOf(v)' /\ v \in Q
    BY <1>3, <1>5
  <2>2. CostIn(bookings, StaysOf(v)) <= CostIn(bookings', StaysOf(v)')
    BY <1>1, <1>5, <2>1, MoreStaysCostMore
  <2> QED BY <1>2, <2>1, <2>2
<1> QED BY <1>2, <1>4, <1>5, BestAssumption, HadChance

(* A commit is about the booking of its request, or makes one that is not  *)
(* completed.                                                              *)
LEMMA CommitIsAbout ==
  ASSUME B!Inv, NEW w \in Workers, B!InstallRows(w), NEW i \in B!BookingIds,
         bookings'[i] # bookings[i]
  PROVE  \/ req[w].op # "create" /\ req[w].booking_id = i
         \/ i \notin Report!Completed /\ i \notin Report!Completed'
<1>1. i \in DOMAIN rowWrite[w] /\ bookings'[i] = rowWrite[w][i]
  BY DEF B!InstallRows
<1>2. B!HeldRow(w, i)
  BY <1>1 DEF B!Inv, B!LocksFit
<1> QED BY <1>1, <1>2 DEF B!HeldRow, Report!Completed, Report!Rows

(* For any number of guests, of workers and of places on the list          *)
(* (ReportController.cpp:46): a guest's place among the best clients goes  *)
(* with his completed stays and those of the others, and with nothing      *)
(* else.                                                                   *)
THEOREM Places == Spec => PlacesAreEarned
<1> DEFINE Earned ==
      LET before == Report!TopClients
          after == Report!TopClients'
          has(i, u) == i \in Report!Completed /\ bookings[i].user_id = u
          other(i, u) == i \in Report!Completed /\ bookings[i].user_id # u
          about(i) == \E w \in Workers : /\ B!Commits(w) /\ req[w].op # "create"
                                        /\ req[w].booking_id = i
      IN bookings' # bookings => \A u \in Users :
           /\ (\A best \in before : u \in best) /\ ~(\A best \in after : u \in best)
              => \E i \in B!BookingIds : about(i) /\ (has(i, u) \/ other(i, u)')
           /\ ~(\E best \in before : u \in best) /\ (\E best \in after : u \in best)
              => \E i \in B!BookingIds : about(i) /\ (has(i, u)' \/ other(i, u))
<1>1. ASSUME B!Inv, B!Inv', [Next]_vars PROVE Earned
  <2> SUFFICES ASSUME bookings' # bookings PROVE Earned
    OBVIOUS
  <2>1. B!TablesTypeOK /\ B!TablesTypeOK'
    BY <1>1 DEF B!Inv, B!TypeOK
  <2>2. [B!Next]_(B!vars)
    <3>1. CASE BookingStep
      BY <3>1 DEF BookingStep, B!Next
    <3>2. CASE RoomStep \/ Crash \/ UNCHANGED vars
      BY <3>2 DEF RoomStep, bookingVars, Crash, B!Die, B!tables, vars
    <3> QED BY <1>1, <3>1, <3>2 DEF Next
  <2>3. PICK w \in Workers : B!Commits(w) /\ B!InstallRows(w)
    BY <1>1, <2>2, TablesAssumption, B!OnlyCommitsWrite
  <2>4. Report!Completed \subseteq B!BookingIds /\ Report!Completed' \subseteq B!BookingIds
    BY DEF Report!Completed, Report!Rows, Report!BookingIds, B!BookingIds
  <2> DEFINE about(i) == req[w].op # "create" /\ req[w].booking_id = i
  <2>5. \A i \in B!BookingIds :
          ~about(i) => \/ bookings'[i] = bookings[i]
                       \/ i \notin Report!Completed /\ i \notin Report!Completed'
    BY <1>1, <2>3, CommitIsAbout
  <2>6. \A i \in B!BookingIds : bookings'[i] = bookings[i] =>
          (i \in Report!Completed <=> i \in Report!Completed')
    BY DEF Report!Completed, Report!Rows, Report!BookingIds, B!BookingIds
  <2>7. ASSUME NEW u \in Users,
               \A i \in B!BookingIds : about(i) =>
                 /\ ~(i \in Report!Completed /\ bookings[i].user_id = u)
                 /\ ~(i \in Report!Completed' /\ bookings'[i].user_id # u),
               \A best \in Report!TopClients : u \in best
        PROVE  \A best \in Report!TopClients' : u \in best
    <3>1. \A i \in StaysOf(u) : i \in StaysOf(u)' /\ bookings'[i] = bookings[i]
      BY <2>4, <2>5, <2>6, <2>7 DEF StaysOf
    <3>2. \A v : v # u => \A i \in StaysOf(v)' :
            i \in StaysOf(v) /\ bookings'[i] = bookings[i]
      BY <2>4, <2>5, <2>6, <2>7 DEF StaysOf
    <3> QED BY <2>1, <2>7, <3>1, <3>2, PlaceKept
  <2>8. ASSUME NEW u \in Users,
               \A i \in B!BookingIds : about(i) =>
                 /\ ~(i \in Report!Completed' /\ bookings'[i].user_id = u)
                 /\ ~(i \in Report!Completed /\ bookings[i].user_id # u),
               \E best \in Report!TopClients' : u \in best
        PROVE  \E best \in Report!TopClients : u \in best
    <3>1. \A i \in StaysOf(u)' : i \in StaysOf(u) /\ bookings'[i] = bookings[i]
      BY <2>4, <2>5, <2>6, <2>8 DEF StaysOf
    <3>2. \A v : v # u => \A i \in StaysOf(v) :
            i \in StaysOf(v)' /\ bookings'[i] = bookings[i]
      BY <2>4, <2>5, <2>6, <2>8 DEF StaysOf
    <3> QED BY <2>1, <2>8, <3>1, <3>2, ChanceKept
  <2> QED BY <2>3, <2>7, <2>8
<1>2. R!Inv /\ B!Inv /\ [Next]_vars => [Earned]_vars
  BY <1>1, NextInv
<1>3. [][Earned]_vars <=> PlacesAreEarned
  BY DEF PlacesAreEarned
<1> QED BY <1>2, <1>3, InitInv, NextInv, PTL DEF Spec

-----------------------------------------------------------------------------
(* The price of a booking and the category it was computed from.           *)

(* What the stay of w's request costs in the category that was read.       *)
FullPrice(w) ==
  B!StayPrice(BasePrice[priced[w]], req[w].check_in_date, req[w].check_out_date,
              ServicesPrice[IF req[w].op = "create" THEN req[w].services ELSE {}])

(* The points taken are what the part off the price is worth.              *)
Paid(w) ==
  /\ priced[w] \in Categories
  /\ FullPrice(w) - local[w].totalCost >= 0
  /\ -local[w].points = B!PointsSpent(FullPrice(w) - local[w].totalCost)

(* A row of bookings that w has written, with the stay that was priced.    *)
PricedRow(w, row) ==
  /\ row.room_id = req[w].room_id
  /\ row.check_in_date = req[w].check_in_date
  /\ row.check_out_date = req[w].check_out_date
  /\ row.total_cost = local[w].totalCost

(* What createNewBooking and adminUpdateBooking have priced and written so *)
(* far.  It is about w's own session only, so that no room and no other    *)
(* worker can disturb it.                                                  *)
PricedFits(w) ==
  /\ req[w].op = "create" =>
       /\ pc[w] \in {"getUserById", "selectBonuses"} =>
            priced[w] \in Categories /\ local[w].totalCost = FullPrice(w)
       /\ pc[w] \in {"addBonuses", "createBooking", "addServices", "commit"} => Paid(w)
  /\ req[w].op = "update" /\ pc[w] \in {"write", "addBonuses", "commit"} =>
       priced[w] \in Categories /\ local[w].totalCost = FullPrice(w)
  /\ req[w].op \in {"create", "update"} =>
       \A i \in DOMAIN rowWrite[w] : PricedRow(w, rowWrite[w][i])

LEMMA PricedAlone ==
  ASSUME NEW w \in Workers, PricedFits(w),
         pc'[w] = pc[w], req'[w] = req[w], local'[w] = local[w],
         rowWrite'[w] = rowWrite[w], priced'[w] = priced[w]
  PROVE  PricedFits(w)'
  BY DEF PricedFits, Paid, PricedRow, FullPrice

LEMMA IdlePriced ==
  ASSUME NEW w \in Workers, req'[w] = B!NoRequest
  PROVE  PricedFits(w)'
  BY DEF PricedFits, B!NoRequest

LEMMA FullPriceIsNat ==
  ASSUME NEW w \in Workers, B!TypeOK, req[w].op \in {"create", "update"},
         priced[w] \in Categories
  PROVE  FullPrice(w) \in Nat
<1>1. BasePrice[priced[w]] \in Nat
  BY TablesAssumption DEF B!PricesAssumption
<1>2. /\ req[w].op = "create" => req[w] \in B!CreateRequest
      /\ req[w].op = "update" => req[w] \in B!UpdateRequest
  BY TablesAssumption, B!RequestShape DEF B!TypeOK
<1>3. B!Nights(req[w].check_in_date, req[w].check_out_date) \in Nat
  BY <1>2 DEF B!Nights, B!CreateRequest, B!UpdateRequest
<1>4. ServicesPrice[IF req[w].op = "create" THEN req[w].services ELSE {}] \in Nat
  BY <1>2, TablesAssumption DEF B!PricesAssumption, B!CreateRequest
<1>5. \A a, b, c \in Nat : a * b + c \in Nat
  OBVIOUS
<1> QED BY <1>1, <1>3, <1>4, <1>5 DEF FullPrice, B!StayPrice

(* Before its first write a worker has taken no points.                    *)
LEMMA NothingHeld ==
  ASSUME B!Inv, NEW w \in Workers,
         pc[w] \notin {"createBooking", "addServices", "addBonuses", "commit"}
  PROVE  DOMAIN rowWrite[w] = {} /\ local[w].points = 0
<1>1. DOMAIN rowWrite[w] = {}
  BY DEF B!Inv, B!LocksFit, B!HeldRow
<1>2. DOMAIN bonusWrite[w] = {}
  BY DEF B!Inv, B!LocksFit, B!HeldBalance
<1> QED BY <1>1, <1>2 DEF B!Inv, B!PointsFit

(* A booking at the full price is paid with no points.                     *)
LEMMA FullyPaid ==
  ASSUME NEW price \in Nat, NEW points \in Int, points = 0
  PROVE  price - price >= 0 /\ -points = B!PointsSpent(price - price)
<1>1. \A n \in Nat : n - n = 0
  OBVIOUS
<1>2. \A n, m \in Int : n + m = 0 => -n = m
  OBVIOUS
<1>3. B!PointsSpent(0) = 0
  BY DEF B!PointsSpent, B!PointValue
<1> QED BY <1>1, <1>2, <1>3

LEMMA ReducedPaid ==
  ASSUME NEW price \in Nat, NEW points \in Nat
  PROVE  LET d == B!Discount(points, price) IN
         /\ price - (price - d) >= 0
         /\ -(-B!PointsSpent(d)) = B!PointsSpent(price - (price - d))
<1>1. B!Discount(points, price) \in Nat
  BY TablesAssumption, B!DiscountBounds
<1>2. \A d \in Nat : /\ price - (price - d) >= 0
                     /\ -(-B!PointsSpent(d)) = B!PointsSpent(price - (price - d))
  BY DEF B!PointsSpent, B!PointValue
<1> QED BY <1>1, <1>2

(* What a step of w notes of the price.                                    *)
Notes(w) ==
  /\ DOMAIN priced = Workers
  /\ priced' = [priced EXCEPT ![w] =
       IF pc'[w] = "idle" THEN NoRow
       ELSE IF pc[w] = "calculateTotalCost" THEN Category[B!Stay(w).room_id]
       ELSE @]

(* The price is noted, with its category, as it is computed.               *)
LEMMA PricePriced ==
  ASSUME B!Inv, NEW w \in Workers, PricedFits(w), Notes(w), B!CalculateTotalCost(w)
  PROVE  PricedFits(w)'
<1> DEFINE s == B!Stay(w)
           r == req[w]
<1>1. CASE Category[s.room_id] = NoRow
  BY <1>1, IdlePriced
     DEF B!CalculateTotalCost, B!Abort, B!Answer, B!Inv, B!TypeOK
<1>2. CASE Category[s.room_id] # NoRow /\ r.op \notin {"create", "update"}
  <2>1. req' = req
    BY <1>2 DEF B!CalculateTotalCost
  <2> QED BY <1>2, <2>1 DEF PricedFits
<1>3. CASE Category[s.room_id] # NoRow /\ r.op \in {"create", "update"}
  <2>1. /\ pc[w] = "calculateTotalCost"
        /\ local'[w].totalCost =
              B!PriceOf(s.room_id, s.check_in_date, s.check_out_date, s.services)
        /\ local'[w].points = local[w].points
        /\ pc'[w] = B!AfterPrice(r)
        /\ UNCHANGED <<req, rowWrite>>
    BY <1>3 DEF B!CalculateTotalCost, B!GoTo, B!session, B!Inv, B!TypeOK, B!Locals
  <2>2. DOMAIN rowWrite[w] = {} /\ local[w].points = 0
    BY <2>1, NothingHeld
  <2>3. /\ r.op = "create" => r \in B!CreateRequest
        /\ r.op = "update" => r \in B!UpdateRequest
    BY TablesAssumption, B!RequestShape DEF B!Inv, B!TypeOK
  <2>4. /\ s.room_id = r.room_id /\ r.room_id \in Rooms
        /\ s.check_in_date = r.check_in_date /\ s.check_out_date = r.check_out_date
        /\ s.services = IF r.op = "create" THEN r.services ELSE {}
    BY <1>3, <2>3 DEF B!Stay, B!CreateRequest, B!UpdateRequest
  <2>5. Category[s.room_id] \in Categories
    BY <1>3, <2>4 DEF B!Inv, B!TypeOK, B!TablesTypeOK
  <2>6. pc'[w] \in {"getUserById", "createBooking", "write"}
        /\ (pc'[w] = "write" <=> r.op # "create")
    BY <1>3, <2>1 DEF B!AfterPrice
  <2>7. priced'[w] = Category[s.room_id]
    BY <2>1, <2>6 DEF Notes
  <2>8. local'[w].totalCost = FullPrice(w)' /\ FullPrice(w)' \in Nat
    <3>1. local'[w].totalCost = FullPrice(w)'
      BY <2>1, <2>4, <2>7 DEF FullPrice, B!PriceOf
    <3>2. local'[w].totalCost \in Nat
      <4>1. B!Inv'
        BY TablesAssumption, B!CalculateTotalCostInv
      <4> QED BY <4>1 DEF B!Inv, B!TypeOK, B!Locals
    <3> QED BY <3>1, <3>2
  <2>9. r.op = "create" => Paid(w)'
    BY <2>1, <2>2, <2>5, <2>7, <2>8, FullyPaid DEF Paid
  <2> QED BY <1>3, <2>1, <2>2, <2>5, <2>6, <2>7, <2>8, <2>9 DEF PricedFits
<1> QED BY <1>1, <1>2, <1>3

(* The points of the account are taken off the price.                      *)
LEMMA DiscountPriced ==
  ASSUME B!Inv, NEW w \in Workers, PricedFits(w), Notes(w), B!SelectBonuses(w)
  PROVE  PricedFits(w)'
<1> DEFINE balance == bonuses[req[w].user_id]
           price == local[w].totalCost
           d == B!Discount(balance, price)
<1>1. /\ pc[w] = "selectBonuses" /\ UNCHANGED <<req, rowWrite>>
      /\ pc'[w] \in {"addBonuses", "createBooking"}
  BY DEF B!SelectBonuses, B!GoTo, B!session, B!Inv, B!TypeOK
<1>2. req[w].op = "create" /\ DOMAIN rowWrite[w] = {} /\ local[w].points = 0
  BY <1>1, NothingHeld DEF B!Inv, B!StatementsFit, B!CreateOnly
<1>3. priced'[w] = priced[w] /\ priced[w] \in Categories /\ price = FullPrice(w)
  BY <1>1, <1>2 DEF Notes, PricedFits
<1>4. FullPrice(w)' = FullPrice(w) /\ FullPrice(w) \in Nat
  BY <1>1, <1>2, <1>3, FullPriceIsNat DEF FullPrice, B!Inv
<1>5. CASE B!HasPoints(balance)
  <2>1. local'[w].totalCost = price - d /\ local'[w].points = -B!PointsSpent(d)
    BY <1>5 DEF B!SelectBonuses, B!Inv, B!TypeOK
  <2>2. balance \in Nat
    <3>1. req[w].user_id \in Users
      BY <1>2, TablesAssumption, B!RequestShape DEF B!Inv, B!TypeOK, B!CreateRequest
    <3> QED BY <3>1, <1>5 DEF B!HasPoints, B!Inv, B!TypeOK, B!TablesTypeOK
  <2>3. Paid(w)'
    <3> HIDE DEF balance
    <3> QED BY <1>3, <1>4, <2>1, <2>2, ReducedPaid DEF Paid
  <2> QED BY <1>1, <1>2, <2>3 DEF PricedFits
<1>6. CASE ~B!HasPoints(balance)
  <2>1. local' = local
    BY <1>6 DEF B!SelectBonuses
  <2>2. Paid(w)'
    BY <1>2, <1>3, <1>4, <2>1, FullyPaid DEF Paid
  <2> QED BY <1>1, <1>2, <2>2 DEF PricedFits
<1> QED BY <1>5, <1>6

(* The row is written with the stay that was asked for and the price.      *)
LEMMA InsertPriced ==
  ASSUME B!Inv, NEW w \in Workers, PricedFits(w), Notes(w), B!CreateBooking(w)
  PROVE  PricedFits(w)'
<1>1. /\ pc[w] = "createBooking" /\ UNCHANGED <<req, local>>
      /\ pc'[w] \in {"addServices", "commit"}
      /\ \A i \in DOMAIN rowWrite'[w] : PricedRow(w, rowWrite'[w][i])
  BY DEF B!CreateBooking, B!GoTo, B!Inv, B!TypeOK, PricedRow
<1>2. req[w].op = "create" /\ Paid(w) /\ priced'[w] = priced[w]
  BY <1>1 DEF B!Inv, B!StatementsFit, B!CreateOnly, PricedFits, Notes
<1>3. Paid(w)'
  BY <1>1, <1>2 DEF Paid, FullPrice
<1> QED BY <1>1, <1>2, <1>3 DEF PricedFits, PricedRow

LEMMA ServicesPriced ==
  ASSUME B!Inv, NEW w \in Workers, PricedFits(w), Notes(w), B!AddServicesToBooking(w)
  PROVE  PricedFits(w)'
<1>1. /\ pc[w] = "addServices" /\ UNCHANGED <<req, local>>
      /\ pc'[w] = "commit"
      /\ rowWrite'[w] = [i \in DOMAIN rowWrite[w] |->
                           [rowWrite[w][i] EXCEPT !.services = req[w].services]]
  BY DEF B!AddServicesToBooking, B!GoTo, B!Inv, B!TypeOK
<1>2. req[w].op = "create" /\ Paid(w) /\ priced'[w] = priced[w]
  BY <1>1 DEF B!Inv, B!StatementsFit, B!CreateOnly, PricedFits, Notes
<1>3. Paid(w)'
  BY <1>1, <1>2 DEF Paid, FullPrice
<1>4. ASSUME NEW i \in DOMAIN rowWrite'[w] PROVE PricedRow(w, rowWrite[w][i])'
  <2>1. PricedRow(w, rowWrite[w][i])
    BY <1>1, <1>2 DEF PricedFits
  <2>2. rowWrite[w][i] \in B!Booking
    BY <1>1, <1>2 DEF B!Inv, B!TypeOK, B!LocksFit, B!HeldRow
  <2> QED BY <1>1, <2>1, <2>2 DEF PricedRow, B!Booking
<1> QED BY <1>1, <1>2, <1>3, <1>4 DEF PricedFits

LEMMA UpdatePriced ==
  ASSUME B!Inv, NEW w \in Workers, PricedFits(w), Notes(w), B!AdminUpdateBooking(w)
  PROVE  PricedFits(w)'
<1> DEFINE r == req[w]
<1>1. /\ r.op = "update" /\ pc[w] = "write" /\ req' = req
      /\ pc'[w] \in {"addBonuses", "commit"}
      /\ local'[w].totalCost = local[w].totalCost
  BY DEF B!AdminUpdateBooking, B!WriteRow, B!GoTo, B!Inv, B!TypeOK, B!Locals
<1>2. priced'[w] = priced[w] /\ FullPrice(w)' = FullPrice(w)
  BY <1>1 DEF Notes, FullPrice
<1>3. ASSUME NEW i \in DOMAIN rowWrite'[w] PROVE PricedRow(w, rowWrite[w][i])'
  <2>1. r \in B!UpdateRequest
    BY <1>1, TablesAssumption, B!RequestShape DEF B!Inv, B!TypeOK
  <2>2. /\ bookings[r.booking_id] # NoRow
        /\ i = r.booking_id
        /\ rowWrite'[w][i] =
             [bookings[i] EXCEPT
                !.user_id = r.user_id, !.room_id = r.room_id,
                !.check_in_date = r.check_in_date, !.check_out_date = r.check_out_date,
                !.total_cost = local[w].totalCost, !.status = r.status]
    BY <1>3 DEF B!AdminUpdateBooking, B!WriteRow, B!NoWrites, B!Inv, B!TypeOK
  <2>3. bookings[i] \in B!Booking
    BY <2>1, <2>2 DEF B!Inv, B!TypeOK, B!TablesTypeOK, B!UpdateRequest
  <2> QED BY <1>1, <2>2, <2>3 DEF PricedRow, B!Booking
<1> QED BY <1>1, <1>2, <1>3 DEF PricedFits

(* A worker's statements leave the sessions of the others alone.           *)
LEMMA OthersSession ==
  ASSUME B!Inv, NEW w \in Workers, B!Serve(w), NEW v \in Workers \ {w}
  PROVE  /\ pc'[v] = pc[v] /\ req'[v] = req[v] /\ local'[v] = local[v]
         /\ rowWrite'[v] = rowWrite[v]
<1> USE DEF B!Inv, B!TypeOK, B!GoTo, B!session
<1>1. CASE \E code : B!Answer(w, code)
  BY <1>1 DEF B!Answer
<1>2. CASE B!Receive(w)
  BY <1>2 DEF B!Receive
<1>3. CASE B!IsRoomAvailable(w) /\ B!RoomIsFree(req[w])
  BY <1>3 DEF B!IsRoomAvailable
<1>4. CASE B!GetUserById(w) \/ B!AddBonuses(w)
  BY <1>4 DEF B!GetUserById, B!AddBonuses
<1>5. CASE B!SelectBonuses(w)
  BY <1>5 DEF B!SelectBonuses
<1>6. CASE B!CreateBooking(w) \/ B!AddServicesToBooking(w)
  BY <1>6 DEF B!CreateBooking, B!AddServicesToBooking
<1>7. CASE (B!CalculateTotalCost(w) \/ B!GetBookingById(w)) /\ ~\E code : B!Answer(w, code)
  BY <1>7 DEF B!CalculateTotalCost, B!GetBookingById, B!Abort
<1>8. CASE B!Write(w)
  BY <1>8 DEF B!Write, B!AdminUpdateBooking, B!UpdateStatus, B!UpdateDateAndCost,
              B!DeleteBooking, B!WriteRow
<1> QED
  BY <1>1, <1>2, <1>3, <1>4, <1>5, <1>6, <1>7, <1>8
     DEF B!Serve, B!Advance, B!Create, B!Commit, B!CommitInDoubt, B!Fail, B!Abort,
         B!IsRoomAvailable

(* All statements of a worker keep its price and its row together.         *)
LEMMA ServePriced ==
  ASSUME B!Inv, NEW w \in Workers, PricedFits(w), Notes(w), B!Serve(w)
  PROVE  PricedFits(w)'
<1>1. CASE \E code : B!Answer(w, code)
  BY <1>1, IdlePriced DEF B!Answer, B!Inv, B!TypeOK
<1>2. CASE B!Receive(w)
  <2>1. /\ pc[w] = "idle" /\ rowWrite' = rowWrite
        /\ pc'[w] = B!FirstStatement(req'[w].op)
    BY <1>2 DEF B!Receive, B!GoTo, B!session, B!Inv, B!TypeOK
  <2>2. DOMAIN rowWrite[w] = {}
    BY <2>1, NothingHeld
  <2> QED BY <2>1, <2>2 DEF PricedFits, B!FirstStatement
<1>3. CASE B!IsRoomAvailable(w) /\ B!RoomIsFree(req[w])
  <2>1. /\ pc[w] = "isRoomAvailable" /\ UNCHANGED <<req, rowWrite>>
        /\ pc'[w] = "calculateTotalCost"
    BY <1>3 DEF B!IsRoomAvailable, B!GoTo, B!session, B!Inv, B!TypeOK
  <2> QED BY <2>1, NothingHeld DEF PricedFits
<1>4. CASE B!GetUserById(w)
  <2>1. /\ pc[w] = "getUserById" /\ UNCHANGED <<req, local, rowWrite>>
        /\ pc'[w] \in {"selectBonuses", "createBooking"}
    BY <1>4 DEF B!GetUserById, B!GoTo, B!session, B!Inv, B!TypeOK
  <2>2. req[w].op = "create" /\ DOMAIN rowWrite[w] = {} /\ local[w].points = 0
    BY <2>1, NothingHeld DEF B!Inv, B!StatementsFit, B!CreateOnly
  <2>3. /\ priced'[w] = priced[w] /\ priced[w] \in Categories
        /\ local[w].totalCost = FullPrice(w) /\ FullPrice(w)' = FullPrice(w)
    BY <2>1, <2>2 DEF Notes, PricedFits, FullPrice
  <2>4. Paid(w)'
    BY <2>1, <2>2, <2>3, FullPriceIsNat, FullyPaid DEF Paid, B!Inv
  <2> QED BY <2>1, <2>2, <2>3, <2>4 DEF PricedFits
<1>5. CASE B!AddBonuses(w)
  <2>1. /\ pc[w] = "addBonuses" /\ UNCHANGED <<req, local, rowWrite>>
        /\ pc'[w] = IF req[w].op = "create" THEN "createBooking" ELSE "commit"
    BY <1>5 DEF B!AddBonuses, B!GoTo, B!Inv, B!TypeOK
  <2>2. priced'[w] = priced[w]
    BY <2>1 DEF Notes
  <2> QED BY <2>1, <2>2 DEF PricedFits, Paid, PricedRow, FullPrice
<1>6. CASE B!GetBookingById(w) /\ ~\E code : B!Answer(w, code)
  <2>1. /\ pc[w] = "getBookingById" /\ UNCHANGED <<req, rowWrite>>
        /\ pc'[w] = IF req[w].op = "cancel" THEN "write" ELSE "calculateTotalCost"
    BY <1>6 DEF B!GetBookingById, B!Abort, B!GoTo, B!session, B!Inv, B!TypeOK
  <2> QED BY <2>1, NothingHeld DEF PricedFits
<1>7. CASE B!UpdateStatus(w) \/ B!UpdateDateAndCost(w) \/ B!DeleteBooking(w)
  BY <1>7 DEF B!UpdateStatus, B!UpdateDateAndCost, B!DeleteBooking, PricedFits
<1> QED
  BY <1>1, <1>2, <1>3, <1>4, <1>5, <1>6, <1>7, PricePriced, DiscountPriced,
     InsertPriced, ServicesPriced, UpdatePriced
     DEF B!Serve, B!Advance, B!Create, B!Write, B!Commit, B!CommitInDoubt, B!Fail,
         B!Abort, B!IsRoomAvailable

-----------------------------------------------------------------------------
(* The invariant of the prices.                                            *)

PricesFit == DOMAIN priced = Workers /\ \A w \in Workers : PricedFits(w)

LEMMA InitPrices == Init => PricesFit
  BY DEF Init, B!Init, PricesFit, PricedFits, B!NoRequest

LEMMA NextPrices == B!Inv /\ PricesFit /\ [Next]_vars => PricesFit'
<1> SUFFICES ASSUME B!Inv, PricesFit, [Next]_vars PROVE PricesFit'
  OBVIOUS
<1>1. CASE BookingStep
  <2>1. PICK w \in Workers : B!Serve(w) /\ Notes(w)
    BY <1>1 DEF BookingStep, Notes, PricesFit
  <2>2. PricedFits(w)'
    BY <2>1, ServePriced DEF PricesFit
  <2>3. ASSUME NEW v \in Workers \ {w} PROVE PricedFits(v)'
    <3>1. priced'[v] = priced[v]
      BY <2>1 DEF Notes
    <3>2. /\ pc'[v] = pc[v] /\ req'[v] = req[v] /\ local'[v] = local[v]
          /\ rowWrite'[v] = rowWrite[v]
      BY <2>1, OthersSession
    <3> QED BY <3>1, <3>2, PricedAlone DEF PricesFit
  <2>4. DOMAIN priced' = Workers
    BY <2>1 DEF Notes
  <2> QED BY <2>2, <2>3, <2>4 DEF PricesFit
<1>2. CASE RoomStep \/ UNCHANGED vars
  <2>1. UNCHANGED <<pc, req, local, rowWrite, priced>>
    BY <1>2 DEF RoomStep, vars, bookingVars
  <2> QED BY <2>1, PricedAlone DEF PricesFit
<1>3. CASE Crash
  BY <1>3, IdlePriced DEF Crash, B!Die, PricesFit
<1> QED BY <1>1, <1>2, <1>3 DEF Next

(* A booking is stored at the price of its room, less the points taken,    *)
(* unless the room was moved or deleted after it was priced                *)
(* (BookingService.cpp:181), for any number of workers and administrators. *)
THEOREM Price == Spec => PriceIsOfTheRoom
<1> DEFINE Step ==
      \A w \in Workers, i \in B!BookingIds :
        LET row == bookings'[i]
            asked == IF req[w].op = "create" THEN req[w].services ELSE {}
            off == B!PriceOf(row.room_id, row.check_in_date, row.check_out_date, asked)
                   - row.total_cost
            points == IF req[w].op = "create" THEN -local[w].points ELSE 0
        IN /\ B!Commits(w) /\ req[w].op \in {"create", "update"}
           /\ bookings[i] # row /\ row # NoRow
           => \/ Category[row.room_id] # priced[w]
              \/ /\ Category[row.room_id] # NoRow
                 /\ points = B!PointsSpent(off) /\ off >= 0
<1>1. B!Inv /\ PricesFit /\ [Next]_vars => Step
  <2> SUFFICES ASSUME B!Inv, PricesFit, [Next]_vars,
                      NEW w \in Workers, NEW i \in B!BookingIds,
                      B!Commits(w), req[w].op \in {"create", "update"},
                      bookings[i] # bookings'[i], bookings'[i] # NoRow,
                      Category[bookings'[i].room_id] = priced[w]
               PROVE  LET row == bookings'[i]
                          asked == IF req[w].op = "create" THEN req[w].services ELSE {}
                          off == B!PriceOf(row.room_id, row.check_in_date,
                                           row.check_out_date, asked) - row.total_cost
                          points == IF req[w].op = "create" THEN -local[w].points ELSE 0
                      IN /\ Category[row.room_id] # NoRow
                         /\ points = B!PointsSpent(off) /\ off >= 0
    OBVIOUS
  <2> DEFINE row == bookings'[i]
             asked == IF req[w].op = "create" THEN req[w].services ELSE {}
             off == B!PriceOf(row.room_id, row.check_in_date, row.check_out_date, asked)
                    - row.total_cost
             points == IF req[w].op = "create" THEN -local[w].points ELSE 0
  <2>1. B!InstallRows(w) /\ pc[w] = "commit"
    <3>1. CASE BookingStep
      BY <3>1, TablesAssumption, B!CommitsInstalls DEF BookingStep, B!Next
    <3>2. CASE RoomStep \/ Crash \/ UNCHANGED vars
      BY <3>2 DEF RoomStep, bookingVars, Crash, B!Die, B!tables, vars
    <3> QED BY <3>1, <3>2 DEF Next
  <2>2. i \in DOMAIN rowWrite[w] /\ row = rowWrite[w][i]
    BY <2>1 DEF B!InstallRows
  <2>3. PricedRow(w, row) /\ priced[w] \in Categories
    BY <2>1, <2>2 DEF PricesFit, PricedFits, Paid
  <2>4. off = FullPrice(w) - local[w].totalCost
    BY <2>3 DEF PricedRow, FullPrice, B!PriceOf
  <2>5. Category[row.room_id] # NoRow
    BY <2>3, TablesAssumption DEF B!NullAssumption
  <2>6. CASE req[w].op = "create"
    <3>1. Paid(w)
      BY <2>1, <2>6 DEF PricesFit, PricedFits
    <3> QED BY <2>4, <2>5, <2>6, <3>1 DEF Paid
  <2>7. CASE req[w].op = "update"
    <3>1. local[w].totalCost = FullPrice(w)
      BY <2>1, <2>7 DEF PricesFit, PricedFits
    <3>2. FullPrice(w) \in Nat
      BY <2>3, <2>7, FullPriceIsNat DEF B!Inv
    <3>3. off = 0
      BY <2>4, <3>1, <3>2
    <3>4. B!PointsSpent(0) = 0
      BY DEF B!PointsSpent, B!PointValue
    <3>5. points = B!PointsSpent(off) /\ off >= 0
      <4> HIDE DEF off
      <4> QED BY <2>7, <3>3, <3>4
    <3> QED BY <2>5, <3>5
  <2> QED BY <2>6, <2>7
<1>2. R!Inv /\ B!Inv /\ PricesFit /\ [Next]_vars => [Step]_vars
  BY <1>1
<1>3. [][Step]_vars <=> PriceIsOfTheRoom
  BY DEF PriceIsOfTheRoom
<1>4. Init => R!Inv /\ B!Inv /\ PricesFit
  BY InitInv, InitPrices
<1>5. R!Inv /\ B!Inv /\ PricesFit /\ [Next]_vars => (R!Inv /\ B!Inv /\ PricesFit)'
  BY NextInv, NextPrices
<1> QED BY <1>2, <1>3, <1>4, <1>5, PTL DEF Spec

-----------------------------------------------------------------------------
(* The popularity of the categories.                                       *)

(* The rows that the report counts for the categories named n.             *)
Named(n) ==
  {i \in Report!Rows : \E c \in Categories :
                         /\ Category[bookings[i].room_id] = c
                         /\ NameOf[c] = n}

CountFits ==
  /\ DOMAIN Report!Popularity = {NameOf[c] : c \in Categories}
  /\ \A n : IsFiniteSet(Named(n))
  /\ \A n \in DOMAIN Report!Popularity : Report!Popularity[n] = Cardinality(Named(n))

LEMMA CountNow == B!TablesTypeOK => CountFits
<1> SUFFICES ASSUME B!TablesTypeOK PROVE CountFits
  OBVIOUS
<1>1. ASSUME NEW n PROVE IsFiniteSet(Named(n))
  <2>1. Named(n) \in SUBSET Report!Rows
    BY DEF Named
  <2> QED BY <2>1, RowsAreFinite, FS_Subset
<1>2. Report!Popularity = [n \in {NameOf[c] : c \in Categories} |->
                             Report!Cardinality(Named(n))]
  BY DEF Report!Popularity, Named
<1>3. \A S : Report!Cardinality(S) = Cardinality(S)
  BY Zenon DEF Report!Cardinality, Cardinality
<1> QED BY <1>1, <1>2, <1>3 DEF CountFits

(* The same of the state after a step.                                     *)
LEMMA CountNext == B!TablesTypeOK' => CountFits'
BY CountNow, PTL

(* A commit that removes no booking and gives none another room leaves     *)
(* every row with its room.                                                *)
LEMMA RoomsOfRowsKept ==
  ASSUME B!Inv, PricesFit, NEW w \in Workers, B!InstallRows(w),
         req[w].op # "delete",
         req[w].op = "update" => req[w].room_id = bookings[req[w].booking_id].room_id,
         NEW i \in B!BookingIds, bookings[i] # NoRow
  PROVE  bookings'[i] # NoRow /\ bookings'[i].room_id = bookings[i].room_id
<1>1. CASE i \notin DOMAIN rowWrite[w]
  BY <1>1 DEF B!InstallRows
<1>2. CASE i \in DOMAIN rowWrite[w]
  <2> DEFINE row == rowWrite[w][i]
  <2>1. bookings'[i] = row
    BY <1>2 DEF B!InstallRows
  <2>2. B!HeldRow(w, i) /\ req[w].op # "create"
    BY <1>2 DEF B!Inv, B!LocksFit, B!HeldRow
  <2>3. row # NoRow
    BY <2>2 DEF B!HeldRow
  <2>4. row.room_id = bookings[i].room_id
    <3>1. CASE req[w].op = "update"
      BY <1>2, <2>2, <3>1 DEF PricesFit, PricedFits, PricedRow, B!HeldRow
    <3>2. CASE req[w].op \in {"cancel", "extend"}
      BY <2>2, <3>2 DEF B!HeldRow, B!StaysInPlace
    <3>3. req[w].op \in {"update", "cancel", "extend"}
      <4>1. req[w] \in Requests
        BY <1>2, <2>2, TablesAssumption DEF B!Inv, B!TypeOK, B!StatementsFit, B!HeldRow
      <4> QED BY <2>2, <4>1, TablesAssumption
           DEF B!RequestsAssumption, B!CreateRequest, B!UpdateRequest,
               B!CancelRequest, B!ExtendRequest, B!DeleteRequest
    <3> QED BY <3>1, <3>2, <3>3
  <2> QED BY <2>1, <2>3, <2>4
<1> QED BY <1>1, <1>2

(* A category counts no booking less (ReportController.cpp:85) unless the  *)
(* administrator removes one or gives it another room, or a room leaves    *)
(* the category, for any number of workers, rooms and categories.          *)
THEOREM Popularity == Spec => PopularityIsKept
<1> DEFINE Kept ==
      LET before == Report!Popularity
          after == Report!Popularity'
      IN \A n \in DOMAIN before :
        after[n] < before[n]
        => \/ \E r \in Rooms : /\ Category[r] # NoRow /\ NameOf[Category[r]] = n
                               /\ Category'[r] # Category[r]
           \/ \E w \in Workers :
                /\ B!Commits(w)
                /\ \/ req[w].op = "delete"
                   \/ /\ req[w].op = "update"
                      /\ req[w].room_id # bookings[req[w].booking_id].room_id
<1>1. ASSUME B!Inv, B!Inv', PricesFit, [Next]_vars PROVE Kept
  <2> SUFFICES ASSUME NEW n \in DOMAIN Report!Popularity,
                      \A r \in Rooms : Category[r] # NoRow /\ NameOf[Category[r]] = n
                                       => Category'[r] = Category[r],
                      \A w \in Workers :
                        B!Commits(w)
                        => /\ req[w].op # "delete"
                           /\ req[w].op = "update" =>
                                req[w].room_id = bookings[req[w].booking_id].room_id
               PROVE  ~(Report!Popularity'[n] < Report!Popularity[n])
    OBVIOUS
  <2>1. B!TablesTypeOK /\ B!TablesTypeOK'
    BY <1>1 DEF B!Inv, B!TypeOK
  <2>2. CountFits /\ CountFits'
    BY <2>1, CountNow, CountNext
  <2>3. ASSUME NEW i \in B!BookingIds, bookings[i] # NoRow
        PROVE  bookings'[i] # NoRow /\ bookings'[i].room_id = bookings[i].room_id
    <3>1. CASE bookings' = bookings
      BY <2>3, <3>1
    <3>2. CASE bookings' # bookings
      <4>1. [B!Next]_(B!vars)
        <5>1. CASE BookingStep
          BY <5>1 DEF BookingStep, B!Next
        <5>2. CASE RoomStep \/ Crash \/ UNCHANGED vars
          BY <3>2, <5>2 DEF RoomStep, bookingVars, Crash, B!Die, B!tables, vars
        <5> QED BY <1>1, <5>1, <5>2 DEF Next
      <4>2. PICK w \in Workers : B!Commits(w) /\ B!InstallRows(w)
        BY <1>1, <3>2, <4>1, TablesAssumption, B!OnlyCommitsWrite
      <4> QED BY <1>1, <2>3, <4>2, RoomsOfRowsKept
    <3> QED BY <3>1, <3>2
  <2>4. ASSUME NEW i \in Named(n) PROVE i \in Named(n)'
    <3>1. /\ i \in B!BookingIds /\ bookings[i] # NoRow
          /\ Category[bookings[i].room_id] \in Categories
          /\ NameOf[Category[bookings[i].room_id]] = n
      BY <2>4 DEF Named, Report!Rows, Report!BookingIds, B!BookingIds
    <3>2. bookings[i].room_id \in Rooms
      BY <2>1, <3>1 DEF B!TablesTypeOK, B!Booking
    <3>3. Category'[bookings[i].room_id] = Category[bookings[i].room_id]
      BY <3>1, <3>2, TablesAssumption DEF B!NullAssumption
    <3>4. bookings'[i] # NoRow /\ bookings'[i].room_id = bookings[i].room_id
      BY <2>3, <3>1
    <3> QED BY <3>1, <3>3, <3>4 DEF Named, Report!Rows, Report!BookingIds, B!BookingIds
  <2>5. Cardinality(Named(n)) <= Cardinality(Named(n)')
    <3>1. Named(n) \in SUBSET Named(n)' /\ IsFiniteSet(Named(n)')
      BY <2>2, <2>4 DEF CountFits
    <3> HIDE DEF Named
    <3> QED BY <3>1, FS_Subset
  <2>6. Cardinality(Named(n)) \in Nat /\ Cardinality(Named(n)') \in Nat
    BY <2>2, FS_CardinalityType DEF CountFits
  <2>7. /\ Report!Popularity[n] = Cardinality(Named(n))
        /\ Report!Popularity'[n] = Cardinality(Named(n)')
    BY <2>2 DEF CountFits
  <2> QED BY <2>5, <2>6, <2>7
<1>2. R!Inv /\ B!Inv /\ PricesFit /\ [Next]_vars => [Kept]_vars
  BY <1>1, NextInv
<1>3. [][Kept]_vars <=> PopularityIsKept
  BY DEF PopularityIsKept
<1>4. Init => R!Inv /\ B!Inv /\ PricesFit
  BY InitInv, InitPrices
<1>5. R!Inv /\ B!Inv /\ PricesFit /\ [Next]_vars => (R!Inv /\ B!Inv /\ PricesFit)'
  BY NextInv, NextPrices
<1> QED BY <1>2, <1>3, <1>4, <1>5, PTL DEF Spec
=============================================================================
