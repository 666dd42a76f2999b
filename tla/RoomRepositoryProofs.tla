------------------------ MODULE RoomRepositoryProofs ------------------------
(***************************************************************************)
(* Theorems about RoomRepository, for every number of workers and rooms    *)
(* and all sets of requests.                                               *)
(***************************************************************************)
EXTENDS RoomRepository, Folding

(* A row is never mistaken for its absence, and a request never for the    *)
(* absence of one.                                                         *)
LEMMA RequestShape ==
  ASSUME NEW r \in Requests \cup {NoRequest}
  PROVE  /\ r.op \in {"none", "search", "create", "update", "delete"}
         /\ r.op \in {"create", "update"} => r.row \in Room
         /\ r.op \in {"update", "delete"} => r.room_id \in Rooms
  BY RequestsAssumption
     DEF SearchRequest, CreateRequest, UpdateRequest, DeleteRequest, NoRequest

LEMMA NothingIsEmpty == DOMAIN Nothing = {}
  BY DEF Nothing

(* The part of the invariant that is about the tables and their writers.    *)
TablesInv == TypeOK /\ WritesFit

LEMMA InitTables == Init => TablesInv
<1> SUFFICES ASSUME Init PROVE TablesInv
  OBVIOUS
<1>1. /\ rooms \in [Rooms -> Room \cup {NoRow}]
      /\ roomAmenities \in [Rooms -> SUBSET Amenities]
  BY TablesAssumption DEF Init
<1>2. TypeOK
  BY <1>1, NothingIsEmpty DEF Init, TypeOK, Nothing
<1> QED BY <1>2, NothingIsEmpty DEF Init, TablesInv, WritesFit

(* Whatever ends a request leaves nothing of its transaction behind.       *)
LEMMA AnswerTables ==
  ASSUME TablesInv, NEW w \in Workers, NEW code \in Codes, NEW list, Answer(w, code, list),
         DOMAIN list \subseteq Rooms, list \in [DOMAIN list -> Listed],
         UNCHANGED unused,
         roomAmenities' \in [Rooms -> SUBSET Amenities],
         rooms' \in [Rooms -> Room \cup {NoRow}],
         \A r \in Rooms \ DOMAIN roomWrite[w] : rooms'[r] = rooms[r]
  PROVE  TablesInv'
<1> USE NothingIsEmpty DEF TablesInv, WritesFit, Answer, GoTo
<1>1. TypeOK'
  BY DEF TypeOK, Nothing
<1>2. ASSUME NEW v \in Workers PROVE
        /\ pc'[v] \in {"write", "commit"} => req'[v].op \in {"create", "update", "delete"}
        /\ \A r \in DOMAIN roomWrite'[v] : HeldRoom(v, r)'
        /\ \A x \in Workers \ {v} : DOMAIN roomWrite'[v] \cap DOMAIN roomWrite'[x] = {}
  BY <1>2 DEF TypeOK, HeldRoom
<1> QED BY <1>1, <1>2

LEMMA ReceiveTables == ASSUME TablesInv, NEW w \in Workers, Receive(w) PROVE TablesInv'
<1> USE NothingIsEmpty, RequestShape DEF TablesInv, WritesFit, Receive, GoTo
<1>1. DOMAIN roomWrite[w] = {}
  BY DEF HeldRoom
<1>2. TypeOK'
  BY DEF TypeOK, Nothing, roomTables, Codes
<1>3. ASSUME NEW v \in Workers PROVE
        /\ pc'[v] \in {"write", "commit"} => req'[v].op \in {"create", "update", "delete"}
        /\ \A r \in DOMAIN roomWrite'[v] : HeldRoom(v, r)'
        /\ \A x \in Workers \ {v} : DOMAIN roomWrite'[v] \cap DOMAIN roomWrite'[x] = {}
  <2>1. CASE v = w
    <3>1. DOMAIN roomWrite'[v] = {}
      BY <1>1, <2>1
    <3>2. PICK r \in Requests :
            /\ req'[w] = r
            /\ pc'[w] = IF r.op = "search" THEN "selectRooms" ELSE "write"
      BY DEF TypeOK
    <3>3. r.op \in {"search", "create", "update", "delete"}
      BY RequestsAssumption
         DEF SearchRequest, CreateRequest, UpdateRequest, DeleteRequest
    <3> QED BY <2>1, <3>1, <3>2, <3>3
  <2>2. CASE v # w
    BY <1>3, <2>2 DEF TypeOK, HeldRoom, roomTables
  <2> QED BY <2>1, <2>2
<1> QED BY <1>2, <1>3

(* A worker that searches writes nothing.                                  *)
LEMMA NothingWritten ==
  ASSUME TablesInv, NEW w \in Workers, pc[w] # "commit" PROVE DOMAIN roomWrite[w] = {}
  BY DEF TablesInv, WritesFit, HeldRoom

LEMMA SelectRoomsTables == ASSUME TablesInv, NEW w \in Workers, SelectRooms(w) PROVE TablesInv'
<1> DEFINE S == Selected(w)
<1> USE DEF roomTables
<1>1. pc[w] = "selectRooms" /\ DOMAIN roomWrite[w] = {} /\ TypeOK
  BY NothingWritten DEF SelectRooms, TablesInv, WritesFit
<1>2. CASE S = {}
  <2>1. Answer(w, 200, Nothing)
    BY <1>2 DEF SelectRooms
  <2>2. Nothing \in [DOMAIN Nothing -> Listed] /\ DOMAIN Nothing \subseteq Rooms
    BY NothingIsEmpty DEF Nothing
  <2> QED BY <1>1, <2>1, <2>2, AnswerTables DEF SelectRooms, Codes, TypeOK
<1>3. CASE S # {}
  <2>1. /\ found' = [found EXCEPT ![w] = [r \in S |-> [row |-> rooms[r], amenities |-> {}]]]
        /\ pc' = [pc EXCEPT ![w] = "selectAmenities"]
        /\ UNCHANGED <<req, roomWrite, reply, rooms, roomAmenities, unused>>
    BY <1>3 DEF SelectRooms, GoTo
  <2>2. \A r \in S : r \in Rooms /\ rooms[r] \in Room
    BY <1>1 DEF Selected, Matches, FitsColumns, TypeOK
  <2>3. [r \in S |-> [row |-> rooms[r], amenities |-> {}]] \in [S -> Listed]
    BY <2>2 DEF Listed
  <2> HIDE DEF S
  <2>4. TypeOK'
    BY <1>1, <2>1, <2>2, <2>3 DEF TypeOK
  <2>5. ASSUME NEW v \in Workers PROVE
          /\ pc'[v] \in {"write", "commit"} => req'[v].op \in {"create", "update", "delete"}
          /\ \A r \in DOMAIN roomWrite'[v] : HeldRoom(v, r)'
          /\ \A x \in Workers \ {v} : DOMAIN roomWrite'[v] \cap DOMAIN roomWrite'[x] = {}
    BY <1>1, <2>1, <2>5 DEF TablesInv, WritesFit, TypeOK, HeldRoom
  <2> QED BY <2>4, <2>5 DEF TablesInv, WritesFit
<1> QED BY <1>2, <1>3

LEMMA SelectAmenitiesTables == ASSUME TablesInv, NEW w \in Workers, SelectAmenities(w) PROVE TablesInv'
<1> DEFINE list == [r \in DOMAIN found[w] |->
                      [found[w][r] EXCEPT !.amenities = roomAmenities[r]]]
<1>1. pc[w] = "selectAmenities" /\ DOMAIN roomWrite[w] = {} /\ TypeOK
  BY NothingWritten DEF SelectAmenities, TablesInv, WritesFit
<1>2. DOMAIN list \subseteq Rooms /\ list \in [DOMAIN list -> Listed]
  <2>1. ASSUME NEW r \in DOMAIN found[w]
        PROVE  r \in Rooms /\ found[w][r] \in Listed /\ roomAmenities[r] \in SUBSET Amenities
    BY <1>1 DEF TypeOK
  <2>2. ASSUME NEW x \in Listed, NEW a \in SUBSET Amenities
        PROVE  [x EXCEPT !.amenities = a] \in Listed
    BY DEF Listed
  <2>3. \A r \in DOMAIN found[w] : r \in Rooms /\ list[r] \in Listed
    BY <2>1, <2>2
  <2> QED BY <2>3
<1>3. Answer(w, 200, list) /\ UNCHANGED <<rooms, roomAmenities, unused>>
  BY DEF SelectAmenities, roomTables
<1> HIDE DEF list
<1> QED BY <1>1, <1>2, <1>3, AnswerTables DEF Codes, TypeOK

LEMMA SearchFailsTables == ASSUME TablesInv, NEW w \in Workers, SearchFails(w) PROVE TablesInv'
<1>1. DOMAIN roomWrite[w] = {} /\ TypeOK
  BY NothingWritten DEF SearchFails, TablesInv, WritesFit
<1> QED BY <1>1, AnswerTables DEF SearchFails, roomTables, Codes, TypeOK

LEMMA WriteFailsTables == ASSUME TablesInv, NEW w \in Workers, WriteFails(w) PROVE TablesInv'
<1>1. TypeOK /\ UNCHANGED <<rooms, roomAmenities, unused>> /\ Answer(w, 409, Nothing)
  BY DEF WriteFails, TablesInv, WritesFit, roomTables
<1>2. Nothing \in [DOMAIN Nothing -> Listed] /\ DOMAIN Nothing \subseteq Rooms
  BY NothingIsEmpty DEF Nothing
<1> QED BY <1>1, <1>2, AnswerTables DEF Codes, TypeOK

(* A worker takes a row that nobody else holds.                            *)
LEMMA HoldTables ==
  ASSUME TablesInv, NEW w \in Workers, pc[w] = "write", NEW write,
         pc' = [pc EXCEPT ![w] = "commit"],
         roomWrite' = [roomWrite EXCEPT ![w] = write],
         UNCHANGED <<rooms, roomAmenities, req, found, reply>>,
         unused' \subseteq unused,
         DOMAIN write \subseteq Rooms \ unused',
         write \in [DOMAIN write -> Room \cup {NoRow}],
         \A v \in Workers \ {w} : DOMAIN write \cap DOMAIN roomWrite[v] = {},
         \A r \in DOMAIN write :
           /\ req[w].op = "create" => rooms[r] = NoRow
           /\ req[w].op # "create" => r = req[w].room_id /\ rooms[r] # NoRow
           /\ write[r] = IF req[w].op = "delete" THEN NoRow ELSE req[w].row
  PROVE  TablesInv'
<1>1. TypeOK'
  BY DEF TablesInv, WritesFit, TypeOK
<1>2. ASSUME NEW v \in Workers PROVE
        /\ pc'[v] \in {"write", "commit"} => req'[v].op \in {"create", "update", "delete"}
        /\ \A r \in DOMAIN roomWrite'[v] : HeldRoom(v, r)'
        /\ \A x \in Workers \ {v} : DOMAIN roomWrite'[v] \cap DOMAIN roomWrite'[x] = {}
  <2>1. CASE v = w
    BY <2>1 DEF TablesInv, WritesFit, TypeOK, HeldRoom
  <2>2. CASE v # w
    BY <1>2, <2>2 DEF TablesInv, WritesFit, TypeOK, HeldRoom
  <2> QED BY <2>1, <2>2
<1> QED BY <1>1, <1>2 DEF TablesInv, WritesFit

LEMMA CreateRoomTables == ASSUME TablesInv, NEW w \in Workers, CreateRoom(w) PROVE TablesInv'
<1>1. PICK r \in unused :
        /\ unused' = unused \ {r}
        /\ roomWrite' = [roomWrite EXCEPT ![w] = [x \in {r} |-> req[w].row]]
  BY DEF CreateRoom
<1>2. req[w].op = "create" /\ req[w].row \in Room
  BY RequestShape DEF CreateRoom, TablesInv, WritesFit, TypeOK
<1>3. r \in Rooms /\ rooms[r] = NoRow /\ \A v \in Workers : r \notin DOMAIN roomWrite[v]
  BY DEF TablesInv, WritesFit, TypeOK
<1> DEFINE write == [x \in {r} |-> req[w].row]
<1>4. DOMAIN write = {r} /\ \A x \in {r} : write[x] = req[w].row
  OBVIOUS
<1>5. write \in [DOMAIN write -> Room \cup {NoRow}]
  BY <1>2
<1>6. /\ pc[w] = "write" /\ pc' = [pc EXCEPT ![w] = "commit"]
      /\ roomWrite' = [roomWrite EXCEPT ![w] = write]
      /\ UNCHANGED <<rooms, roomAmenities, req, found, reply>>
  BY <1>1 DEF CreateRoom, GoTo
<1>7. unused' \subseteq unused /\ DOMAIN write \subseteq Rooms \ unused'
  BY <1>1, <1>3, <1>4
<1>8. \A v \in Workers \ {w} : DOMAIN write \cap DOMAIN roomWrite[v] = {}
  BY <1>3, <1>4
<1>9. \A x \in DOMAIN write :
        /\ req[w].op = "create" => rooms[x] = NoRow
        /\ req[w].op # "create" => x = req[w].room_id /\ rooms[x] # NoRow
        /\ write[x] = IF req[w].op = "delete" THEN NoRow ELSE req[w].row
  BY <1>2, <1>3, <1>4
<1> HIDE DEF write
<1> QED BY <1>5, <1>6, <1>7, <1>8, <1>9, HoldTables

LEMMA WriteRoomTables ==
  ASSUME TablesInv, NEW w \in Workers, UpdateRoom(w) \/ DeleteRoom(w) PROVE TablesInv'
<1> DEFINE row == IF req[w].op = "delete" THEN NoRow ELSE req[w].row
           r == req[w].room_id
           write == IF rooms[r] = NoRow THEN Nothing ELSE [x \in {r} |-> row]
<1>1. req[w].op \in {"update", "delete"} /\ WriteRoom(w, row)
  BY DEF UpdateRoom, DeleteRoom
<1>2. r \in Rooms /\ row \in Room \cup {NoRow}
  BY <1>1, RequestShape DEF TablesInv, WritesFit, TypeOK
<1>3. /\ pc[w] = "write" /\ pc' = [pc EXCEPT ![w] = "commit"]
      /\ roomWrite' = [roomWrite EXCEPT ![w] = write]
      /\ UNCHANGED <<rooms, roomAmenities, unused, req, found, reply>>
      /\ ~RoomLocked(w, r)
  BY <1>1 DEF WriteRoom, GoTo, roomTables
<1>4. /\ DOMAIN write \subseteq {r} /\ (DOMAIN write # {} => rooms[r] # NoRow)
      /\ \A x \in DOMAIN write : write[x] = row
      /\ write \in [DOMAIN write -> Room \cup {NoRow}]
  BY <1>2, NothingIsEmpty DEF Nothing
<1>5. DOMAIN write \subseteq Rooms \ unused'
  BY <1>2, <1>3, <1>4 DEF TablesInv, WritesFit, TypeOK
<1>6. \A v \in Workers \ {w} : DOMAIN write \cap DOMAIN roomWrite[v] = {}
  BY <1>3, <1>4 DEF RoomLocked
<1>7. \A x \in DOMAIN write :
        /\ req[w].op = "create" => rooms[x] = NoRow
        /\ req[w].op # "create" => x = req[w].room_id /\ rooms[x] # NoRow
        /\ write[x] = IF req[w].op = "delete" THEN NoRow ELSE req[w].row
  BY <1>1, <1>4
<1> HIDE DEF write
<1> QED BY <1>3, <1>4, <1>5, <1>6, <1>7, HoldTables

LEMMA CommitTables ==
  ASSUME TablesInv, NEW w \in Workers, Commit(w) \/ CommitInDoubt(w) PROVE TablesInv'
<1>1. PICK code \in Codes : Answer(w, code, Nothing)
  BY DEF Commit, CommitInDoubt, SuccessCode, Codes
<1>2. TypeOK /\ InstallRoom(w)
  BY DEF Commit, CommitInDoubt, TablesInv, WritesFit
<1>3. /\ \A r \in Rooms \ DOMAIN roomWrite[w] : rooms'[r] = rooms[r]
      /\ rooms' \in [Rooms -> Room \cup {NoRow}]
      /\ roomAmenities' \in [Rooms -> SUBSET Amenities]
      /\ UNCHANGED unused
  BY <1>2 DEF InstallRoom, TypeOK
<1>4. Nothing \in [DOMAIN Nothing -> Listed] /\ DOMAIN Nothing \subseteq Rooms
  BY NothingIsEmpty DEF Nothing
<1> QED BY <1>1, <1>3, <1>4, AnswerTables

LEMMA DieTables == TablesInv /\ Die => TablesInv'
<1> SUFFICES ASSUME TablesInv, Die PROVE TablesInv'
  OBVIOUS
<1>1. TypeOK'
  BY NothingIsEmpty DEF TablesInv, WritesFit, TypeOK, Die, Nothing, roomTables
<1> QED BY <1>1, NothingIsEmpty DEF TablesInv, WritesFit, Die, NoRequest

LEMMA NextTables == TablesInv /\ [Next]_vars => TablesInv'
<1> SUFFICES ASSUME TablesInv, [Next]_vars PROVE TablesInv'
  OBVIOUS
<1>1. ASSUME NEW w \in Workers, Serve(w) PROVE TablesInv'
  BY <1>1, ReceiveTables, SelectRoomsTables, SelectAmenitiesTables, SearchFailsTables,
     CreateRoomTables, WriteRoomTables, CommitTables, WriteFailsTables DEF Serve
<1>2. CASE Crash
  BY <1>2, DieTables DEF Crash
<1>3. CASE UNCHANGED vars
  BY <1>3 DEF vars, roomTables, TablesInv, WritesFit, TypeOK, HeldRoom
<1> QED BY <1>1, <1>2, <1>3 DEF Next

-----------------------------------------------------------------------------
(* What a query asks for.                                                  *)

Filters ==
  [ amenity : Seq(Amenities), min_price : Int \cup {None},
    max_price : Int \cup {None}, category_id : Categories \cup {None},
    capacity : Int \cup {None} ]

Sets(segment, key) == segment.key = key /\ segment.value # Unparsable

Column(segment, key, old) == IF Sets(segment, key) THEN segment.value ELSE old

Amenity(segment, old) ==
  IF Sets(segment, "amenity") THEN Append(old, segment.value) ELSE old

(* One round of the loop over the query string, column by column.          *)
LEMMA SegmentParsed ==
  ASSUME NEW f \in Filters, NEW segment \in Segment
  PROVE  LET parsed == ParseSegment(f, segment) IN
         /\ parsed \in Filters
         /\ parsed.amenity = Amenity(segment, f.amenity)
         /\ parsed.min_price = Column(segment, "min_price", f.min_price)
         /\ parsed.max_price = Column(segment, "max_price", f.max_price)
         /\ parsed.category_id = Column(segment, "category_id", f.category_id)
         /\ parsed.capacity = Column(segment, "capacity", f.capacity)
<1> USE DEF Filters, Sets, Column, Amenity
<1>1. CASE segment.value = Unparsable
  BY <1>1 DEF ParseSegment
<1>2. CASE segment.value # Unparsable /\ segment.key = "amenity"
  <2>1. segment.value \in Amenities
    BY <1>2 DEF Segment
  <2>2. ParseSegment(f, segment) = [f EXCEPT !.amenity = Append(f.amenity, segment.value)]
    BY <1>2 DEF ParseSegment
  <2>3. Append(f.amenity, segment.value) \in Seq(Amenities)
    BY <2>1
  <2>4. ParseSegment(f, segment) \in Filters
    BY <2>2, <2>3
  <2> QED BY <1>2, <2>2, <2>4
<1>3. ASSUME segment.value # Unparsable, segment.key # "amenity"
      PROVE  /\ segment.key \in {"min_price", "max_price", "category_id", "capacity"}
             /\ segment.value \in IF segment.key = "category_id" THEN Categories ELSE Int
             /\ ParseSegment(f, segment) = [f EXCEPT ![segment.key] = segment.value]
  BY <1>3 DEF ParseSegment, Segment
<1>4. CASE segment.value # Unparsable /\ segment.key = "min_price"
  BY <1>3, <1>4
<1>5. CASE segment.value # Unparsable /\ segment.key = "max_price"
  BY <1>3, <1>5
<1>6. CASE segment.value # Unparsable /\ segment.key = "category_id"
  BY <1>3, <1>6
<1>7. CASE segment.value # Unparsable /\ segment.key = "capacity"
  BY <1>3, <1>7
<1> QED BY <1>1, <1>2, <1>3, <1>4, <1>5, <1>6, <1>7

(* P is what the loop has parsed after each segment.                       *)
ParsedBy(P, query) ==
  /\ P[0] = NoFilter
  /\ \A k \in 1..Len(query) :
       P[k - 1] \in Filters /\ P[k] = ParseSegment(P[k - 1], query[k])

LEMMA ParseInTurn ==
  ASSUME NEW query \in Seq(Segment)
  PROVE  /\ \E P : ParsedBy(P, query) /\ Parse(query) = P[Len(query)]
         /\ Parse(query) \in Filters
<1> DEFINE D == 1..Len(query)
           Eqn(F) ==
             F = [s \in SUBSET DOMAIN query |->
                    IF s = {} THEN NoFilter
                    ELSE ParseSegment(F[s \ {Max(s)}], query[Max(s)])]
           pick == [s \in SUBSET D |-> Max(s)]
           step == [p \in D \X Filters |-> ParseSegment(p[2], query[p[1]])]
<1>1. /\ Len(query) \in Nat /\ DOMAIN query = D /\ IsFiniteSet(D)
      /\ \A k \in D : query[k] \in Segment
  BY FS_Interval
<1>2. ASSUME NEW s \in SUBSET D, s # {}
      PROVE  Max(s) \in s /\ \A k \in s : k <= Max(s)
  <2>1. \E m \in s : \A k \in s : m >= k
    BY <1>1, <1>2, Greatest
  <2>2. Max(s) \in s /\ \A k \in s : Max(s) >= k
    BY <2>1, Zenon DEF Max
  <2>3. \A k \in s : k \in Int
    OBVIOUS
  <2> QED BY <2>2, <2>3
<1>3. StaysIn(D, Filters, NoFilter, pick, step)
  <2>1. NoFilter \in Filters
    BY DEF NoFilter, Filters
  <2>2. \A s \in SUBSET D : s # {} => pick[s] \in s
    BY <1>2
  <2>3. ASSUME NEW k \in D, NEW f \in Filters PROVE step[<<k, f>>] \in Filters
    BY <1>1, SegmentParsed
  <2> HIDE DEF pick, step
  <2> QED BY <2>1, <2>2, <2>3 DEF StaysIn
<1>4. PICK F : FoldsInto(F, D, Filters, NoFilter, pick, step)
  <2> HIDE DEF pick, step, D
  <2> QED BY <1>1, <1>3, FoldExists
<1>5. Eqn(F)
  <2>1. ASSUME NEW s \in SUBSET D, s # {}
        PROVE  step[<<pick[s], F[s \ {pick[s]}]>>]
               = ParseSegment(F[s \ {Max(s)}], query[Max(s)])
    <3>1. Max(s) \in D /\ F[s \ {Max(s)}] \in Filters
      BY <1>2, <1>4, <2>1 DEF FoldsInto
    <3>2. pick[s] = Max(s)
      OBVIOUS
    <3> HIDE DEF pick
    <3> QED BY <3>1, <3>2
  <2> HIDE DEF step, pick
  <2> QED BY <1>1, <1>4, <2>1 DEF FoldsInto, IsFold
<1> DEFINE G == CHOOSE H : Eqn(H)
<1>6. Eqn(G)
  <2> HIDE DEF Eqn
  <2> QED BY <1>5
<1>7. Parse(query) = G[DOMAIN query]
  BY Zenon DEF Parse, FoldLeft, MapThenFoldSet
<1> HIDE DEF G
<1> DEFINE P == [k \in 0..Len(query) |-> G[1..k]]
<1>8. P[0] = NoFilter
  <2>1. 1..0 = {} /\ {} \in SUBSET DOMAIN query /\ 0 \in 0..Len(query)
    BY <1>1
  <2> QED BY <1>6, <2>1
<1>9. ASSUME NEW k \in 1..Len(query) PROVE P[k] = ParseSegment(P[k - 1], query[k])
  <2>1. 1..k \in SUBSET D /\ 1..k # {} /\ (1..k) \ {k} = 1..(k - 1)
    <3>1. Len(query) \in Int /\ k \in Int /\ 1 <= k /\ k <= Len(query)
      BY <1>1
    <3>2. \A j \in 1..k : j \in D
      BY <3>1
    <3>3. k \in 1..k
      BY <3>1
    <3>4. \A j : j \in (1..k) \ {k} <=> j \in 1..(k - 1)
      BY <3>1
    <3> QED BY <3>2, <3>3, <3>4
  <2>2. Max(1..k) = k
    <3>1. Max(1..k) \in 1..k /\ \A j \in 1..k : j <= Max(1..k)
      BY <1>2, <2>1
    <3> HIDE DEF D
    <3> QED BY <3>1
  <2>3. G[1..k] = ParseSegment(G[(1..k) \ {k}], query[k])
    BY <1>1, <1>6, <2>1, <2>2
  <2>4. k \in 0..Len(query) /\ k - 1 \in 0..Len(query)
    BY <1>1
  <2> QED BY <2>1, <2>3, <2>4
<1>10. ASSUME NEW k \in 0..Len(query) PROVE P[k] \in Filters
  <2> DEFINE Bad == {n \in 0..Len(query) : P[n] \notin Filters}
  <2> SUFFICES ASSUME Bad # {} PROVE FALSE
    OBVIOUS
  <2>1. PICK n \in Bad : \A m \in Bad : n <= m
    <3>1. Bad \subseteq Nat
      BY <1>1
    <3> QED BY <3>1, Least
  <2>2. n # 0
    <3>1. P[0] \in Filters
      BY <1>8 DEF NoFilter, Filters
    <3> QED BY <3>1
  <2>3. n \in 1..Len(query) /\ n - 1 \in 0..Len(query) /\ n - 1 < n
    BY <1>1, <2>2
  <2>4. n - 1 \notin Bad
    BY <2>1, <2>3
  <2>5. P[n - 1] \in Filters /\ P[n] = ParseSegment(P[n - 1], query[n])
    BY <1>9, <2>3, <2>4
  <2> QED BY <1>1, <2>3, <2>5, SegmentParsed
<1>11. ParsedBy(P, query)
  <2>1. \A k \in 1..Len(query) : k - 1 \in 0..Len(query)
    BY <1>1
  <2> HIDE DEF P
  <2> QED BY <1>8, <1>9, <1>10, <2>1 DEF ParsedBy
<1>12. Parse(query) = P[Len(query)]
  BY <1>1, <1>7
<1>13. Parse(query) \in Filters
  <2>1. Len(query) \in 0..Len(query)
    BY <1>1
  <2> HIDE DEF P
  <2> QED BY <1>10, <1>12, <2>1
<1> QED BY <1>11, <1>12, <1>13

(* C is what a column holds after each segment.                            *)
ColumnBy(C, query, key) ==
  /\ C[0] = None
  /\ \A k \in 1..Len(query) : C[k] = Column(query[k], key, C[k - 1])

(* It is the last value that was given for its key.                        *)
IsLast(value, query, key) ==
  \/ /\ value = None
     /\ \A m \in 1..Len(query) : ~Sets(query[m], key)
  \/ \E m \in 1..Len(query) :
       /\ Sets(query[m], key) /\ value = query[m].value
       /\ \A j \in (m + 1)..Len(query) : ~Sets(query[j], key)

LEMMA LastValueWins ==
  ASSUME NEW query \in Seq(Segment), NEW key, NEW C, ColumnBy(C, query, key)
  PROVE  IsLast(C[Len(query)], query, key)
<1> USE DEF ColumnBy
<1> DEFINE Unset(k) == C[k] = None /\ \A m \in 1..k : ~Sets(query[m], key)
           SetAt(k, m) == /\ Sets(query[m], key) /\ C[k] = query[m].value
                          /\ \A j \in (m + 1)..k : ~Sets(query[j], key)
           Holds(k) == Unset(k) \/ \E m \in 1..k : SetAt(k, m)
           Bad == {k \in 0..Len(query) : ~Holds(k)}
<1>1. Len(query) \in Nat /\ Bad \subseteq Nat
  OBVIOUS
<1>2. CASE Bad = {}
  <2>1. Holds(Len(query))
    BY <1>1, <1>2
  <2> QED BY <2>1 DEF IsLast
<1>3. CASE Bad # {}
  <2>1. PICK k \in Bad : \A n \in Bad : k <= n
    <3> HIDE DEF Bad
    <3> QED BY <1>1, <1>3, Least
  <2>2. Holds(0)
    OBVIOUS
  <2>3. k \in 1..Len(query) /\ k - 1 \in 0..Len(query) /\ k - 1 < k
    BY <1>1, <2>1, <2>2
  <2>4. Holds(k - 1) /\ C[k] = Column(query[k], key, C[k - 1])
    <3>1. k - 1 \notin Bad
      BY <2>1, <2>3
    <3> QED BY <2>3, <3>1
  <2>5. CASE Sets(query[k], key)
    <3>1. SetAt(k, k) /\ k \in 1..k
      BY <2>3, <2>4, <2>5 DEF Column
    <3> QED BY <2>1, <3>1
  <2>6. CASE ~Sets(query[k], key)
    <3>1. C[k] = C[k - 1]
      BY <2>4, <2>6 DEF Column
    <3>2. CASE Unset(k - 1)
      <4>1. Unset(k)
        BY <1>1, <2>3, <2>6, <3>1, <3>2
      <4> QED BY <2>1, <4>1
    <3>3. ASSUME NEW m \in 1..(k - 1), SetAt(k - 1, m) PROVE FALSE
      <4>1. SetAt(k, m) /\ m \in 1..k
        BY <1>1, <2>3, <2>6, <3>1, <3>3
      <4> QED BY <2>1, <4>1
    <3> QED BY <2>4, <3>2, <3>3
  <2> QED BY <2>5, <2>6
<1> QED BY <1>2, <1>3

LEMMA AppendDistinct ==
  ASSUME NEW X, NEW t \in Seq(X), NEW v \in X
  PROVE  /\ ToSet(Append(t, v)) = ToSet(t) \cup {v}
         /\ IsInjective(Append(t, v)) <=> IsInjective(t) /\ v \notin ToSet(t)
<1> DEFINE u == Append(t, v)
           n == Len(t)
<1>1. /\ n \in Nat /\ DOMAIN t = 1..n /\ DOMAIN u = 1..(n + 1)
      /\ u[n + 1] = v /\ \A i \in 1..n : u[i] = t[i]
  OBVIOUS
<1>2. \A i : i \in 1..(n + 1) <=> i \in 1..n \/ i = n + 1
  BY <1>1
<1>3. n + 1 \notin 1..n
  BY <1>1
<1> HIDE DEF u, n
<1>4. ToSet(u) = ToSet(t) \cup {v}
  BY <1>1, <1>2 DEF ToSet
<1>5. IsInjective(u) => IsInjective(t) /\ v \notin ToSet(t)
  BY <1>1, <1>2, <1>3 DEF ToSet, IsInjective
<1>6. IsInjective(t) /\ v \notin ToSet(t) => IsInjective(u)
  BY <1>1, <1>2, <1>3 DEF ToSet, IsInjective
<1> QED BY <1>4, <1>5, <1>6 DEF u

(* The HAVING clause counts the amenities of a room that are among those   *)
(* asked for: the count is that of the ids in the request when they are    *)
(* all there, and none of them twice.                                      *)
LEMMA AllCounted ==
  ASSUME NEW X, NEW s \in Seq(X), NEW R
  PROVE  Cardinality(ToSet(s) \cap R) = Len(s)
         <=> IsInjective(s) /\ ToSet(s) \subseteq R
<1> DEFINE D == 1..Len(s)
           T == ToSet(s)
<1>1. Len(s) \in Nat /\ DOMAIN s = D /\ s = [i \in D |-> s[i]]
  OBVIOUS
<1>2. IsFiniteSet(D) /\ Cardinality(D) = Len(s)
  <2>1. \A n \in Nat : IsFiniteSet(1..n) /\ Cardinality(1..n) = n
    BY FS_Interval
  <2> QED BY <1>1, <2>1
<1>3. s \in Surjection(D, T)
  BY <1>1 DEF Surjection, ToSet
<1>4. /\ IsFiniteSet(T) /\ Cardinality(T) <= Len(s)
      /\ Cardinality(T) = Len(s) <=> s \in Injection(D, T)
  <2> HIDE DEF D, T
  <2> QED BY <1>2, <1>3, FS_Surjection
<1>5. s \in Injection(D, T) <=> IsInjective(s)
  BY <1>1, <1>3 DEF Injection, Surjection
<1>6. /\ Cardinality(T \cap R) <= Cardinality(T)
      /\ Cardinality(T) = Cardinality(T \cap R) => T = T \cap R
      /\ IsFiniteSet(T \cap R)
  <2>1. T \cap R \in SUBSET T
    OBVIOUS
  <2> HIDE DEF T
  <2> QED BY <1>4, <2>1, FS_Subset
<1>7. Cardinality(T) \in Nat /\ Cardinality(T \cap R) \in Nat
  BY <1>4, <1>6, FS_CardinalityType
<1>8. T \subseteq R <=> T \cap R = T
  OBVIOUS
<1> HIDE DEF D, T
<1>9. Cardinality(T \cap R) = Len(s) => Cardinality(T) = Len(s) /\ T \cap R = T
  BY <1>1, <1>4, <1>6, <1>7
<1>10. Cardinality(T \cap R) = Len(s) <=> IsInjective(s) /\ T \subseteq R
  BY <1>4, <1>5, <1>8, <1>9
<1> QED BY <1>10 DEF T

(* The amenities parsed are those asked for, each as often as it is named. *)
AmenitiesBy(A, query) ==
  /\ A[0] = <<>>
  /\ \A k \in 1..Len(query) :
       A[k - 1] \in Seq(Amenities) /\ A[k] = Amenity(query[k], A[k - 1])

LEMMA AmenitiesInTurn ==
  ASSUME NEW query \in Seq(Segment), NEW A, AmenitiesBy(A, query)
  PROVE  /\ ToSet(A[Len(query)]) = Asked(query)
         /\ IsInjective(A[Len(query)]) <=> ~NamedTwice(query)
<1> USE DEF AmenitiesBy
<1> DEFINE Names(j) == Sets(query[j], "amenity")
           AskedBy(k) == {query[j].value : j \in {j \in 1..k : Names(j)}}
           TwiceBy(k) == \E i, j \in 1..k : i # j /\ Names(i) /\ query[j] = query[i]
           Holds(k) == ToSet(A[k]) = AskedBy(k) /\ (IsInjective(A[k]) <=> ~TwiceBy(k))
           Bad == {k \in 0..Len(query) : ~Holds(k)}
<1>1. /\ Len(query) \in Nat /\ DOMAIN query = 1..Len(query) /\ Bad \subseteq Nat
      /\ \A k \in 1..Len(query) : query[k] \in Segment
  OBVIOUS
<1>2. AskedBy(Len(query)) = Asked(query)
  BY <1>1 DEF Asked, Sets
<1>3. TwiceBy(Len(query)) <=> NamedTwice(query)
  BY <1>1 DEF NamedTwice, Sets
<1>4. SUFFICES ASSUME Bad # {} PROVE FALSE
  <2>1. Bad = {} => Holds(Len(query))
    <3> HIDE DEF Holds
    <3> QED BY <1>1
  <2> QED BY <1>2, <1>3, <1>4, <2>1
<1>5. PICK k \in Bad : \A n \in Bad : k <= n
  <2> HIDE DEF Bad
  <2> QED BY <1>1, <1>4, Least
<1>6. Holds(0)
  BY DEF ToSet, IsInjective
<1>7. /\ k \in Int /\ k \in 1..Len(query) /\ k - 1 \in 0..Len(query) /\ k - 1 < k
      /\ \A j : j \in 1..k <=> j \in 1..(k - 1) \/ j = k
      /\ k \notin 1..(k - 1)
  BY <1>1, <1>5, <1>6
<1>8. Holds(k - 1) /\ A[k - 1] \in Seq(Amenities) /\ A[k] = Amenity(query[k], A[k - 1])
  <2> HIDE DEF Holds
  <2>1. k - 1 \notin Bad
    <3>1. \A n \in Bad : n \in Nat
      BY <1>1
    <3> QED BY <1>5, <1>7, <3>1
  <2> QED BY <1>7, <2>1
<1>9. CASE ~Names(k)
  <2>1. A[k] = A[k - 1]
    BY <1>8, <1>9 DEF Amenity
  <2>2. AskedBy(k) = AskedBy(k - 1)
    BY <1>7, <1>9
  <2>3. TwiceBy(k) <=> TwiceBy(k - 1)
    BY <1>7, <1>9 DEF Sets
  <2> QED BY <1>5, <1>8, <2>1, <2>2, <2>3
<1>10. CASE Names(k)
  <2> DEFINE v == query[k].value
  <2>1. v \in Amenities /\ A[k] = Append(A[k - 1], v)
    BY <1>1, <1>7, <1>8, <1>10 DEF Amenity, Sets, Segment
  <2>2. AskedBy(k) = AskedBy(k - 1) \cup {v}
    BY <1>7, <1>10
  <2>3. ASSUME NEW j \in 1..Len(query)
        PROVE  Names(j) /\ query[j].value = v <=> query[j] = query[k]
    <3>1. ASSUME NEW x \in Segment, x.key = "amenity"
          PROVE  x = [key |-> "amenity", value |-> x.value]
      BY <3>1 DEF Segment
    <3> QED BY <1>1, <1>7, <1>10, <3>1 DEF Sets
  <2>4. \A j \in 1..(k - 1) : j \in 1..Len(query)
    BY <1>1, <1>7
  <2>5. v \in AskedBy(k - 1) <=> \E j \in 1..(k - 1) : query[j] = query[k]
    <3> HIDE DEF Names
    <3> QED BY <2>3, <2>4
  <2>6. TwiceBy(k) <=> TwiceBy(k - 1) \/ \E j \in 1..(k - 1) : query[j] = query[k]
    <3>1. \A i, j : query[i] = query[j] => (Names(i) <=> Names(j))
      BY DEF Sets
    <3> HIDE DEF Names
    <3> QED BY <1>7, <1>10, <3>1
  <2> HIDE DEF AskedBy, TwiceBy
  <2>7. /\ ToSet(A[k]) = ToSet(A[k - 1]) \cup {v}
        /\ IsInjective(A[k]) <=> IsInjective(A[k - 1]) /\ v \notin ToSet(A[k - 1])
    <3> HIDE DEF v, Holds
    <3> QED BY <1>8, <2>1, AppendDistinct
  <2>8. Holds(k)
    BY <1>8, <2>2, <2>5, <2>6, <2>7
  <2> QED BY <1>5, <2>8
<1> QED BY <1>9, <1>10

(* It comes from the one segment of its key that counts.                   *)
IsCounted(value, query, key) ==
  \/ /\ value = None
     /\ \A k \in DOMAIN query : query[k].key = key => ~Counts(query, k)
  \/ \E m \in DOMAIN query :
       /\ query[m].key = key /\ value = query[m].value
       /\ query[m].value # Unparsable
       /\ \A k \in DOMAIN query : query[k].key = key => (Counts(query, k) <=> k = m)

LEMMA ColumnCounts ==
  ASSUME NEW query \in Seq(Segment), NEW key, key # "amenity",
         NEW value, IsLast(value, query, key)
  PROVE  IsCounted(value, query, key)
<1>1. Len(query) \in Nat /\ DOMAIN query = 1..Len(query)
  OBVIOUS
<1>2. CASE value = None /\ \A m \in 1..Len(query) : ~Sets(query[m], key)
  BY <1>1, <1>2 DEF Counts, Sets, IsCounted
<1>3. ASSUME NEW m \in 1..Len(query), Sets(query[m], key), value = query[m].value,
             \A j \in (m + 1)..Len(query) : ~Sets(query[j], key)
      PROVE  IsCounted(value, query, key)
  <2>1. ASSUME NEW k \in 1..Len(query), query[k].key = key
        PROVE  Counts(query, k) <=> k = m
    <3>1. k < m \/ k = m \/ k > m
      BY <1>1
    <3>2. CASE k < m
      <4>1. m \in (k + 1)..Len(query)
        BY <1>1, <3>2
      <4> QED BY <1>3, <2>1, <3>2, <4>1 DEF Counts, Sets
    <3>3. CASE k = m
      BY <1>3, <2>1, <3>3 DEF Counts, Sets
    <3>4. CASE k > m
      <4>1. k \in (m + 1)..Len(query) /\ k # m
        BY <1>1, <3>4
      <4> QED BY <1>3, <2>1, <4>1 DEF Counts, Sets
    <3> QED BY <3>1, <3>2, <3>3, <3>4
  <2>2. query[m].key = key /\ query[m].value # Unparsable
    BY <1>3 DEF Sets
  <2> QED BY <1>1, <1>3, <2>1, <2>2 DEF IsCounted
<1> QED BY <1>2, <1>3 DEF IsLast

(* The column of a filter holds for a room when every segment of its key   *)
(* that counts does.                                                       *)
Wants(query, r, key) ==
  \A k \in DOMAIN query :
    query[k].key = key /\ Counts(query, k) => Satisfies(r, query[k])

LEMMA AmenityWanted ==
  ASSUME NEW query \in Seq(Segment), NEW r \in Rooms
  PROVE  Wants(query, r, "amenity") <=> Asked(query) \subseteq roomAmenities[r]
  BY DEF Wants, Counts, Satisfies, Asked

LEMMA ColumnWanted ==
  ASSUME NEW query \in Seq(Segment), NEW r \in Rooms,
         NEW key, key \in {"min_price", "max_price", "category_id", "capacity"},
         NEW value, IsCounted(value, query, key)
  PROVE  LET price == BasePrice[rooms[r].category_id] IN
         Wants(query, r, key) <=>
           (value # None =>
              /\ key = "min_price" => price >= value
              /\ key = "max_price" => price <= value
              /\ key = "category_id" => rooms[r].category_id = value
              /\ key = "capacity" => rooms[r].capacity >= value)
<1>1. CASE /\ value = None
           /\ \A k \in DOMAIN query : query[k].key = key => ~Counts(query, k)
  BY <1>1 DEF Wants
<1>2. ASSUME NEW m \in DOMAIN query, query[m].key = key, value = query[m].value,
             query[m].value # Unparsable,
             \A k \in DOMAIN query :
               query[k].key = key => (Counts(query, k) <=> k = m)
      PROVE  value # None /\ (Wants(query, r, key) <=> Satisfies(r, query[m]))
  <2>1. query[m] \in Segment
    OBVIOUS
  <2>2. value \in Int \cup Categories
    BY <1>2, <2>1 DEF Segment
  <2>3. value # None
    BY <2>2, NoneAssumption
  <2>4. Wants(query, r, key) <=> Satisfies(r, query[m])
    BY <1>2 DEF Wants
  <2> QED BY <2>3, <2>4
<1>3. ASSUME NEW m \in DOMAIN query, query[m].key = key, value = query[m].value,
             value # None, Wants(query, r, key) <=> Satisfies(r, query[m])
      PROVE  LET price == BasePrice[rooms[r].category_id] IN
             Wants(query, r, key) <=>
                /\ key = "min_price" => price >= value
                /\ key = "max_price" => price <= value
                /\ key = "category_id" => rooms[r].category_id = value
                /\ key = "capacity" => rooms[r].capacity >= value
  <2>1. CASE key = "min_price"
    BY <1>3, <2>1 DEF Satisfies
  <2>2. CASE key = "max_price"
    BY <1>3, <2>2 DEF Satisfies
  <2>3. CASE key = "category_id"
    BY <1>3, <2>3 DEF Satisfies
  <2>4. CASE key = "capacity"
    BY <1>3, <2>4 DEF Satisfies
  <2> QED BY <2>1, <2>2, <2>3, <2>4
<1> QED BY <1>1, <1>2, <1>3 DEF IsCounted

(* The rooms selected are those that satisfy every segment that counts, or *)
(* none at all if an amenity is named twice.                               *)
LEMMA SearchSelects ==
  ASSUME NEW query \in Seq(Segment), NEW r \in Rooms
  PROVE  Matches(Parse(query), r) <=> ~NamedTwice(query) /\ r \in Wanted(query)
<1>1. PICK P : ParsedBy(P, query) /\ Parse(query) = P[Len(query)]
  BY ParseInTurn
<1> DEFINE f == Parse(query)
<1>2. Len(query) \in Nat /\ \A k \in 1..Len(query) : query[k] \in Segment
  OBVIOUS
<1>3. \A k \in 1..Len(query) : k \in 0..Len(query) /\ k - 1 \in 0..Len(query)
  BY <1>2
<1>4. /\ P[0] = NoFilter
      /\ \A k \in 1..Len(query) :
           /\ P[k - 1] \in Filters
           /\ P[k].amenity = Amenity(query[k], P[k - 1].amenity)
           /\ P[k].min_price = Column(query[k], "min_price", P[k - 1].min_price)
           /\ P[k].max_price = Column(query[k], "max_price", P[k - 1].max_price)
           /\ P[k].category_id = Column(query[k], "category_id", P[k - 1].category_id)
           /\ P[k].capacity = Column(query[k], "capacity", P[k - 1].capacity)
  BY <1>1, <1>2, SegmentParsed DEF ParsedBy
<1>5. IsCounted(f.min_price, query, "min_price")
  <2> DEFINE C == [k \in 0..Len(query) |-> P[k].min_price]
  <2>1. ColumnBy(C, query, "min_price") /\ C[Len(query)] = f.min_price
    BY <1>1, <1>2, <1>3, <1>4 DEF ColumnBy, NoFilter
  <2> HIDE DEF C
  <2> QED BY <2>1, LastValueWins, ColumnCounts
<1>6. IsCounted(f.max_price, query, "max_price")
  <2> DEFINE C == [k \in 0..Len(query) |-> P[k].max_price]
  <2>1. ColumnBy(C, query, "max_price") /\ C[Len(query)] = f.max_price
    BY <1>1, <1>2, <1>3, <1>4 DEF ColumnBy, NoFilter
  <2> HIDE DEF C
  <2> QED BY <2>1, LastValueWins, ColumnCounts
<1>7. IsCounted(f.category_id, query, "category_id")
  <2> DEFINE C == [k \in 0..Len(query) |-> P[k].category_id]
  <2>1. ColumnBy(C, query, "category_id") /\ C[Len(query)] = f.category_id
    BY <1>1, <1>2, <1>3, <1>4 DEF ColumnBy, NoFilter
  <2> HIDE DEF C
  <2> QED BY <2>1, LastValueWins, ColumnCounts
<1>8. IsCounted(f.capacity, query, "capacity")
  <2> DEFINE C == [k \in 0..Len(query) |-> P[k].capacity]
  <2>1. ColumnBy(C, query, "capacity") /\ C[Len(query)] = f.capacity
    BY <1>1, <1>2, <1>3, <1>4 DEF ColumnBy, NoFilter
  <2> HIDE DEF C
  <2> QED BY <2>1, LastValueWins, ColumnCounts
<1>9. /\ ToSet(f.amenity) = Asked(query)
      /\ IsInjective(f.amenity) <=> ~NamedTwice(query)
      /\ f.amenity \in Seq(Amenities)
  <2> DEFINE A == [k \in 0..Len(query) |-> P[k].amenity]
  <2>1. AmenitiesBy(A, query) /\ A[Len(query)] = f.amenity
    BY <1>1, <1>2, <1>3, <1>4 DEF AmenitiesBy, NoFilter, Filters
  <2>2. f.amenity \in Seq(Amenities)
    BY ParseInTurn DEF Filters
  <2> HIDE DEF A
  <2> QED BY <2>1, <2>2, AmenitiesInTurn
<1>10. (f.amenity # <<>> =>
          Cardinality(ToSet(f.amenity) \cap roomAmenities[r]) = Len(f.amenity))
       <=> ~NamedTwice(query) /\ Wants(query, r, "amenity")
  <2>1. CASE f.amenity = <<>>
    BY <1>9, <2>1, AmenityWanted DEF ToSet, IsInjective
  <2>2. CASE f.amenity # <<>>
    BY <1>9, <2>2, AmenityWanted, AllCounted
  <2> QED BY <2>1, <2>2
<1>11. r \in Wanted(query)
       <=> /\ rooms[r] # NoRow
           /\ Wants(query, r, "amenity")
           /\ Wants(query, r, "min_price") /\ Wants(query, r, "max_price")
           /\ Wants(query, r, "category_id") /\ Wants(query, r, "capacity")
  <2>1. \A k \in DOMAIN query :
          query[k].key \in {"amenity", "min_price", "max_price", "category_id", "capacity"}
    BY <1>2 DEF Segment
  <2> QED BY <2>1 DEF Wanted, Wants
<1> HIDE DEF f
<1>12. FitsColumns(f, r)
       <=> /\ rooms[r] # NoRow
           /\ Wants(query, r, "min_price") /\ Wants(query, r, "max_price")
           /\ Wants(query, r, "category_id") /\ Wants(query, r, "capacity")
  BY <1>5, <1>6, <1>7, <1>8, ColumnWanted DEF FitsColumns
<1> QED BY <1>10, <1>11, <1>12 DEF Matches, f

-----------------------------------------------------------------------------
(* The lists that searches hold.                                           *)

(* A room of an earlier list keeps what it had, whatever is written: no    *)
(* transaction makes a new room of its id.                                 *)
LEMMA HeldListKept ==
  ASSUME TypeOK, WritesFit, NEW w \in Workers, HeldList(w),
         found'[w] = found[w], req'[w] = req[w],
         DOMAIN found[w] \subseteq Rooms,
         unused' \subseteq unused,
         \A r \in DOMAIN found[w] :
           /\ rooms'[r] # NoRow => rooms[r] # NoRow /\ roomAmenities'[r] = roomAmenities[r]
           /\ \A v \in Workers : r \in DOMAIN roomWrite'[v] => req'[v].op # "create"
  PROVE  HeldList(w)'
  BY DEF HeldList

SearchFits(w) ==
  /\ pc[w] \in {"selectRooms", "selectAmenities"} => req[w].op = "search"
  /\ pc[w] # "selectAmenities" => DOMAIN found[w] = {}
  /\ HeldList(w)

(* A worker whose own session does not change.                             *)
LEMMA OtherSearchFits ==
  ASSUME Inv, NEW w \in Workers,
         pc'[w] = pc[w], req'[w] = req[w], found'[w] = found[w],
         unused' \subseteq unused,
         \A r \in Rooms \ unused :
           (\A v \in Workers : r \in DOMAIN roomWrite[v] => req[v].op # "create") =>
             /\ rooms'[r] # NoRow => rooms[r] # NoRow /\ roomAmenities'[r] = roomAmenities[r]
             /\ \A v \in Workers : r \in DOMAIN roomWrite'[v] => req'[v].op # "create"
  PROVE  SearchFits(w)'
<1>1. TypeOK /\ WritesFit /\ SearchFits(w) /\ DOMAIN found[w] \subseteq Rooms
  BY DEF Inv, SearchesFit, SearchFits, TypeOK
<1>2. HeldList(w)'
  <2>1. \A r \in DOMAIN found[w] :
          r \in Rooms \ unused
          /\ \A v \in Workers : r \in DOMAIN roomWrite[v] => req[v].op # "create"
    BY <1>1 DEF SearchFits, HeldList
  <2> QED BY <1>1, <2>1, HeldListKept DEF SearchFits
<1> QED BY <1>1, <1>2 DEF SearchFits

(* The end of a request, with what it committed or nothing.                *)
LEMMA AnswerSearches ==
  ASSUME Inv, NEW w \in Workers, NEW code, NEW list, Answer(w, code, list),
         InstallRoom(w) \/ UNCHANGED roomTables
  PROVE  SearchesFit'
<1>1. /\ pc' = [pc EXCEPT ![w] = "idle"] /\ req' = [req EXCEPT ![w] = NoRequest]
      /\ found' = [found EXCEPT ![w] = Nothing]
      /\ roomWrite' = [roomWrite EXCEPT ![w] = Nothing]
  BY DEF Answer, GoTo
<1>2. TypeOK /\ WritesFit
  BY DEF Inv
<1>3. SearchFits(w)'
  <2>1. pc'[w] = "idle" /\ DOMAIN found'[w] = {}
    BY <1>1, <1>2, NothingIsEmpty DEF TypeOK
  <2> QED BY <2>1 DEF SearchFits, HeldList
<1>4. ASSUME NEW r \in Rooms,
             \A v \in Workers : r \in DOMAIN roomWrite[v] => req[v].op # "create"
      PROVE  /\ rooms'[r] # NoRow => rooms[r] # NoRow /\ roomAmenities'[r] = roomAmenities[r]
             /\ \A v \in Workers : r \in DOMAIN roomWrite'[v] => req'[v].op # "create"
  <2>1. \A v \in Workers : r \in DOMAIN roomWrite'[v] => req'[v].op # "create"
    BY <1>1, <1>2, <1>4, NothingIsEmpty DEF TypeOK
  <2>2. CASE UNCHANGED roomTables
    BY <2>1, <2>2 DEF roomTables
  <2>3. CASE InstallRoom(w) /\ r \in DOMAIN roomWrite[w]
    <3>1. rooms[r] # NoRow
      BY <1>2, <1>4, <2>3 DEF WritesFit, HeldRoom
    <3>2. rooms'[r] # NoRow => roomAmenities'[r] = roomAmenities[r]
      BY <2>3 DEF InstallRoom
    <3> QED BY <2>1, <3>1, <3>2
  <2>4. CASE InstallRoom(w) /\ r \notin DOMAIN roomWrite[w]
    BY <2>1, <2>4 DEF InstallRoom
  <2> QED BY <2>2, <2>3, <2>4
<1>5. unused' = unused
  BY DEF InstallRoom, roomTables
<1>6. ASSUME NEW v \in Workers \ {w} PROVE SearchFits(v)'
  BY <1>1, <1>2, <1>4, <1>5, OtherSearchFits DEF TypeOK
<1> QED BY <1>3, <1>6 DEF SearchesFit, SearchFits

LEMMA ReceiveSearches ==
  ASSUME Inv, NEW w \in Workers, Receive(w) PROVE SearchesFit'
<1>1. PICK r \in Requests :
        /\ req' = [req EXCEPT ![w] = r]
        /\ pc' = [pc EXCEPT ![w] = IF r.op = "search" THEN "selectRooms" ELSE "write"]
  BY DEF Receive, GoTo
<1>2. /\ TypeOK /\ WritesFit /\ SearchFits(w) /\ pc[w] = "idle"
      /\ UNCHANGED <<rooms, roomAmenities, unused, found, roomWrite>>
  BY DEF Receive, roomTables, Inv, SearchesFit, SearchFits
<1>3. DOMAIN roomWrite[w] = {}
  BY <1>2 DEF WritesFit, HeldRoom
<1>4. SearchFits(w)'
  <2>1. /\ pc'[w] \in {"selectRooms", "write"} /\ DOMAIN found'[w] = {}
        /\ pc'[w] = "selectRooms" => req'[w].op = "search"
    BY <1>1, <1>2 DEF TypeOK, SearchFits
  <2> QED BY <2>1 DEF SearchFits, HeldList
<1>5. \A v \in Workers, x \in Rooms : x \in DOMAIN roomWrite'[v] =>
        x \in DOMAIN roomWrite[v] /\ req'[v].op = req[v].op
  BY <1>1, <1>2, <1>3 DEF TypeOK
<1>6. \A x \in Rooms : rooms'[x] # NoRow => rooms[x] # NoRow /\ roomAmenities'[x] = roomAmenities[x]
  BY <1>2
<1>7. ASSUME NEW v \in Workers \ {w} PROVE SearchFits(v)'
  BY <1>1, <1>2, <1>5, <1>6, OtherSearchFits DEF TypeOK
<1> QED BY <1>4, <1>7 DEF SearchesFit, SearchFits

(* A room that is selected has what was asked for, and is nobody's yet to  *)
(* make.                                                                   *)
LEMMA SelectRoomsSearches ==
  ASSUME Inv, NEW w \in Workers, SelectRooms(w) PROVE SearchesFit'
<1> DEFINE S == Selected(w)
           list == [r \in S |-> [row |-> rooms[r], amenities |-> {}]]
           query == req[w].query
<1>1. TypeOK /\ WritesFit /\ pc[w] = "selectRooms" /\ SearchFits(w)
  BY DEF SelectRooms, Inv, SearchesFit, SearchFits
<1>2. req[w].op = "search" /\ query \in Seq(Segment)
  <2>1. req[w].op = "search" /\ req[w] \in Requests
    BY <1>1 DEF SearchFits, TypeOK, NoRequest
  <2> QED BY <2>1, RequestsAssumption
       DEF SearchRequest, CreateRequest, UpdateRequest, DeleteRequest
<1>3. CASE S = {}
  BY <1>3, AnswerSearches DEF SelectRooms
<1>4. CASE S # {}
  <2>1. /\ found' = [found EXCEPT ![w] = list]
        /\ pc' = [pc EXCEPT ![w] = "selectAmenities"]
        /\ UNCHANGED <<req, roomWrite, reply, rooms, roomAmenities, unused>>
    BY <1>4 DEF SelectRooms, GoTo, roomTables
  <2>2. ASSUME NEW r \in S
        PROVE  /\ r \notin unused
               /\ \A v \in Workers : r \in DOMAIN roomWrite[v] => req[v].op # "create"
               /\ Asked(query) \subseteq roomAmenities[r]
    <3>1. r \in Rooms /\ Matches(Parse(query), r)
      BY DEF Selected
    <3>2. rooms[r] # NoRow /\ r \in Wanted(query)
      BY <1>2, <3>1, SearchSelects DEF Matches, FitsColumns
    <3>3. Asked(query) \subseteq roomAmenities[r]
      BY <1>2, <3>1, <3>2, AmenityWanted DEF Wanted, Wants
    <3> QED BY <1>1, <3>2, <3>3 DEF TypeOK, WritesFit, HeldRoom
  <2> HIDE DEF S
  <2>3. SearchFits(w)'
    <3>1. pc'[w] = "selectAmenities" /\ found'[w] = list
      BY <1>1, <2>1 DEF TypeOK
    <3>2. DOMAIN list = S /\ \A r \in S : list[r].amenities = {}
      OBVIOUS
    <3> HIDE DEF list
    <3> QED BY <1>2, <2>1, <2>2, <3>1, <3>2 DEF SearchFits, HeldList
  <2>4. ASSUME NEW v \in Workers \ {w} PROVE SearchFits(v)'
    <3>1. pc'[v] = pc[v] /\ found'[v] = found[v] /\ SearchFits(v)
      BY <1>1, <2>1 DEF TypeOK, Inv, SearchesFit, SearchFits
    <3> QED BY <2>1, <3>1 DEF SearchFits, HeldList
  <2> QED BY <2>3, <2>4 DEF SearchesFit, SearchFits
<1> QED BY <1>3, <1>4

(* A worker that takes a row leaves the lists alone.                       *)
LEMMA WriteSearches ==
  ASSUME Inv, NEW w \in Workers, CreateRoom(w) \/ UpdateRoom(w) \/ DeleteRoom(w)
  PROVE  SearchesFit'
<1>1. PICK write :
        /\ pc[w] = "write" /\ pc' = [pc EXCEPT ![w] = "commit"]
        /\ roomWrite' = [roomWrite EXCEPT ![w] = write]
        /\ UNCHANGED <<rooms, roomAmenities, req, found>>
        /\ unused' \subseteq unused
        /\ req[w].op = "create" => DOMAIN write \subseteq unused
  <2>1. CASE CreateRoom(w)
    <3>1. PICK r \in unused :
            /\ unused' = unused \ {r}
            /\ roomWrite' = [roomWrite EXCEPT ![w] = [x \in {r} |-> req[w].row]]
      BY <2>1 DEF CreateRoom
    <3> DEFINE write == [x \in {r} |-> req[w].row]
    <3>2. DOMAIN write \subseteq unused
      OBVIOUS
    <3>3. roomWrite' = [roomWrite EXCEPT ![w] = write]
      BY <3>1
    <3> HIDE DEF write
    <3> QED BY <2>1, <3>1, <3>2, <3>3 DEF CreateRoom, GoTo
  <2>2. CASE UpdateRoom(w) \/ DeleteRoom(w)
    BY <2>2 DEF UpdateRoom, DeleteRoom, WriteRoom, GoTo, roomTables
  <2> QED BY <2>1, <2>2
<1>2. TypeOK /\ WritesFit /\ SearchFits(w)
  BY DEF Inv, SearchesFit, SearchFits
<1>3. ASSUME NEW v \in Workers PROVE HeldList(v)'
  <2>1. HeldList(v)
    BY DEF Inv, SearchesFit
  <2>2. \A r \in DOMAIN found[v], x \in Workers :
          r \in DOMAIN roomWrite'[x] => req[x].op # "create"
    BY <1>1, <1>2, <2>1 DEF HeldList, TypeOK
  <2> QED BY <1>1, <2>1, <2>2 DEF HeldList
<1>4. ASSUME NEW v \in Workers PROVE SearchFits(v)'
  <2>1. SearchFits(v) /\ (v # w => pc'[v] = pc[v]) /\ pc'[w] = "commit"
    BY <1>1, <1>2 DEF TypeOK, Inv, SearchesFit, SearchFits
  <2> QED BY <1>1, <1>3, <2>1 DEF SearchFits
<1> QED BY <1>4 DEF SearchesFit, SearchFits

LEMMA InitInv == Init => Inv
<1>1. Init => SearchesFit
  BY NothingIsEmpty DEF Init, SearchesFit, HeldList
<1> QED BY <1>1, InitTables DEF Inv, TablesInv

LEMMA DieInv == Inv /\ Die => Inv'
<1>1. Die => SearchesFit'
  BY NothingIsEmpty DEF Die, SearchesFit, HeldList
<1> QED BY <1>1, DieTables DEF Inv, TablesInv

LEMMA NextInv == Inv /\ [Next]_vars => Inv'
<1> SUFFICES ASSUME Inv, [Next]_vars PROVE SearchesFit'
  BY NextTables DEF Inv, TablesInv
<1>1. ASSUME NEW w \in Workers, SelectAmenities(w) \/ SearchFails(w) \/ WriteFails(w)
      PROVE  SearchesFit'
  BY <1>1, AnswerSearches DEF SelectAmenities, SearchFails, WriteFails
<1>2. ASSUME NEW w \in Workers, Commit(w) \/ CommitInDoubt(w) PROVE SearchesFit'
  BY <1>2, AnswerSearches DEF Commit, CommitInDoubt
<1>3. ASSUME NEW w \in Workers, Serve(w) PROVE SearchesFit'
  BY <1>1, <1>2, <1>3, ReceiveSearches, SelectRoomsSearches, WriteSearches DEF Serve
<1>4. CASE Crash
  BY <1>4, DieInv DEF Crash, Inv
<1>5. CASE UNCHANGED vars
  BY <1>5 DEF vars, roomTables, Inv, SearchesFit, HeldList
<1> QED BY <1>3, <1>4, <1>5 DEF Next

-----------------------------------------------------------------------------
(* Theorems.                                                               *)

(* In every reachable state transactions that write rooms have them to     *)
(* themselves, and a list that is being read holds rooms with what was     *)
(* asked for, for any number of administrators and clients                 *)
(* (RoomRepository.cpp:24 to 133).                                         *)
THEOREM Invariance == Spec => []Inv
<1> QED BY InitInv, NextInv, PTL DEF Spec

(* The search selects exactly the rooms that satisfy each filter asked     *)
(* for, for every sequence of segments, and none when an amenity is named  *)
(* twice (RoomController.cpp:30, RoomRepository.cpp:24).                   *)
THEOREM SearchExact == Spec => []SearchIsExact
<1>1. ASSUME Inv PROVE SearchIsExact
  <2> SUFFICES ASSUME NEW w \in Workers, pc[w] = "selectRooms"
               PROVE  Selected(w) = IF NamedTwice(req[w].query) THEN {}
                                    ELSE Wanted(req[w].query)
    BY DEF SearchIsExact
  <2>1. req[w].op = "search" /\ req[w] \in Requests
    BY <1>1 DEF Inv, TypeOK, SearchesFit, NoRequest
  <2>2. req[w].query \in Seq(Segment)
    BY <2>1, RequestsAssumption
       DEF SearchRequest, CreateRequest, UpdateRequest, DeleteRequest
  <2> QED BY <2>2, SearchSelects DEF Selected, Wanted
<1>2. Inv => SearchIsExact
  BY <1>1
<1> QED BY <1>2, Invariance, PTL

(* A list shows a room without an amenity that was asked for only if the   *)
(* room was deleted between the two reads, or if the second read failed    *)
(* (RoomRepository.cpp:53, 74), for any number of administrators.          *)
THEOREM ListsHaveTheAsked == Spec => ListedHaveTheAsked
<1> DEFINE
      Step(w) ==
        LET list == reply'[w].list IN
        pc[w] = "selectAmenities" /\ pc'[w] = "idle"
        => \/ \A r \in DOMAIN list : list[r].amenities = {}
           \/ \A r \in DOMAIN list : \/ Asked(req[w].query) \subseteq list[r].amenities
                                     \/ rooms[r] = NoRow
<1>1. ASSUME Inv, NEW w \in Workers, SelectAmenities(w) PROVE Step(w)
  <2> DEFINE list == [r \in DOMAIN found[w] |->
                        [found[w][r] EXCEPT !.amenities = roomAmenities[r]]]
  <2>1. reply'[w].list = list
    BY <1>1 DEF SelectAmenities, Answer, Inv, TypeOK
  <2>2. ASSUME NEW r \in DOMAIN found[w] PROVE list[r].amenities = roomAmenities[r]
    BY <1>1 DEF Inv, TypeOK, Listed
  <2>3. HeldList(w)
    BY <1>1 DEF Inv, SearchesFit
  <2> HIDE DEF list
  <2>4. DOMAIN list = DOMAIN found[w]
    BY DEF list
  <2> QED BY <2>1, <2>2, <2>3, <2>4 DEF HeldList
<1>2. ASSUME Inv, NEW w \in Workers, SearchFails(w) PROVE Step(w)
  <2>1. reply'[w].list = found[w]
    BY <1>2 DEF SearchFails, Answer, Inv, TypeOK
  <2> QED BY <1>2, <2>1 DEF Inv, SearchesFit, HeldList
<1>3. ASSUME Inv, [Next]_vars, NEW w \in Workers PROVE Step(w)
  <2> SUFFICES ASSUME pc[w] = "selectAmenities", pc'[w] = "idle" PROVE Step(w)
    OBVIOUS
  <2>1. ASSUME NEW v \in Workers, Serve(v) PROVE Step(w)
    <3>1. CASE v = w
      BY <1>1, <1>2, <1>3, <2>1, <3>1 DEF Serve, Receive, SelectRooms, CreateRoom,
         UpdateRoom, DeleteRoom, WriteRoom, Commit, CommitInDoubt, WriteFails
    <3>2. CASE v # w
      BY <1>3, <2>1, <3>2 DEF Serve, Receive, SelectRooms, SelectAmenities, SearchFails,
         CreateRoom, UpdateRoom, DeleteRoom, WriteRoom, Commit, CommitInDoubt, WriteFails,
         Answer, GoTo, Inv, TypeOK
    <3> QED BY <3>1, <3>2
  <2>2. CASE Crash
    <3>1. DOMAIN reply'[w].list = {}
      BY <2>2, NothingIsEmpty DEF Crash, Die
    <3> QED BY <3>1
  <2>3. CASE UNCHANGED vars
    BY <2>3 DEF vars
  <2> QED BY <1>3, <2>1, <2>2, <2>3 DEF Next
<1>4. Inv /\ [Next]_vars => [\A w \in Workers : Step(w)]_vars
  BY <1>3
<1>5. [][\A w \in Workers : Step(w)]_vars <=> ListedHaveTheAsked
  BY DEF ListedHaveTheAsked
<1> QED BY <1>4, <1>5, Invariance, PTL DEF Spec

(* A 200, 204 or 404 about a room is true in the step in which it is given *)
(* (RoomController.cpp:138, 154).                                          *)
THEOREM AnswersTrue == Spec => RoomAnswersTrue
<1> DEFINE
      Step(w) ==
        pc[w] = "commit" /\ pc'[w] = "idle" /\ req[w].op \in {"update", "delete"}
        => /\ reply'[w].code = 200
                => rooms[req[w].room_id] # NoRow /\ rooms'[req[w].room_id] = req[w].row
           /\ reply'[w].code = 204
                => rooms[req[w].room_id] # NoRow /\ rooms'[req[w].room_id] = NoRow
           /\ reply'[w].code = 404 => UNCHANGED rooms
<1>1. ASSUME Inv, NEW w \in Workers, Commit(w) PROVE Step(w)
  <2>1. CASE DOMAIN roomWrite[w] = {}
    <3>1. rooms \in [Rooms -> Room \cup {NoRow}]
      BY <1>1 DEF Inv, TypeOK
    <3>2. rooms' = [r \in Rooms |-> rooms[r]]
      BY <1>1, <2>1 DEF Commit, InstallRoom
    <3>3. rooms' = rooms
      BY <3>1, <3>2
    <3>4. req[w].op \in {"update", "delete"} => reply'[w].code = 404
      <4> SUFFICES ASSUME req[w].op \in {"update", "delete"} PROVE reply'[w].code = 404
        OBVIOUS
      <4>1. SuccessCode(w) = 404
        BY <2>1 DEF SuccessCode
      <4>2. reply' = [reply EXCEPT ![w] = [code |-> 404, list |-> Nothing]]
        BY <1>1, <4>1 DEF Commit, Answer
      <4> QED BY <1>1, <4>2 DEF Inv, TypeOK
    <3> QED BY <3>3, <3>4
  <2>2. CASE DOMAIN roomWrite[w] # {}
    BY <1>1, <2>2 DEF Commit, Answer, SuccessCode, InstallRoom, Inv, WritesFit, TypeOK, HeldRoom
  <2> QED BY <2>1, <2>2
<1>2. ASSUME Inv, [Next]_vars, NEW w \in Workers PROVE Step(w)
  <2>1. ASSUME NEW v \in Workers, Serve(v) PROVE Step(w)
    <3>1. CASE v = w /\ Commit(w)
      BY <1>1, <1>2, <3>1
    <3>2. CASE v = w /\ ~Commit(w)
      BY <1>2, <2>1, <3>2 DEF Serve, Receive, SelectRooms, SelectAmenities, SearchFails,
         CreateRoom, UpdateRoom, DeleteRoom, WriteRoom, CommitInDoubt, WriteFails,
         Answer, GoTo, Inv, TypeOK
    <3>3. CASE v # w
      BY <1>2, <2>1, <3>3 DEF Serve, Receive, SelectRooms, SelectAmenities, SearchFails,
         CreateRoom, UpdateRoom, DeleteRoom, WriteRoom, Commit, CommitInDoubt, WriteFails,
         Answer, GoTo, Inv, TypeOK
    <3> QED BY <3>1, <3>2, <3>3
  <2>2. CASE Crash
    BY <1>2, <2>2 DEF Crash, Die, Inv, TypeOK
  <2>3. CASE UNCHANGED vars
    BY <1>2, <2>3 DEF vars
  <2> QED BY <1>2, <2>1, <2>2, <2>3 DEF Next
<1>3. Inv /\ [Next]_vars => [\A w \in Workers : Step(w)]_vars
  BY <1>2
<1>4. [][\A w \in Workers : Step(w)]_vars <=> RoomAnswersTrue
  BY DEF RoomAnswersTrue
<1> QED BY <1>3, <1>4, Invariance, PTL DEF Spec
=============================================================================
