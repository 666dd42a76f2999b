--------------------------- MODULE RoomRepository ---------------------------
(***************************************************************************)
(* RoomController and RoomRepository: the search of rooms, which reads the *)
(* rooms and their amenities in two statements outside a transaction, and  *)
(* the administrator's creation, change and removal of rooms, which run    *)
(* beside it on other threads.  Table room_amenities is written by nobody  *)
(* but the database, when a room goes.                                     *)
(***************************************************************************)
EXTENDS Integers, SequencesExt

CONSTANTS
  Workers,          \* threads of the Crow server
  Rooms,            \* ids a row of table rooms may have
  Categories,       \* ids of table room_categories, which the server never writes
  Amenities,        \* ids of table amenities, which the server never writes
  BasePrice,        \* room_categories.base_price
  Requests,         \* the requests that clients send
  InitialTables,    \* tables the server may be started on
  NoRow,            \* there is no row with this id
  None,             \* a filter that is not set
  Unparsable        \* an empty value, or one that stoi or stod rejects

(* A row of table rooms; name, number and comments decide nothing.         *)
Room == [category_id : Categories, capacity : Int]

(* One key=value of the query string; a segment without '=' or with an     *)
(* unknown key is ignored like an unparsable one.                          *)
Segment ==
  [key : {"amenity"}, value : Amenities \cup {Unparsable}]
    \cup [key : {"category_id"}, value : Categories \cup {Unparsable}]
    \cup [key : {"min_price", "max_price", "capacity"}, value : Int \cup {Unparsable}]

SearchRequest == [op : {"search"}, query : Seq(Segment)]
CreateRequest == [op : {"create"}, row : Room]
UpdateRequest == [op : {"update"}, room_id : Rooms, row : Room]
DeleteRequest == [op : {"delete"}, room_id : Rooms]

NoRequest == [op |-> "none"]

ASSUME PricesAssumption == BasePrice \in [Categories -> Nat]

ASSUME RequestsAssumption ==
  \A r \in Requests :
    r \in SearchRequest \/ r \in CreateRequest \/ r \in UpdateRequest \/ r \in DeleteRequest

ASSUME TablesAssumption ==
  \A t \in InitialTables :
    /\ t.rooms \in [Rooms -> Room \cup {NoRow}]
    /\ t.roomAmenities \in [Rooms -> SUBSET Amenities]
    /\ \A r \in Rooms : t.rooms[r] = NoRow => t.roomAmenities[r] = {}

ASSUME NoneAssumption == None \notin Int \cup Categories

VARIABLES
  rooms,            \* table rooms
  roomAmenities,    \* table room_amenities
  unused,           \* ids the sequence behind rooms.room_id has not given out
  pc,               \* the statement a worker is about to execute
  req,              \* the request it serves
  found,            \* the vector of getAllRooms: a function on the ids selected
  roomWrite,        \* uncommitted row of rooms: a function on the ids written
  reply             \* the worker's last answer

roomTables == <<rooms, roomAmenities, unused>>
vars == <<roomTables, pc, req, found, roomWrite, reply>>

Nothing == [r \in {} |-> NoRow]

Codes == {200, 201, 204, 404, 409}

Listed == [row : Room, amenities : SUBSET Amenities]

(* The type invariant; an id that was not given out has no row.            *)
TypeOK ==
  /\ rooms \in [Rooms -> Room \cup {NoRow}]
  /\ roomAmenities \in [Rooms -> SUBSET Amenities]
  /\ unused \subseteq {r \in Rooms : rooms[r] = NoRow}
  /\ pc \in [Workers -> {"idle", "selectRooms", "selectAmenities", "write", "commit"}]
  /\ req \in [Workers -> Requests \cup {NoRequest}]
  /\ DOMAIN found = Workers /\ DOMAIN roomWrite = Workers /\ DOMAIN reply = Workers
  /\ \A w \in Workers :
       /\ DOMAIN found[w] \subseteq Rooms
       /\ found[w] \in [DOMAIN found[w] -> Listed]
       /\ DOMAIN roomWrite[w] \subseteq Rooms \ unused
       /\ roomWrite[w] \in [DOMAIN roomWrite[w] -> Room \cup {NoRow}]
       /\ reply[w].code \in Codes \cup {0}
       /\ reply[w].list \in [DOMAIN reply[w].list -> Listed]

Init ==
  /\ \E t \in InitialTables : rooms = t.rooms /\ roomAmenities = t.roomAmenities
  /\ unused = {r \in Rooms : rooms[r] = NoRow}
  /\ pc = [w \in Workers |-> "idle"]
  /\ req = [w \in Workers |-> NoRequest]
  /\ found = [w \in Workers |-> Nothing]
  /\ roomWrite = [w \in Workers |-> Nothing]
  /\ reply = [w \in Workers |-> [code |-> 0, list |-> Nothing]]

-----------------------------------------------------------------------------

GoTo(w, statement) == pc' = [pc EXCEPT ![w] = statement]

(* The method returns; what it held of the database is given up.           *)
Answer(w, code, list) ==
  /\ GoTo(w, "idle")
  /\ req' = [req EXCEPT ![w] = NoRequest]
  /\ found' = [found EXCEPT ![w] = Nothing]
  /\ roomWrite' = [roomWrite EXCEPT ![w] = Nothing]
  /\ reply' = [reply EXCEPT ![w] = [code |-> code, list |-> list]]

Receive(w) ==
  /\ pc[w] = "idle"
  /\ \E r \in Requests :
       /\ req' = [req EXCEPT ![w] = r]
       /\ GoTo(w, IF r.op = "search" THEN "selectRooms" ELSE "write")
  /\ reply' = [reply EXCEPT ![w] = [code |-> 0, list |-> Nothing]]
  /\ UNCHANGED <<roomTables, found, roomWrite>>

-----------------------------------------------------------------------------
(* GET /api/rooms.                                                         *)

NoFilter ==
  [ amenity |-> <<>>, min_price |-> None, max_price |-> None,
    category_id |-> None, capacity |-> None ]

(* One round of the loop over the query string; a form in which the first  *)
(* value of a key wins.                                                    *)
ParseFirst(filter, segment) ==
  IF segment.value = Unparsable THEN filter
  ELSE IF segment.key = "amenity"
       THEN [filter EXCEPT !.amenity = Append(@, segment.value)]
       ELSE [filter EXCEPT ![segment.key] = IF @ = None THEN segment.value ELSE @]

ParseSegment(filter, segment) ==
  IF segment.value = Unparsable THEN filter
  ELSE IF segment.key = "amenity"
       THEN [filter EXCEPT !.amenity = Append(@, segment.value)]
       ELSE [filter EXCEPT ![segment.key] = segment.value]

Parse(query) == FoldLeft(ParseSegment, NoFilter, query)

(* The WHERE clause, for a row of rooms joined with its category.          *)
FitsColumns(filter, r) ==
  /\ rooms[r] # NoRow
  /\ filter.min_price # None => BasePrice[rooms[r].category_id] >= filter.min_price
  /\ filter.max_price # None => BasePrice[rooms[r].category_id] <= filter.max_price
  /\ filter.category_id # None => rooms[r].category_id = filter.category_id
  /\ filter.capacity # None => rooms[r].capacity >= filter.capacity

(* Without the HAVING clause: any amenity of the request will do.          *)
MatchesAny(filter, r) ==
  /\ FitsColumns(filter, r)
  /\ filter.amenity # <<>> => ToSet(filter.amenity) \cap roomAmenities[r] # {}

(* The amenities are counted: those of the room among the ids of the       *)
(* request, against the number of ids in the request.                      *)
Matches(filter, r) ==
  /\ FitsColumns(filter, r)
  /\ filter.amenity # <<>> =>
       Cardinality(ToSet(filter.amenity) \cap roomAmenities[r]) = Len(filter.amenity)

Selected(w) == {r \in Rooms : Matches(Parse(req[w].query), r)}

(* No room: nothing more is read.                                          *)
SelectRooms(w) ==
  /\ pc[w] = "selectRooms"
  /\ IF Selected(w) = {}
     THEN Answer(w, 200, Nothing)
     ELSE /\ found' = [found EXCEPT ![w] =
               [r \in Selected(w) |-> [row |-> rooms[r], amenities |-> {}]]]
          /\ GoTo(w, "selectAmenities")
          /\ UNCHANGED <<req, roomWrite, reply>>
  /\ UNCHANGED roomTables

SelectAmenities(w) ==
  /\ pc[w] = "selectAmenities"
  /\ Answer(w, 200, [r \in DOMAIN found[w] |->
                       [found[w][r] EXCEPT !.amenities = roomAmenities[r]]])
  /\ UNCHANGED roomTables

(* getAllRooms catches every exception and returns the rooms it has so     *)
(* far; the client is answered 200.                                        *)
SearchFails(w) ==
  /\ pc[w] \in {"selectRooms", "selectAmenities"}
  /\ Answer(w, 200, found[w])
  /\ UNCHANGED roomTables

-----------------------------------------------------------------------------
(* POST, PUT and DELETE: one statement and a commit.                       *)

RoomLocked(w, r) ==
  /\ rooms[r] # NoRow
  /\ \E v \in Workers \ {w} : r \in DOMAIN roomWrite[v]

(* The database gives the row a new id.                                    *)
CreateRoom(w) ==
  /\ pc[w] = "write" /\ req[w].op = "create"
  /\ \E r \in unused :
       /\ unused' = unused \ {r}
       /\ roomWrite' = [roomWrite EXCEPT ![w] = [x \in {r} |-> req[w].row]]
  /\ GoTo(w, "commit")
  /\ UNCHANGED <<rooms, roomAmenities, req, found, reply>>

(* UPDATE or DELETE ... WHERE room_id = r, once no other transaction holds *)
(* the row; a form that does not wait.                                     *)
WriteRoomUnlocked(w, row) ==
  /\ pc[w] = "write"
  /\ roomWrite' = [roomWrite EXCEPT ![w] =
       IF rooms[req[w].room_id] = NoRow THEN Nothing
       ELSE [x \in {req[w].room_id} |-> row]]
  /\ GoTo(w, "commit")
  /\ UNCHANGED <<roomTables, req, found, reply>>

WriteRoom(w, row) ==
  /\ pc[w] = "write"
  /\ ~RoomLocked(w, req[w].room_id)
  /\ roomWrite' = [roomWrite EXCEPT ![w] =
       IF rooms[req[w].room_id] = NoRow THEN Nothing
       ELSE [x \in {req[w].room_id} |-> row]]
  /\ GoTo(w, "commit")
  /\ UNCHANGED <<roomTables, req, found, reply>>

UpdateRoom(w) == req[w].op = "update" /\ WriteRoom(w, req[w].row)

DeleteRoom(w) == req[w].op = "delete" /\ WriteRoom(w, NoRow)

(* With a room go its amenities, or they stay behind: the schema decides.  *)
InstallRoom(w) ==
  LET gone == {r \in DOMAIN roomWrite[w] : roomWrite[w][r] = NoRow} IN
  /\ rooms' = [r \in Rooms |-> IF r \in DOMAIN roomWrite[w]
                               THEN roomWrite[w][r] ELSE rooms[r]]
  /\ \/ roomAmenities' = [r \in Rooms |-> IF r \in gone THEN {} ELSE roomAmenities[r]]
     \/ UNCHANGED roomAmenities
  /\ UNCHANGED unused

SuccessCode(w) ==
  LET affected == DOMAIN roomWrite[w] # {} IN
  CASE req[w].op = "create" -> 201
    [] req[w].op = "update" -> IF affected THEN 200 ELSE 404
    [] OTHER -> IF affected THEN 204 ELSE 404

Commit(w) ==
  /\ pc[w] = "commit"
  /\ InstallRoom(w)
  /\ Answer(w, SuccessCode(w), Nothing)

(* The COMMIT is executed, its confirmation lost: an exception like any    *)
(* other.                                                                  *)
CommitInDoubt(w) ==
  /\ pc[w] = "commit"
  /\ InstallRoom(w)
  /\ Answer(w, 409, Nothing)

(* A statement or a connection fails, or a reference to the room forbids   *)
(* its removal: the transaction is gone, the answer 409.                   *)
WriteFails(w) ==
  /\ pc[w] \in {"write", "commit"}
  /\ Answer(w, 409, Nothing)
  /\ UNCHANGED roomTables

(* The server process dies; the database rolls its sessions back.          *)
Die ==
  /\ pc' = [w \in Workers |-> "idle"]
  /\ req' = [w \in Workers |-> NoRequest]
  /\ found' = [w \in Workers |-> Nothing]
  /\ roomWrite' = [w \in Workers |-> Nothing]
  /\ reply' = [w \in Workers |-> [code |-> 0, list |-> Nothing]]
  /\ UNCHANGED roomTables

Crash == (\E w \in Workers : pc[w] # "idle") /\ Die

Serve(w) ==
  \/ Receive(w)
  \/ SelectRooms(w) \/ SelectAmenities(w) \/ SearchFails(w)
  \/ CreateRoom(w) \/ UpdateRoom(w) \/ DeleteRoom(w)
  \/ Commit(w) \/ CommitInDoubt(w) \/ WriteFails(w)

Next == (\E w \in Workers : Serve(w)) \/ Crash

Spec == Init /\ [][Next]_vars

-----------------------------------------------------------------------------
(* Properties.                                                             *)

(* A room that worker w has inserted or locked, and what it wrote there.   *)
HeldRoom(w, r) ==
  /\ pc[w] = "commit"
  /\ req[w].op = "create" => rooms[r] = NoRow
  /\ req[w].op # "create" => r = req[w].room_id /\ rooms[r] # NoRow
  /\ roomWrite[w][r] = IF req[w].op = "delete" THEN NoRow ELSE req[w].row

(* Transactions that write rooms have them to themselves, until the row    *)
(* they found or made is theirs to install.                                *)
WritesFit ==
  \A w \in Workers :
    /\ pc[w] \in {"write", "commit"} => req[w].op \in {"create", "update", "delete"}
    /\ \A r \in DOMAIN roomWrite[w] : HeldRoom(w, r)
    /\ \A v \in Workers \ {w} : DOMAIN roomWrite[w] \cap DOMAIN roomWrite[v] = {}

Asked(query) ==
  {query[k].value : k \in {k \in DOMAIN query : query[k].key = "amenity"
                                                /\ query[k].value # Unparsable}}

(* Between its two statements worker w holds rooms without amenities.  The *)
(* id of such a room has been given out and committed, so that nobody can  *)
(* make another room of it: until it is deleted it has what was asked for. *)
HeldList(w) ==
  \A r \in DOMAIN found[w] :
    /\ found[w][r].amenities = {}
    /\ r \notin unused
    /\ \A v \in Workers : r \in DOMAIN roomWrite[v] => req[v].op # "create"
    /\ rooms[r] = NoRow \/ Asked(req[w].query) \subseteq roomAmenities[r]

SearchesFit ==
  \A w \in Workers :
    /\ pc[w] \in {"selectRooms", "selectAmenities"} => req[w].op = "search"
    /\ pc[w] # "selectAmenities" => DOMAIN found[w] = {}
    /\ HeldList(w)

(* The inductive invariant.                                                *)
Inv == TypeOK /\ WritesFit /\ SearchesFit

(* Segment k of the query says something: no later one of its key does, or *)
(* it is one more amenity.                                                 *)
Counts(query, k) ==
  /\ query[k].value # Unparsable
  /\ query[k].key # "amenity" =>
       ~\E m \in (k + 1)..Len(query) : /\ query[m].key = query[k].key
                                       /\ query[m].value # Unparsable

Satisfies(r, segment) ==
  LET price == BasePrice[rooms[r].category_id] IN
  CASE segment.key = "amenity"     -> segment.value \in roomAmenities[r]
    [] segment.key = "min_price"   -> price >= segment.value
    [] segment.key = "max_price"   -> price <= segment.value
    [] segment.key = "category_id" -> segment.value = rooms[r].category_id
    [] segment.key = "capacity"    -> rooms[r].capacity >= segment.value

NamedTwice(query) ==
  \E k, m \in DOMAIN query :
    /\ k # m /\ query[k].key = "amenity" /\ query[k].value # Unparsable
    /\ query[m] = query[k]

Wanted(query) ==
  {r \in Rooms : /\ rooms[r] # NoRow
                 /\ \A k \in DOMAIN query : Counts(query, k) => Satisfies(r, query[k])}

(* The parsed and counted filters of GET /api/rooms (RoomController.cpp:30,*)
(* RoomRepository.cpp:24) select exactly the rooms that satisfy each       *)
(* filter asked for, whatever the order, repetition and form of the        *)
(* segments; but naming an amenity twice selects no room at all.           *)
SearchIsExact ==
  \A w \in Workers :
    pc[w] = "selectRooms" =>
      Selected(w) = IF NamedTwice(req[w].query) THEN {} ELSE Wanted(req[w].query)

(* Rooms and amenities are read at different moments                       *)
(* (RoomRepository.cpp:53, 74), and a failure of the second read is        *)
(* answered like a success.  Still a list shows a room without an amenity  *)
(* that was asked for only if the room was deleted in between, or if the   *)
(* second read failed and no room of the list has any amenity.             *)
ListedHaveTheAsked ==
  [][ \A w \in Workers :
        LET list == reply'[w].list IN
        pc[w] = "selectAmenities" /\ pc'[w] = "idle"
        => \/ \A r \in DOMAIN list : list[r].amenities = {}
           \/ \A r \in DOMAIN list : \/ Asked(req[w].query) \subseteq list[r].amenities
                                     \/ rooms[r] = NoRow ]_vars

(* What a 200 or 204 says of a room is true in the step in which it is     *)
(* given, with other administrators at work on the same room: it now has   *)
(* the row that was sent, or it was there and is gone; and a 404 changed   *)
(* nothing (RoomRepository.cpp:117, 131).                                  *)
RoomAnswersTrue ==
  [][ \A w \in Workers :
        LET r == req[w].room_id IN
        pc[w] = "commit" /\ pc'[w] = "idle" /\ req[w].op \in {"update", "delete"}
        => /\ reply'[w].code = 200 => rooms[r] # NoRow /\ rooms'[r] = req[w].row
           /\ reply'[w].code = 204 => rooms[r] # NoRow /\ rooms'[r] = NoRow
           /\ reply'[w].code = 404 => UNCHANGED rooms ]_vars
=============================================================================
