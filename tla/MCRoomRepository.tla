-------------------------- MODULE MCRoomRepository --------------------------
(***************************************************************************)
(* Instances of RoomRepository for TLC.                                    *)
(***************************************************************************)
EXTENDS RoomRepository, TLC

CONSTANTS single, double, wifi, tv

Price == single :> 1000 @@ double :> 2000

WorkerSymmetry == Permutations(Workers)

Filter(key, value) == [key |-> key, value |-> value]

(* One filter and several: at and between the prices and capacities there  *)
(* are, an amenity named twice, a later value in place of an earlier one,  *)
(* values that cannot be parsed.                                           *)
Queries ==
  { <<>>,
    <<Filter("amenity", wifi), Filter("amenity", tv)>>,
    <<Filter("amenity", wifi), Filter("amenity", wifi)>>,
    <<Filter("capacity", 2), Filter("amenity", Unparsable)>>,
    <<Filter("min_price", 2000), Filter("min_price", 1001)>>,
    <<Filter("max_price", 2000), Filter("max_price", 1999), Filter("amenity", tv)>>,
    <<Filter("category_id", double), Filter("category_id", Unparsable)>> }

(* Searches against changes of the rooms.                                  *)
SearchRace ==
  [op : {"search"}, query : Queries]
    \cup [op : {"create"}, row : {[category_id |-> single, capacity |-> 1]}]
    \cup [op : {"update"}, room_id : Rooms,
          row : {[category_id |-> single, capacity |-> 1],
                 [category_id |-> double, capacity |-> 2]}]
    \cup [op : {"delete"}, room_id : Rooms]

(* Two rooms of three.                                                     *)
TwoRooms ==
  {[rooms |-> [r \in Rooms |-> IF r \in S THEN [category_id |-> double, capacity |-> 2]
                               ELSE NoRow],
    roomAmenities |-> [r \in Rooms |-> IF r \in S THEN A ELSE {}]] :
     S \in {T \in SUBSET Rooms : Cardinality(T) = 2},
     A \in {{wifi}, {wifi, tv}}}
=============================================================================
