----------------------------- MODULE SpaceFloor -----------------------------
(***************************************************************************)
(* The floor of the Space Game (level.rs and the steps of apply_move_step) *)
(* on its real grid.  A flood from one cell finds the cells a player can   *)
(* walk to while the airlock's hatch is shut, or open.                     *)
(***************************************************************************)
EXTENDS Integers

VARIABLES flooded,    \* the cells found so far
          hatchOpen   \* before.door_access
floorVars == <<flooded, hatchOpen>>

Rect(left, right, top, bottom) == {<<x, y>> : x \in left..right, y \in top..bottom}
Rooms == [power |-> Rect(1, 4, 1, 3), junction |-> Rect(5, 7, 1, 3), oxygen |-> Rect(8, 12, 1, 3),
          diagnostics |-> Rect(1, 4, 5, 7), charger |-> Rect(5, 7, 5, 7), valve |-> Rect(8, 12, 5, 7),
          airlock |-> Rect(5, 7, 8, 9), signal |-> Rect(8, 12, 8, 9)]
Passages == [junction |-> <<6, 4>>, oxygen |-> <<10, 4>>, diagnostics |-> <<2, 4>>]

\* room_at_position: a passage cell counts for the first room that lists it.
RoomCells(r) == Rooms[r] \cup (IF r \in DOMAIN Passages THEN {Passages[r]} ELSE {})
Cells == UNION {RoomCells(r) : r \in DOMAIN Rooms}
room_at_position(c) == CHOOSE r \in DOMAIN Rooms : c \in RoomCells(r)
OfAirlock == RoomCells("airlock")

Doors == {<<<<4, 2>>, <<5, 2>>>>, <<<<7, 2>>, <<8, 2>>>>, <<<<6, 3>>, <<6, 4>>>>, <<<<6, 4>>, <<6, 5>>>>,
          <<<<10, 3>>, <<10, 4>>>>, <<<<10, 4>>, <<10, 5>>>>, <<<<7, 6>>, <<8, 6>>>>, <<<<6, 7>>, <<6, 8>>>>,
          <<<<10, 7>>, <<10, 8>>>>, <<<<7, 8>>, <<8, 8>>>>, <<<<2, 3>>, <<2, 4>>>>, <<<<2, 4>>, <<2, 5>>>>}
MutOneWay(c, d) == <<c, d>> \in Doors
door_kind_for_step(c, d) == <<c, d>> \in Doors \/ <<d, c>> \in Doors

\* devices_at_position: the cells of the devices, the battery's two included.
Plate == <<7, 2>>
Beacon == <<6, 8>>
Devices == {<<1, 1>>, <<2, 1>>, <<3, 1>>, <<1, 3>>, <<2, 3>>, <<5, 2>>, <<5, 5>>, <<6, 6>>, <<8, 5>>,
            <<9, 5>>, <<11, 5>>, <<9, 8>>, <<8, 8>>}

step(c) == {<<c[1], c[2] + 1>>, <<c[1] - 1, c[2]>>, <<c[1] + 1, c[2]>>, <<c[1], c[2] - 1>>}

\* apply_move_step: the cells a player at c can step to.  Other rooms are behind
\* doors; into the airlock one comes with door access only.
Guarded(c, d) == d \in OfAirlock /\ c \notin OfAirlock
MayStep(c, d) ==
    /\ d \in Cells
    /\ room_at_position(c) # room_at_position(d) => door_kind_for_step(c, d)
    /\ Guarded(c, d) => hatchOpen

FloorInit == hatchOpen \in BOOLEAN /\ \E c \in Cells : flooded = {c}
Flood ==
    /\ flooded' = flooded \cup {d \in UNION {step(c) : c \in flooded} : \E c \in flooded : d \in step(c) /\ MayStep(c, d)}
    /\ flooded' # flooded /\ UNCHANGED hatchOpen
Spread == \E c \in flooded, d \in Cells \ flooded : d \in step(c) /\ MayStep(c, d)

-----------------------------------------------------------------------------
(* Properties. *)

\* From every cell a player can walk to every device, with the hatch shut to
\* all cells but the airlock's, also out of the airlock; with it open to the
\* beacon too.  No cell of the airlock touches the plate, so whoever launches
\* does not hold the plate (what SpaceGame's zones rest on).
FloorIsConnected ==
    ~Spread =>
        /\ Devices \cup {Plate} \subseteq flooded
        /\ Cells \ OfAirlock \subseteq flooded
        /\ hatchOpen => Beacon \in flooded
        /\ flooded \cap OfAirlock # {} => hatchOpen \/ OfAirlock \subseteq flooded
        /\ Beacon \in OfAirlock /\ Plate \notin UNION {step(c) : c \in OfAirlock}
=============================================================================
