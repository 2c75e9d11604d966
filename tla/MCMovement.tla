----------------------------- MODULE MCMovement -----------------------------
(* Small worlds for Movement.  The first is the program's: its two maps     *)
(* with their portals, and move packets for the tiles around these and one  *)
(* step past the borders there.                                             *)
EXTENDS Movement, MapDefinitions, TLC

CONSTANTS p1, p2

MCMaps == DOMAIN map_loaders
MCWidth == [m \in MCMaps |-> map_loaders[m].width]
MCHeight == [m \in MCMaps |-> map_loaders[m].height]
MCPortals ==
    [t \in {Event(m) : m \in MCMaps} |-> Target(map_loaders[t.map].change_map_args)]
MCAsked == {-1, 0, 1, 30, 31, 32} \X {4, 5, 6}

(* p1 starts on MAP_TEST, p2 on MAP_TEST_2, each next to the portal.        *)
MCSaved ==
    [p \in Players |-> IF p = p1 THEN Tile(MAP_TEST, 30, 4) ELSE Tile(MAP_TEST_2, 1, 4)]
MCMaxMove == [p \in Players |-> IF p = p1 THEN 2 ELSE 1]

(* A lane of three tiles without portals, p1 and p2 saved at its ends, as   *)
(* the two players of test_player.c are placed two tiles apart.             *)
MCLane == {0}
MCLaneWidth == [m \in MCLane |-> 3]
MCLaneHeight == [m \in MCLane |-> 1]
MCLanePortals == [t \in {} |-> t]
MCLaneAsked == (0 .. 2) \X {0}
MCLaneSaved == [p \in Players |-> Tile(0, IF p = p1 THEN 0 ELSE 2, 0)]

=============================================================================
