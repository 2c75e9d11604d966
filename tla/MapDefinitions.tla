---------------------------- MODULE MapDefinitions ----------------------------
(* The maps of maps/map-definitions.c: sizes and change-map events.  Their  *)
(* collision rows begin empty, and their other events only print.           *)
EXTENDS Integers

MAP_TEST == 0
MAP_TEST_2 == 1

(* The far end of a change-map event with these static_args: see            *)
(* map_event_change_map.                                                    *)
Target(args) == [map |-> args[1], x |-> args[2], y |-> args[3]]

map_def_test_tile ==
    [width |-> 32, height |-> 8,
     x |-> 31, y |-> 5, change_map_args |-> <<MAP_TEST_2, 0, 5, 1>>]

map_def_test_tile_2 ==
    [width |-> 24, height |-> 6,
     x |-> 0, y |-> 5, change_map_args |-> <<MAP_TEST, 31, 5, 1>>]

map_loaders ==
    [id \in {MAP_TEST, MAP_TEST_2} |->
        IF id = MAP_TEST THEN map_def_test_tile ELSE map_def_test_tile_2]

(* The tile of the change-map event of a map.                               *)
Event(id) == [map |-> id, x |-> map_loaders[id].x, y |-> map_loaders[id].y]

=============================================================================
