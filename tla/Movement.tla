------------------------------ MODULE Movement ------------------------------
(***************************************************************************)
(* Moving players over the tile maps: player_move (player/player.c), the   *)
(* collision bits of the maps (maps/map.c), the change-map event           *)
(* (maps/map-events.c) and the three ways into them: the login handler, a  *)
(* move packet and a portal tile.                                          *)
(*                                                                         *)
(* Every session has a thread of its own (web-server.c, event-loop.c), so  *)
(* the calls of different players interleave; the only thing that orders   *)
(* them is the mutex of one tile row, held for the length of one           *)
(* map_toggle_coord.  One action below is the stretch of player_move       *)
(* between two accesses to the shared collision bits.                      *)
(*                                                                         *)
(* A player is one Player object: the program makes a new one at every     *)
(* login (its cache is never filled), and only the thread of its session   *)
(* writes it.                                                              *)
(***************************************************************************)
EXTENDS Integers, FiniteSets

CONSTANTS
    Players,   \* Player objects, one per logged-in session
    Maps,      \* map ids
    Width,     \* Width[m] and Height[m]: the size of map m in tiles
    Height,
    MaxMove,   \* MaxMove[p]: the max_move field of p
    Saved,     \* Saved[p]: the tile (map, x and y) in p's database record
    Portals,   \* Portals[t]: static_args of the change-map event of tile t
    Asked,     \* the coordinates a move packet may carry
    Nowhere    \* the place of a player who has not logged in

InBounds(m, x, y) == x \in 0 .. Width[m] - 1 /\ y \in 0 .. Height[m] - 1

Tile(m, x, y) == [map |-> m, x |-> x, y |-> y]

Place == [map : Maps, x : Int, y : Int]

Tiles ==
    UNION {{Tile(m, x, y) : x \in 0 .. Width[m] - 1, y \in 0 .. Height[m] - 1} : m \in Maps}

(* Where map_spawn_player puts a player: a saved position or the far end    *)
(* of a portal.                                                             *)
Arrivals == {Saved[p] : p \in Players}
                \cup {Portals[t] : t \in DOMAIN Portals}

ASSUME SizesAssumption == Width \in [Maps -> Nat] /\ Height \in [Maps -> Nat]
ASSUME MaxMoveAssumption == MaxMove \in [Players -> Int]
ASSUME NowhereAssumption == Nowhere \notin Tiles
ASSUME AskedAssumption == Asked \subseteq Int \X Int
(* The database holds positions the program itself wrote, and the portals   *)
(* of map-definitions.c lead to tiles of their target maps.                 *)
ASSUME ArrivalsAssumption == Saved \in [Players -> Tiles] /\ Arrivals \subseteq Tiles
(* Both portals of map-definitions.c lead to a row 5, an odd one.           *)
ASSUME PortalsAssumption == \A t \in DOMAIN Portals : Portals[t].y % 2 = 1

VARIABLES
    blocked,   \* the tiles whose collision bit is set
    loc,       \* loc[p]: the map, x and y fields of p
    pc,        \* pc[p]: where p's thread is in player_move
    frame,     \* frame[p]: arguments and old_map of the innermost player_move
    depth      \* depth[p]: calls of player_move around the innermost one

vars == <<blocked, loc, pc, frame, depth>>

Frame == [to : Tiles, old : Maps, spawn : BOOLEAN, suppress : BOOLEAN]

Init ==
    /\ blocked = {}
    /\ loc = Saved
    /\ pc = [p \in Players |-> "offline"]
    /\ frame = [p \in Players |-> [to |-> Saved[p], old |-> Saved[p].map,
                                   spawn |-> FALSE, suppress |-> FALSE]]
    /\ depth = [p \in Players |-> 0]

----------------------------------------------------------------------------

Distance(x1, y1, x2, y2) ==
    (IF x1 > x2 THEN x1 - x2 ELSE x2 - x1) + (IF y1 > y2 THEN y1 - y2 ELSE y2 - y1)

(* Mutant: diagonal steps count once.                                       *)
DiagonalCheck(max, x1, y1, x2, y2) ==
    max >= Distance(x1, 0, x2, 0) /\ max >= Distance(y1, 0, y2, 0)

movement_check_valid(max, x1, y1, x2, y2) == max >= Distance(x1, y1, x2, y2)

(* Mutant: the last column is one too far.                                  *)
BoundsOffByOne(m, x, y) == x \in 0 .. Width[m] /\ y \in 0 .. Height[m] - 1

map_check_bounds(m, x, y) == InBounds(m, x, y)

map_coord_is_walkable(t) == t \notin blocked

(* map_toggle_coord with disable set succeeds: under the mutex of the row.  *)
CanDisable(t) == InBounds(t.map, t.x, t.y) /\ map_coord_is_walkable(t)

(* Mutant: the bit is read the wrong way round.                             *)
InvertedSuppressBit(portal) == portal.y % 2 = 0

(* suppress_events is a one-bit field and is loaded from static_args[2],    *)
(* which is also the y of the target.                                       *)
SuppressBit(portal) == portal.y % 2 = 1

(* The innermost player_move returns.  Around it may be another one, whose  *)
(* event loop called map_spawn_player: it goes on to its broadcast whatever *)
(* the inner call returned.                                                 *)
Return(p) ==
    IF depth[p] = 0
    THEN /\ pc' = [pc EXCEPT ![p] = "idle"]
         /\ UNCHANGED depth
    ELSE /\ pc' = [pc EXCEPT ![p] = "broadcast"]
         /\ depth' = [depth EXCEPT ![p] = @ - 1]

(* map_spawn_player: player_move with a map, overlap and possibly without   *)
(* events.  Its own result does not depend on the move's.                   *)
map_spawn_player(p, t, suppress) ==
    /\ pc' = [pc EXCEPT ![p] = "swap"]
    /\ frame' = [frame EXCEPT ![p] = [to |-> t, old |-> loc[p].map,
                                      spawn |-> TRUE, suppress |-> suppress]]

----------------------------------------------------------------------------

(* packet_handle_login: the player read from the database already points to *)
(* its map, and is spawned where it was saved.                              *)
Login(p) ==
    /\ pc[p] = "offline"
    /\ map_spawn_player(p, Saved[p], TRUE)
    /\ UNCHANGED <<blocked, loc, depth>>

(* packet_handle_move, with the checks player_move makes before it touches  *)
(* a collision bit.  A request that fails one of them changes nothing.      *)
MoveRequest(p, x, y) ==
    /\ pc[p] = "idle"
    /\ movement_check_valid(MaxMove[p], loc[p].x, loc[p].y, x, y)
    /\ map_check_bounds(loc[p].map, x, y)
    /\ frame' = [frame EXCEPT ![p] = [to |-> Tile(loc[p].map, x, y), old |-> loc[p].map,
                                      spawn |-> FALSE, suppress |-> FALSE]]
    /\ pc' = [pc EXCEPT ![p] = "disable"]
    /\ UNCHANGED <<blocked, loc, depth>>

(* Mutant: old_map is read after map_add_player.                            *)
SwapMapReadLate(p) ==
    /\ pc[p] = "swap"
    /\ frame' = [frame EXCEPT ![p].old = frame[p].to.map]
    /\ loc' = [loc EXCEPT ![p].map = frame[p].to.map]
    /\ pc' = [pc EXCEPT ![p] = "disable"]
    /\ UNCHANGED <<blocked, depth>>

(* A spawn first moves the player to the player list of the new map, which  *)
(* sets player->map while x and y still are the old ones.                   *)
SwapMap(p) ==
    /\ pc[p] = "swap"
    /\ frame' = [frame EXCEPT ![p].old = loc[p].map]
    /\ loc' = [loc EXCEPT ![p].map = frame[p].to.map]
    /\ IF map_check_bounds(frame[p].to.map, frame[p].to.x, frame[p].to.y)
       THEN pc' = [pc EXCEPT ![p] = "disable"] /\ UNCHANGED depth
       ELSE Return(p)
    /\ UNCHANGED blocked

(* map_disable_coord found the tile free and takes it.                      *)
DisableCoord(p) ==
    /\ pc[p] = "disable"
    /\ CanDisable(frame[p].to)
    /\ blocked' = blocked \cup {frame[p].to}
    /\ pc' = [pc EXCEPT ![p] = "enable"]
    /\ UNCHANGED <<loc, frame, depth>>

(* Mutant: a walk ignores the result as a spawn does.                       *)
DisableIgnored(p) ==
    /\ pc[p] = "disable"
    /\ ~CanDisable(frame[p].to)
    /\ pc' = [pc EXCEPT ![p] = "enable"]
    /\ UNCHANGED <<blocked, loc, frame, depth>>

(* Mutant: a walk waits for the tile to become free.                        *)
DisableRetried(p) ==
    /\ pc[p] = "disable"
    /\ ~CanDisable(frame[p].to)
    /\ frame[p].spawn
    /\ pc' = [pc EXCEPT ![p] = "enable"]
    /\ UNCHANGED <<blocked, loc, frame, depth>>

(* map_disable_coord found the tile taken: a spawn goes on without it, a    *)
(* walk returns 0.                                                          *)
DisableRefused(p) ==
    /\ pc[p] = "disable"
    /\ ~CanDisable(frame[p].to)
    /\ IF frame[p].spawn
       THEN pc' = [pc EXCEPT ![p] = "enable"] /\ UNCHANGED depth
       ELSE Return(p)
    /\ UNCHANGED <<blocked, loc, frame>>

(* Mutant: the coordinate is enabled on player->map, already the new map.   *)
EnableOnNewMap(p) ==
    /\ pc[p] = "enable"
    /\ blocked' = blocked \ {Tile(loc[p].map, loc[p].x, loc[p].y)}
    /\ pc' = [pc EXCEPT ![p] = "set"]
    /\ UNCHANGED <<loc, frame, depth>>

(* Mutant: the coordinates are overwritten before the old ones are enabled. *)
EnableAfterSet(p) ==
    /\ pc[p] = "enable"
    /\ blocked' = blocked \ {frame[p].to}
    /\ pc' = [pc EXCEPT ![p] = "set"]
    /\ UNCHANGED <<loc, frame, depth>>

(* map_enable_coord on the old map at the old x and y, whoever else stands  *)
(* there.  Out of bounds it fails, and so does the move, half done.         *)
EnableCoord(p) ==
    /\ pc[p] = "enable"
    /\ IF InBounds(frame[p].old, loc[p].x, loc[p].y)
       THEN /\ blocked' = blocked \ {Tile(frame[p].old, loc[p].x, loc[p].y)}
            /\ pc' = [pc EXCEPT ![p] = "set"]
            /\ UNCHANGED depth
       ELSE UNCHANGED blocked /\ Return(p)
    /\ UNCHANGED <<loc, frame>>

SetCoords(p) ==
    /\ pc[p] = "set"
    /\ loc' = [loc EXCEPT ![p].x = frame[p].to.x, ![p].y = frame[p].to.y]
    /\ pc' = [pc EXCEPT ![p] = IF frame[p].suppress THEN "broadcast" ELSE "event"]
    /\ UNCHANGED <<blocked, frame, depth>>

(* map_event_activate: a change-map event spawns the player on the other    *)
(* map from within this player_move.                                        *)
ActivateEvent(p) ==
    /\ pc[p] = "event"
    /\ IF loc[p] \in DOMAIN Portals
       THEN /\ map_spawn_player(p, Portals[loc[p]], SuppressBit(Portals[loc[p]]))
            /\ depth' = [depth EXCEPT ![p] = @ + 1]
       ELSE /\ pc' = [pc EXCEPT ![p] = "broadcast"]
            /\ UNCHANGED <<frame, depth>>
    /\ UNCHANGED <<blocked, loc>>

(* The position is sent to the sessions on the map, and player_move returns *)
(* 1.                                                                       *)
Broadcast(p) ==
    /\ pc[p] = "broadcast"
    /\ Return(p)
    /\ UNCHANGED <<blocked, loc, frame>>

(* The loops over player lists in map_remove_player, map_send_packet and    *)
(* map_spawn_player have no lock.  Roster shows what they may meet once     *)
(* changes of a list overlap: a ring, which they never leave, or a freed    *)
(* link, which ends the process.  When that is so is Roster's concern; here *)
(* any loop may fail.                                                       *)
LoopFails(p) ==
    /\ pc[p] \in {"swap", "broadcast"}
    /\ \E end \in {"looping", "crashed"} : pc' = [pc EXCEPT ![p] = end]
    /\ UNCHANGED <<blocked, loc, frame, depth>>

(* The process runs.                                                        *)
Up == \A p \in Players : pc[p] # "crashed"

(* One step of the call the thread of p is in.                              *)
Step(p) ==
    \/ SwapMap(p)
    \/ LoopFails(p)
    \/ DisableCoord(p)
    \/ DisableRefused(p)
    \/ EnableCoord(p)
    \/ SetCoords(p)
    \/ ActivateEvent(p)
    \/ Broadcast(p)

Next ==
    /\ Up
    /\ \E p \in Players :
          \/ Login(p)
          \/ \E a \in Asked : MoveRequest(p, a[1], a[2])
          \/ Step(p)

(* While the process runs, a thread inside player_move goes on, or loops    *)
(* for ever in a player list (LoopFails).  It is never blocked for good: it *)
(* takes one row mutex at a time, and every holder releases it a few        *)
(* instructions later.                                                      *)
Fairness == \A p \in Players : WF_vars(Up /\ Step(p))

Spec == Init /\ [][Next]_vars /\ Fairness

----------------------------------------------------------------------------

TypeOK ==
    /\ blocked \subseteq Tiles
    /\ loc \in [Players -> Place]
    /\ pc \in [Players -> {"offline", "idle", "swap", "disable", "enable",
                           "set", "event", "broadcast", "looping", "crashed"}]
    /\ frame \in [Players -> Frame]
    /\ depth \in [Players -> Nat]

(* The tile p stands on: after SwapMap its map is the old one until the     *)
(* coordinates are set.                                                     *)
Standing(p) ==
    IF pc[p] \in {"disable", "enable"} THEN Tile(frame[p].old, loc[p].x, loc[p].y)
    ELSE IF pc[p] = "set" THEN frame[p].to
    ELSE loc[p]

(* The tiles p answers for: the one it stands on and, between the two       *)
(* toggles, the one it goes to.                                             *)
Held(p) ==
    IF pc[p] = "offline" THEN {}
    ELSE IF pc[p] = "enable" THEN {Standing(p), frame[p].to}
    ELSE {Standing(p)}

(* No collision bit outlives its cause: every blocked tile is a tile some   *)
(* player stands on or is just leaving or entering, whatever walks, logins  *)
(* and portals interleave.  A bit left behind by a move that failed half    *)
(* way, or by the change of map, would close the tile until a restart.      *)
NoGhostTile == \A t \in blocked : \E p \in Players : t \in Held(p)

(* On every tile that is no arrival point the collision map is exact: at    *)
(* most one player is on it, and it is blocked while he is.  Only logins    *)
(* and portals, which ignore the result of map_disable_coord, may stack     *)
(* players, and only where they arrive.                                     *)
WalkExclusion ==
    /\ \A p \in Players : Held(p) \ Arrivals \subseteq blocked
    /\ \A p, q \in Players : p # q => Held(p) \cap Held(q) \subseteq Arrivals

(* player_move never gives up after its first toggle: the old coordinates   *)
(* lie in the old map, also when a portal has just replaced player->map.    *)
MoveNeverHalfDone ==
    \A p \in Players : pc[p] = "enable" => InBounds(frame[p].old, loc[p].x, loc[p].y)

(* A portal never leads into a second portal: the spawn a change-map event  *)
(* makes runs with its events suppressed, so player_move nests at most once.*)
PortalDepth == \A p \in Players : depth[p] <= 1

(* A player changes place only by a legal walk or by a spawn: between two   *)
(* requests his coordinates move at most max_move on one map, unless the    *)
(* move was made by the login handler or by a portal.                       *)
NoTeleport ==
    [][\A p \in Players :
         loc'[p] # loc[p] /\ ~frame[p].spawn =>
            /\ loc'[p].map = loc[p].map
            /\ Distance(loc[p].x, loc[p].y, loc'[p].x, loc'[p].y) <= MaxMove[p]]_vars

(* Every login and every accepted move request comes back from player_move, *)
(* through portals and contested tiles, unless one of its own loops over a  *)
(* player list never ends or some thread ends the process in one.  Nothing  *)
(* else holds it up, whatever the other threads do, also one that loops.    *)
RequestEnds ==
    \A p \in Players :
        (pc[p] \notin {"offline", "idle"}) ~> (pc[p] \in {"idle", "looping"} \/ ~Up)

(* The board as the other players may count on it: a walk takes effect when *)
(* the new tile is disabled, before the coordinates change.                 *)
At(p) ==
    IF pc[p] = "offline" THEN Nowhere
    ELSE IF pc[p] = "enable" THEN frame[p].to
    ELSE Standing(p)

BoardView == INSTANCE Board WITH at <- [p \in Players |-> At(p)]

(* player_move, interleaved in every way, implements the board: a step is a *)
(* walk onto a tile nobody else stands on, an arrival, or invisible.        *)
ImplementsBoard == BoardView!Spec

(* What test_player.c asserts after each pair of moves (line 121), "Players *)
(* are overlapping.": a walk does not end on a tile where another player    *)
(* stands.                                                                  *)
NoOverlap ==
    [][\A p, q \in Players :
         p # q /\ pc[p] = "set" /\ pc'[p] # "set" /\ ~frame[p].spawn /\ pc[q] = "idle" =>
            loc[q] # loc'[p]]_vars

=============================================================================
