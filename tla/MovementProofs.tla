--------------------------- MODULE MovementProofs ---------------------------
(***************************************************************************)
(* Proofs about Movement for every set of players, every maps and portals. *)
(*                                                                         *)
(* The argument has two layers.  Local is what a thread knows of its own   *)
(* Player object and call frame; no other thread can disturb it.  Upon it  *)
(* Collision relates the shared collision bits to all the players.         *)
(***************************************************************************)
EXTENDS Movement, TLAPS

(* In the frame of a move that has passed its checks the new map is already *)
(* in player->map, and a walk stays on its map and within max_move.         *)
Geometry(p) ==
    /\ Standing(p) \in Tiles
    /\ pc[p] = "offline" => loc[p] = Saved[p]
    /\ pc[p] \in {"disable", "enable", "set"} => loc[p].map = frame[p].to.map
    /\ pc[p] = "swap" => frame[p].spawn
    /\ frame[p].spawn => frame[p].to \in Arrivals
    /\ pc[p] \in {"disable", "enable", "set"} /\ ~frame[p].spawn =>
          /\ frame[p].old = loc[p].map
          /\ Distance(loc[p].x, loc[p].y, frame[p].to.x, frame[p].to.y) <= MaxMove[p]

(* Events run only in the outermost player_move.                            *)
Nesting(p) ==
    /\ depth[p] \in {0, 1}
    /\ pc[p] \in {"offline", "idle", "event"} => depth[p] = 0
    /\ depth[p] = 1 /\ pc[p] \in {"swap", "disable", "enable", "set"} => frame[p].suppress

Local == TypeOK /\ \A p \in Players : Geometry(p) /\ Nesting(p)

(* A walk is never onto the walker's own tile, unless a login or a portal   *)
(* left that tile unblocked under him.                                      *)
OwnTarget ==
    \A p \in Players :
        pc[p] = "enable" /\ Standing(p) = frame[p].to => frame[p].to \in Arrivals

Collision == NoGhostTile /\ WalkExclusion /\ OwnTarget

----------------------------------------------------------------------------

(* Membership in the union of the grids, by coordinates.                    *)
LEMMA TilesMember ==
    /\ \A t \in Tiles : t \in Place /\ InBounds(t.map, t.x, t.y)
    /\ \A m \in Maps, x \in Int, y \in Int : InBounds(m, x, y) => Tile(m, x, y) \in Tiles
    /\ \A t \in Place : t = Tile(t.map, t.x, t.y)
<1>1. \A t \in Tiles : t \in Place /\ InBounds(t.map, t.x, t.y)
  BY SizesAssumption DEF Tiles, Tile, Place, InBounds
<1>2. \A m \in Maps, x \in Int, y \in Int : InBounds(m, x, y) => Tile(m, x, y) \in Tiles
  BY SizesAssumption DEF Tiles, InBounds
<1>3. \A t \in Place : t = Tile(t.map, t.x, t.y)
  BY DEF Place, Tile
<1>. QED
  BY <1>1, <1>2, <1>3

LEMMA LocalInit == Init => Local
<1>. SUFFICES ASSUME Init PROVE Local
  OBVIOUS
<1>. USE DEF Init
<1>1. TypeOK
  BY ArrivalsAssumption, TilesMember DEF TypeOK, Frame, Place
<1>2. ASSUME NEW p \in Players PROVE Geometry(p) /\ Nesting(p)
  BY ArrivalsAssumption DEF Geometry, Nesting, Standing
<1>. QED
  BY <1>1, <1>2 DEF Local

(* What a call of p leaves alone: the fields and frames of everybody else.  *)
Others(p) ==
    \A q \in Players \ {p} :
        loc'[q] = loc[q] /\ pc'[q] = pc[q] /\ frame'[q] = frame[q] /\ depth'[q] = depth[q]

LEMMA LocalOthers ==
  ASSUME Local, TypeOK', NEW p \in Players, Others(p), Geometry(p)', Nesting(p)'
  PROVE  Local'
<1>1. ASSUME NEW q \in Players, q # p
      PROVE  Geometry(q)' /\ Nesting(q)'
  BY <1>1 DEF Others, Local, Geometry, Nesting, Standing
<1>. QED
  BY <1>1 DEF Local

LEMMA LocalStep == Local /\ [Next]_vars => Local'
<1>. SUFFICES ASSUME Local, [Next]_vars PROVE Local'
  OBVIOUS
<1>. USE DEF Local
<1>1. ASSUME NEW p \in Players, Login(p)
      PROVE  Local'
  <2>. USE <1>1 DEF Login, map_spawn_player
  <2>1. TypeOK' /\ Others(p)
    BY ArrivalsAssumption, TilesMember DEF TypeOK, Frame, Place, Others
  <2>2. Geometry(p)' /\ Nesting(p)'
    BY DEF TypeOK, Geometry, Nesting, Standing, Arrivals
  <2>. QED
    BY <2>1, <2>2, LocalOthers
<1>2. ASSUME NEW p \in Players, NEW a \in Asked, MoveRequest(p, a[1], a[2])
      PROVE  Local'
  <2>. USE <1>2 DEF MoveRequest
  <2>1. a[1] \in Int /\ a[2] \in Int
    BY AskedAssumption
  <2>2. loc[p] \in Tiles /\ loc[p] \in Place
    BY TilesMember DEF Geometry, Standing
  <2>3. Tile(loc[p].map, a[1], a[2]) \in Tiles
    BY <2>1, <2>2, TilesMember DEF map_check_bounds, Place
  <2>4. TypeOK' /\ Others(p)
    BY <2>2, <2>3 DEF TypeOK, Frame, Place, Others
  <2>5. loc'[p] = loc[p] /\ pc'[p] = "disable" /\ depth'[p] = depth[p]
        /\ frame'[p] = [to |-> Tile(loc[p].map, a[1], a[2]), old |-> loc[p].map,
                        spawn |-> FALSE, suppress |-> FALSE]
    BY DEF TypeOK
  <2>6. Tile(loc[p].map, loc[p].x, loc[p].y) \in Tiles
    BY <2>2, TilesMember
  <2>7. MaxMove[p] >= Distance(loc[p].x, loc[p].y, a[1], a[2])
    BY DEF movement_check_valid
  <2>8. Geometry(p)'
    BY <2>1, <2>2, <2>5, <2>6, <2>7, MaxMoveAssumption
       DEF Geometry, Standing, Tile, Distance, Place
  <2>9. Nesting(p)'
    BY <2>5 DEF Nesting
  <2>. QED
    BY <2>4, <2>8, <2>9, LocalOthers
<1>3. ASSUME NEW p \in Players, SwapMap(p)
      PROVE  Local'
  <2>. USE <1>3 DEF SwapMap
  <2>1. loc[p] \in Tiles /\ loc[p] \in Place /\ frame[p].to \in Tiles /\ frame[p].to \in Place
    BY TilesMember DEF Geometry, Standing, TypeOK, Frame
  <2>2. map_check_bounds(frame[p].to.map, frame[p].to.x, frame[p].to.y)
    BY <2>1, TilesMember DEF map_check_bounds
  <2>3. /\ loc' = [loc EXCEPT ![p].map = frame[p].to.map]
        /\ frame' = [frame EXCEPT ![p].old = loc[p].map]
        /\ pc' = [pc EXCEPT ![p] = "disable"]
        /\ UNCHANGED <<blocked, depth>>
    BY <2>2
  <2>4. TypeOK' /\ Others(p)
    BY <2>1, <2>3 DEF TypeOK, Frame, Place, Others
  <2>5. /\ pc'[p] = "disable" /\ depth'[p] = depth[p]
        /\ loc'[p].map = frame[p].to.map /\ loc'[p].x = loc[p].x /\ loc'[p].y = loc[p].y
        /\ frame'[p].old = loc[p].map /\ frame'[p].to = frame[p].to
        /\ frame'[p].spawn = frame[p].spawn /\ frame'[p].suppress = frame[p].suppress
    BY <2>3 DEF TypeOK, Frame, Place
  <2>6. Geometry(p)'
    BY <2>1, <2>5, TilesMember DEF Geometry, Standing
  <2>7. Nesting(p)'
    BY <2>5 DEF Nesting
  <2>. QED
    BY <2>4, <2>6, <2>7, LocalOthers
<1>4. ASSUME NEW p \in Players, DisableCoord(p)
      PROVE  Local'
  <2>. USE <1>4 DEF DisableCoord
  <2>1. TypeOK' /\ Others(p)
    BY DEF TypeOK, Others, Frame
  <2>2. Geometry(p)' /\ Nesting(p)'
    BY DEF TypeOK, Geometry, Nesting, Standing
  <2>. QED
    BY <2>1, <2>2, LocalOthers
<1>5. ASSUME NEW p \in Players, DisableRefused(p)
      PROVE  Local'
  <2>. USE <1>5 DEF DisableRefused
  <2>1. CASE frame[p].spawn
    <3>1. TypeOK' /\ Others(p)
      BY <2>1 DEF TypeOK, Others
    <3>2. Geometry(p)' /\ Nesting(p)'
      BY <2>1 DEF TypeOK, Geometry, Nesting, Standing
    <3>. QED
      BY <3>1, <3>2, LocalOthers
  <2>2. CASE ~frame[p].spawn
    <3>1. loc[p] \in Tiles
      <4>1. loc[p] \in Place
        BY DEF TypeOK
      <4>. QED
        BY <2>2, <4>1, TilesMember DEF Geometry, Standing
    <3>2. TypeOK' /\ Others(p)
      BY <2>2 DEF TypeOK, Others, Return, Nesting
    <3>3. Geometry(p)' /\ Nesting(p)'
      BY <2>2, <3>1 DEF TypeOK, Geometry, Nesting, Standing, Return
    <3>. QED
      BY <3>2, <3>3, LocalOthers
  <2>. QED
    BY <2>1, <2>2
<1>6. ASSUME NEW p \in Players, EnableCoord(p)
      PROVE  Local'
  <2>. USE <1>6 DEF EnableCoord
  <2>1. Tile(frame[p].old, loc[p].x, loc[p].y) \in Tiles
    BY DEF Geometry, Standing
  <2>2. InBounds(frame[p].old, loc[p].x, loc[p].y)
    BY <2>1, TilesMember DEF Tile
  <2>3. /\ blocked' = blocked \ {Tile(frame[p].old, loc[p].x, loc[p].y)}
        /\ pc' = [pc EXCEPT ![p] = "set"]
        /\ UNCHANGED <<loc, frame, depth>>
    BY <2>2
  <2>4. TypeOK' /\ Others(p)
    BY <2>3 DEF TypeOK, Others
  <2>5. Geometry(p)' /\ Nesting(p)'
    BY <2>3 DEF TypeOK, Geometry, Nesting, Standing, Frame
  <2>. QED
    BY <2>4, <2>5, LocalOthers
<1>7. ASSUME NEW p \in Players, SetCoords(p)
      PROVE  Local'
  <2>. USE <1>7 DEF SetCoords
  <2>1. loc[p] \in Place /\ frame[p].to \in Tiles /\ frame[p].to \in Place
    BY TilesMember DEF TypeOK, Frame
  <2>2. /\ loc'[p].map = frame[p].to.map
        /\ loc'[p].x = frame[p].to.x /\ loc'[p].y = frame[p].to.y
    BY <2>1 DEF TypeOK, Geometry, Place
  <2>3. TypeOK' /\ Others(p)
    BY <2>1 DEF TypeOK, Others, Place
  <2>4. loc'[p] = frame[p].to
    <3>1. loc'[p] \in Place
      BY <2>3 DEF TypeOK
    <3>2. loc'[p] = Tile(loc'[p].map, loc'[p].x, loc'[p].y)
      BY <3>1, TilesMember
    <3>3. frame[p].to = Tile(frame[p].to.map, frame[p].to.x, frame[p].to.y)
      BY <2>1, TilesMember
    <3>. QED
      BY <2>2, <3>2, <3>3
  <2>5. Geometry(p)'
    BY <2>1, <2>4 DEF TypeOK, Geometry, Standing
  <2>6. /\ pc[p] = "set" /\ depth'[p] = depth[p]
        /\ pc'[p] = IF frame[p].suppress THEN "broadcast" ELSE "event"
    BY DEF TypeOK
  <2>7. Nesting(p)'
    BY <2>6 DEF Nesting
  <2>. QED
    BY <2>3, <2>5, <2>7, LocalOthers
<1>8. ASSUME NEW p \in Players, ActivateEvent(p)
      PROVE  Local'
  <2>. USE <1>8 DEF ActivateEvent
  <2>1. CASE loc[p] \in DOMAIN Portals
    <3>. DEFINE t == Portals[loc[p]]
    <3>1. t \in Arrivals /\ t \in Tiles /\ SuppressBit(t)
      BY <2>1, ArrivalsAssumption, PortalsAssumption DEF Arrivals, SuppressBit
    <3>2. SuppressBit(t) = TRUE
      BY <3>1 DEF SuppressBit
    <3>3. map_spawn_player(p, t, TRUE)
      BY <2>1, <3>2
    <3>4. depth[p] = 0 /\ depth' = [depth EXCEPT ![p] = 1] /\ UNCHANGED <<blocked, loc>>
      BY <2>1 DEF Nesting, TypeOK
    <3>. HIDE <1>8
    <3>. USE <3>3, <3>4 DEF map_spawn_player
    <3>5. TypeOK' /\ Others(p)
      BY <3>1 DEF TypeOK, Others, Frame, Place
    <3>6. /\ pc[p] = "event" /\ pc'[p] = "swap" /\ depth'[p] = 1 /\ loc'[p] = loc[p]
          /\ frame'[p] = [to |-> t, old |-> loc[p].map, spawn |-> TRUE, suppress |-> TRUE]
      BY <1>8 DEF TypeOK
    <3>. HIDE <3>3, <3>4
    <3>7. Geometry(p)'
      BY <3>1, <3>6 DEF Geometry, Standing
    <3>8. Nesting(p)'
      BY <3>6 DEF Nesting
    <3>. QED
      BY <3>5, <3>7, <3>8, LocalOthers
  <2>2. CASE loc[p] \notin DOMAIN Portals
    <3>1. TypeOK' /\ Others(p)
      BY <2>2 DEF TypeOK, Others
    <3>2. Geometry(p)' /\ Nesting(p)'
      BY <2>2 DEF TypeOK, Geometry, Nesting, Standing
    <3>. QED
      BY <3>1, <3>2, LocalOthers
  <2>. QED
    BY <2>1, <2>2
<1>9. ASSUME NEW p \in Players, Broadcast(p)
      PROVE  Local'
  <2>. USE <1>9 DEF Broadcast
  <2>1. TypeOK' /\ Others(p)
    BY DEF TypeOK, Others, Return, Nesting
  <2>2. Geometry(p)' /\ Nesting(p)'
    BY DEF TypeOK, Geometry, Nesting, Standing, Return
  <2>. QED
    BY <2>1, <2>2, LocalOthers
<1>10. ASSUME NEW p \in Players, LoopFails(p)
       PROVE  Local'
  <2>. USE <1>10 DEF LoopFails
  <2>1. TypeOK' /\ Others(p)
    BY DEF TypeOK, Others
  <2>2. Geometry(p)' /\ Nesting(p)'
    BY DEF TypeOK, Geometry, Nesting, Standing
  <2>. QED
    BY <2>1, <2>2, LocalOthers
<1>11. CASE UNCHANGED vars
  BY <1>11 DEF vars, TypeOK, Geometry, Nesting, Standing
<1>. QED
  BY <1>1, <1>2, <1>3, <1>4, <1>5, <1>6, <1>7, <1>8, <1>9, <1>10, <1>11
     DEF Next, Step

----------------------------------------------------------------------------

LEMMA HeldOthers ==
  ASSUME NEW p \in Players, Others(p), NEW q \in Players, q # p
  PROVE  Held(q)' = Held(q) /\ Standing(q)' = Standing(q)
  BY DEF Others, Held, Standing

(* Steps that toggle no bit and give p no tile but an arrival tile.         *)
LEMMA CollisionKeep ==
  ASSUME Collision, NEW p \in Players, Others(p), UNCHANGED blocked,
         Held(p) \subseteq Held(p)',
         Held(p)' \ Held(p) \subseteq Arrivals,
         pc'[p] = "enable" => frame'[p].to \in Arrivals
  PROVE  Collision'
<1>1. \A q \in Players : Held(q) \subseteq Held(q)' /\ Held(q)' \ Held(q) \subseteq Arrivals
  BY HeldOthers
<1>2. NoGhostTile'
  BY <1>1 DEF Collision, NoGhostTile
<1>3. WalkExclusion'
  <2>1. \A q \in Players : Held(q)' \ Arrivals \subseteq blocked'
    BY <1>1 DEF Collision, WalkExclusion
  <2>2. ASSUME NEW q \in Players, NEW r \in Players, q # r
        PROVE  Held(q)' \cap Held(r)' \subseteq Arrivals
    BY <1>1, <2>2 DEF Collision, WalkExclusion
  <2>. QED
    BY <2>1, <2>2 DEF WalkExclusion
<1>4. OwnTarget'
  <2>. SUFFICES ASSUME NEW q \in Players, pc'[q] = "enable", Standing(q)' = frame'[q].to
                PROVE  frame'[q].to \in Arrivals
    BY DEF OwnTarget
  <2>1. CASE q = p
    BY <2>1
  <2>2. CASE q # p
    BY <2>2, HeldOthers DEF Collision, OwnTarget, Others
  <2>. QED
    BY <2>1, <2>2
<1>. QED
  BY <1>2, <1>3, <1>4 DEF Collision

LEMMA CollisionInit == Init => Collision
  BY DEF Init, Collision, NoGhostTile, WalkExclusion, OwnTarget, Held

(* Local facts every case below needs.                                      *)
LEMMA OwnPlace ==
  ASSUME Local, NEW p \in Players
  PROVE  /\ loc[p] = Tile(loc[p].map, loc[p].x, loc[p].y)
         /\ pc[p] \notin {"disable", "enable", "set"} => Standing(p) = loc[p]
         /\ pc[p] \in {"disable", "enable"} /\ ~frame[p].spawn => Standing(p) = loc[p]
<1>1. loc[p] = Tile(loc[p].map, loc[p].x, loc[p].y)
  BY TilesMember DEF Local, TypeOK
<1>. QED
  BY <1>1 DEF Local, Geometry, Standing

(* The two actions that change a collision bit.                             *)
LEMMA CollisionDisable ==
  ASSUME Local, Collision, NEW p \in Players, DisableCoord(p), Others(p)
  PROVE  Collision'
<1>. DEFINE t == frame[p].to
<1>1. /\ pc[p] = "disable" /\ pc'[p] = "enable" /\ frame'[p] = frame[p]
      /\ t \notin blocked /\ blocked' = blocked \cup {t}
      /\ Standing(p)' = Standing(p)
  BY DEF DisableCoord, Local, TypeOK, CanDisable, map_coord_is_walkable, Standing
<1>2. Held(p) = {Standing(p)} /\ Held(p)' = {Standing(p), t}
  BY <1>1 DEF Held
<1>3. \A q \in Players : q # p => Held(q)' = Held(q)
  BY HeldOthers
<1>4. \A q \in Players : t \in Held(q) => t \in Arrivals
  BY <1>1 DEF Collision, WalkExclusion
<1>5. NoGhostTile'
  BY <1>1, <1>2, <1>3 DEF Collision, NoGhostTile
<1>6. WalkExclusion'
  <2>1. \A q \in Players : Held(q)' \ Arrivals \subseteq blocked'
    BY <1>1, <1>2, <1>3 DEF Collision, WalkExclusion
  <2>2. ASSUME NEW q \in Players, NEW r \in Players, q # r
        PROVE  Held(q)' \cap Held(r)' \subseteq Arrivals
    BY <1>2, <1>3, <1>4, <2>2 DEF Collision, WalkExclusion
  <2>. QED
    BY <2>1, <2>2 DEF WalkExclusion
<1>7. OwnTarget'
  <2>. SUFFICES ASSUME NEW q \in Players, pc'[q] = "enable", Standing(q)' = frame'[q].to
                PROVE  frame'[q].to \in Arrivals
    BY DEF OwnTarget
  <2>1. CASE q = p
    BY <1>1, <1>2, <1>4, <2>1
  <2>2. CASE q # p
    BY <2>2, HeldOthers DEF Collision, OwnTarget, Others
  <2>. QED
    BY <2>1, <2>2
<1>. QED
  BY <1>5, <1>6, <1>7 DEF Collision

LEMMA CollisionEnable ==
  ASSUME Local, Collision, NEW p \in Players, EnableCoord(p), Others(p)
  PROVE  Collision'
<1>. DEFINE s == Standing(p)
            t == frame[p].to
<1>1. pc[p] = "enable" /\ s = Tile(frame[p].old, loc[p].x, loc[p].y) /\ s \in Tiles
  BY DEF EnableCoord, Standing, Local, Geometry
<1>2. InBounds(frame[p].old, loc[p].x, loc[p].y)
  BY <1>1, TilesMember DEF Tile
<1>3. /\ pc'[p] = "set" /\ frame'[p] = frame[p] /\ blocked' = blocked \ {s}
      /\ Standing(p)' = t
  BY <1>1, <1>2 DEF EnableCoord, Local, TypeOK, Standing
<1>4. Held(p) = {s, t} /\ Held(p)' = {t}
  BY <1>1, <1>3 DEF Held
<1>5. \A q \in Players : q # p => Held(q)' = Held(q)
  BY HeldOthers
<1>6. s = t => t \in Arrivals
  BY <1>1 DEF Collision, OwnTarget
<1>7. \A q \in Players : q # p /\ s \in Held(q) => s \in Arrivals
  BY <1>4 DEF Collision, WalkExclusion
<1>8. NoGhostTile'
  BY <1>3, <1>4, <1>5 DEF Collision, NoGhostTile
<1>9. WalkExclusion'
  <2>1. \A q \in Players : Held(q)' \ Arrivals \subseteq blocked'
    BY <1>3, <1>4, <1>5, <1>6, <1>7 DEF Collision, WalkExclusion
  <2>2. ASSUME NEW q \in Players, NEW r \in Players, q # r
        PROVE  Held(q)' \cap Held(r)' \subseteq Arrivals
    BY <1>4, <1>5, <2>2 DEF Collision, WalkExclusion
  <2>. QED
    BY <2>1, <2>2 DEF WalkExclusion
<1>10. OwnTarget'
  <2>. SUFFICES ASSUME NEW q \in Players, pc'[q] = "enable", Standing(q)' = frame'[q].to
                PROVE  frame'[q].to \in Arrivals
    BY DEF OwnTarget
  <2>. QED
    BY <1>3, HeldOthers DEF Collision, OwnTarget, Others
<1>. QED
  BY <1>8, <1>9, <1>10 DEF Collision

LEMMA StepOthers ==
  ASSUME Local, NEW p \in Players,
         \/ Login(p)
         \/ \E a \in Asked : MoveRequest(p, a[1], a[2])
         \/ Step(p)
  PROVE  Others(p)
<1>. USE DEF Local, TypeOK, Others
<1>1. CASE Login(p)
  BY <1>1 DEF Login, map_spawn_player
<1>2. CASE \E a \in Asked : MoveRequest(p, a[1], a[2])
  BY <1>2 DEF MoveRequest
<1>3. CASE SwapMap(p)
  BY <1>3 DEF SwapMap, Return
<1>4. CASE DisableCoord(p)
  BY <1>4 DEF DisableCoord
<1>5. CASE DisableRefused(p)
  BY <1>5 DEF DisableRefused, Return
<1>6. CASE EnableCoord(p)
  BY <1>6 DEF EnableCoord, Return
<1>7. CASE SetCoords(p)
  BY <1>7 DEF SetCoords
<1>8. CASE ActivateEvent(p)
  BY <1>8 DEF ActivateEvent, map_spawn_player
<1>9. CASE Broadcast(p)
  BY <1>9 DEF Broadcast, Return
<1>10. CASE LoopFails(p)
  BY <1>10 DEF LoopFails
<1>. QED
  BY <1>1, <1>2, <1>3, <1>4, <1>5, <1>6, <1>7, <1>8, <1>9, <1>10 DEF Step

LEMMA CollisionStep == Local /\ Local' /\ Collision /\ [Next]_vars => Collision'
<1>. SUFFICES ASSUME Local, Local', Collision, [Next]_vars PROVE Collision'
  OBVIOUS
<1>1. ASSUME NEW p \in Players, Login(p)
      PROVE  Collision'
  <2>1. Others(p)
    BY <1>1, StepOthers
  <2>2. pc[p] = "offline" /\ pc'[p] = "swap" /\ UNCHANGED <<blocked, loc>>
        /\ frame'[p].spawn /\ frame'[p].to = Saved[p]
    BY <1>1 DEF Login, map_spawn_player, Local, TypeOK
  <2>3. Held(p) = {} /\ Held(p)' = {loc[p]}
    BY <2>2 DEF Held, Standing
  <2>4. loc[p] \in Arrivals
    BY <2>2 DEF Local, Geometry, Arrivals
  <2>. QED
    BY <2>1, <2>2, <2>3, <2>4, CollisionKeep
<1>2. ASSUME NEW p \in Players, NEW a \in Asked, MoveRequest(p, a[1], a[2])
      PROVE  Collision'
  <2>1. Others(p)
    BY <1>2, StepOthers
  <2>2. pc[p] = "idle" /\ pc'[p] = "disable" /\ UNCHANGED <<blocked, loc>>
        /\ frame'[p].old = loc[p].map
    BY <1>2 DEF MoveRequest, Local, TypeOK
  <2>3. Standing(p) = loc[p] /\ Standing(p)' = loc[p]
    BY <2>2, OwnPlace DEF Standing
  <2>. QED
    BY <2>1, <2>2, <2>3, CollisionKeep DEF Held
<1>3. ASSUME NEW p \in Players, SwapMap(p)
      PROVE  Collision'
  <2>1. Others(p)
    BY <1>3, StepOthers DEF Step
  <2>2. frame[p].to \in Tiles
    BY DEF Local, TypeOK, Frame
  <2>3. map_check_bounds(frame[p].to.map, frame[p].to.x, frame[p].to.y)
    BY <2>2, TilesMember DEF map_check_bounds
  <2>4. /\ pc[p] = "swap" /\ pc'[p] = "disable" /\ UNCHANGED blocked
        /\ frame'[p].old = loc[p].map /\ loc'[p].x = loc[p].x /\ loc'[p].y = loc[p].y
    BY <1>3, <2>3 DEF SwapMap, Local, TypeOK, Frame, Place
  <2>5. Standing(p) = loc[p] /\ Standing(p)' = loc[p]
    BY <2>4, OwnPlace DEF Standing
  <2>. QED
    BY <2>1, <2>4, <2>5, CollisionKeep DEF Held
<1>4. ASSUME NEW p \in Players, DisableCoord(p)
      PROVE  Collision'
  BY <1>4, StepOthers, CollisionDisable DEF Step
<1>5. ASSUME NEW p \in Players, DisableRefused(p)
      PROVE  Collision'
  <2>1. Others(p)
    BY <1>5, StepOthers DEF Step
  <2>2. CASE frame[p].spawn
    <3>1. /\ pc[p] = "disable" /\ pc'[p] = "enable" /\ UNCHANGED <<blocked, loc, frame>>
      BY <1>5, <2>2 DEF DisableRefused, Local, TypeOK
    <3>2. frame[p].to \in Arrivals
      BY <2>2 DEF Local, Geometry
    <3>3. Held(p) = {Standing(p)} /\ Held(p)' = {Standing(p), frame[p].to}
      BY <3>1 DEF Held, Standing
    <3>. QED
      BY <2>1, <3>1, <3>2, <3>3, CollisionKeep
  <2>3. CASE ~frame[p].spawn
    <3>1. /\ pc[p] = "disable" /\ pc'[p] \in {"idle", "broadcast"}
          /\ UNCHANGED <<blocked, loc, frame>>
      BY <1>5, <2>3 DEF DisableRefused, Return, Local, TypeOK
    <3>2. Standing(p) = loc[p] /\ Standing(p)' = loc[p]
      BY <2>3, <3>1, OwnPlace DEF Standing
    <3>. QED
      BY <2>1, <3>1, <3>2, CollisionKeep DEF Held
  <2>. QED
    BY <2>2, <2>3
<1>6. ASSUME NEW p \in Players, EnableCoord(p)
      PROVE  Collision'
  BY <1>6, StepOthers, CollisionEnable DEF Step
<1>7. ASSUME NEW p \in Players, SetCoords(p)
      PROVE  Collision'
  <2>1. Others(p)
    BY <1>7, StepOthers DEF Step
  <2>2. /\ pc[p] = "set" /\ pc'[p] \in {"event", "broadcast"} /\ UNCHANGED <<blocked, frame>>
        /\ loc'[p].x = frame[p].to.x /\ loc'[p].y = frame[p].to.y /\ loc'[p].map = loc[p].map
    BY <1>7 DEF SetCoords, Local, TypeOK, Place
  <2>3. frame[p].to \in Place /\ loc[p].map = frame[p].to.map
    BY <2>2, TilesMember DEF Local, TypeOK, Frame, Geometry
  <2>4. loc'[p] \in Place
    BY DEF Local, TypeOK
  <2>5. loc'[p] = frame[p].to
    BY <2>2, <2>3, <2>4, TilesMember
  <2>6. Held(p) = {frame[p].to} /\ Held(p)' = {frame[p].to}
    BY <2>2, <2>5 DEF Held, Standing
  <2>. QED
    BY <2>1, <2>2, <2>6, CollisionKeep
<1>8. ASSUME NEW p \in Players, ActivateEvent(p)
      PROVE  Collision'
  <2>1. Others(p)
    BY <1>8, StepOthers DEF Step
  <2>2. pc[p] = "event" /\ pc'[p] \in {"swap", "broadcast"} /\ UNCHANGED <<blocked, loc>>
    BY <1>8 DEF ActivateEvent, map_spawn_player, Local, TypeOK
  <2>. QED
    BY <2>1, <2>2, CollisionKeep DEF Held, Standing
<1>9. ASSUME NEW p \in Players, Broadcast(p)
      PROVE  Collision'
  <2>1. Others(p)
    BY <1>9, StepOthers DEF Step
  <2>2. pc[p] = "broadcast" /\ pc'[p] \in {"idle", "broadcast"} /\ UNCHANGED <<blocked, loc, frame>>
    BY <1>9 DEF Broadcast, Return, Local, TypeOK
  <2>. QED
    BY <2>1, <2>2, CollisionKeep DEF Held, Standing
<1>10. ASSUME NEW p \in Players, LoopFails(p)
       PROVE  Collision'
  <2>1. Others(p)
    BY <1>10, StepOthers DEF Step
  <2>2. /\ pc[p] \in {"swap", "broadcast"} /\ pc'[p] \in {"looping", "crashed"}
        /\ UNCHANGED <<blocked, loc, frame>>
    BY <1>10 DEF LoopFails, Local, TypeOK
  <2>. QED
    BY <2>1, <2>2, CollisionKeep DEF Held, Standing
<1>11. CASE UNCHANGED vars
  BY <1>11 DEF vars, Collision, NoGhostTile, WalkExclusion, OwnTarget, Held, Standing
<1>. QED
  BY <1>1, <1>2, <1>3, <1>4, <1>5, <1>6, <1>7, <1>8, <1>9, <1>10, <1>11
     DEF Next, Step

(* The threads keep to their stages: what is true of one Player object and  *)
(* its frame stays true whatever the other threads do.                      *)
THEOREM LocalInvariant == Spec => []Local
<1>. QED
  BY LocalInit, LocalStep, PTL DEF Spec

(* The variables have their types: in particular every collision bit that   *)
(* is set is the bit of an existing tile.                                   *)
THEOREM TypeCorrect == Spec => []TypeOK
<1>1. Local => TypeOK
  BY DEF Local
<1>. QED
  BY <1>1, LocalInvariant, PTL

THEOREM CollisionInvariant == Spec => []Collision
<1>. QED
  BY LocalInit, LocalStep, CollisionInit, CollisionStep, PTL DEF Spec

(* No collision bit outlives its cause, for any number of players moving,   *)
(* logging in and passing portals at once.                                  *)
THEOREM NoGhostTiles == Spec => []NoGhostTile
<1>1. Collision => NoGhostTile
  BY DEF Collision
<1>. QED
  BY <1>1, CollisionInvariant, PTL

(* Away from the arrival tiles, one player at most is on a tile, and the    *)
(* tile is blocked while he is.                                             *)
THEOREM WalkersExclude == Spec => []WalkExclusion
<1>1. Collision => WalkExclusion
  BY DEF Collision
<1>. QED
  BY <1>1, CollisionInvariant, PTL

(* The early return after map_enable_coord is dead code.                    *)
THEOREM MovesComplete == Spec => []MoveNeverHalfDone
<1>1. Local => MoveNeverHalfDone
  BY TilesMember DEF Local, Geometry, MoveNeverHalfDone, Standing, Tile
<1>. QED
  BY <1>1, LocalInvariant, PTL

(* Portals do not chain.                                                    *)
THEOREM PortalsNest == Spec => []PortalDepth
<1>1. Local => PortalDepth
  BY DEF Local, Nesting, PortalDepth
<1>. QED
  BY <1>1, LocalInvariant, PTL

(* Outside a spawn, a player moves at most max_move on his map.             *)
LEMMA TeleportStep ==
  ASSUME Local, [Next]_vars, NEW q \in Players, loc'[q] # loc[q], ~frame[q].spawn
  PROVE  /\ loc'[q].map = loc[q].map
         /\ Distance(loc[q].x, loc[q].y, loc'[q].x, loc'[q].y) <= MaxMove[q]
<1>1. PICK p \in Players : SwapMap(p) \/ SetCoords(p)
  BY DEF Next, vars, Step, Login, MoveRequest, DisableCoord, DisableRefused, EnableCoord,
         ActivateEvent, Broadcast, LoopFails
<1>2. p = q
  BY <1>1 DEF SwapMap, SetCoords, Local, TypeOK
<1>3. SetCoords(q)
  BY <1>1, <1>2 DEF SwapMap, Local, Geometry
<1>4. pc[q] = "set" /\ loc'[q].map = loc[q].map
      /\ loc'[q].x = frame[q].to.x /\ loc'[q].y = frame[q].to.y
  BY <1>3 DEF SetCoords, Local, TypeOK, Place
<1>. QED
  BY <1>4 DEF Local, Geometry

THEOREM NoTeleports == Spec => NoTeleport
<1>1. Local /\ [Next]_vars =>
        [\A p \in Players :
           loc'[p] # loc[p] /\ ~frame[p].spawn =>
              /\ loc'[p].map = loc[p].map
              /\ Distance(loc[p].x, loc[p].y, loc'[p].x, loc'[p].y) <= MaxMove[p]]_vars
  BY TeleportStep
<1>. QED
  BY <1>1, LocalInvariant, PTL DEF Spec, NoTeleport

----------------------------------------------------------------------------

(* The refinement of Board: a walk takes effect when the new tile is        *)
(* disabled, an arrival when its frame passes map_disable_coord.            *)
AtMap == [p \in Players |-> At(p)]

LEMMA BoardInit == Init => BoardView!Init
  BY DEF Init, BoardView!Init, At

(* Steps that do not move p on the board.                                   *)
LEMMA BoardStutter ==
  ASSUME NEW p \in Players, Others(p), At(p)' = At(p)
  PROVE  UNCHANGED AtMap
<1>1. \A q \in Players : At(q)' = At(q)
  BY DEF Others, At, Standing
<1>. QED
  BY <1>1 DEF AtMap

LEMMA BoardMove ==
  ASSUME NEW p \in Players, Others(p)
  PROVE  AtMap' = [AtMap EXCEPT ![p] = At(p)']
<1>1. \A q \in Players : q # p => At(q)' = At(q)
  BY DEF Others, At, Standing
<1>. QED
  BY <1>1 DEF AtMap

LEMMA BoardStep == Local /\ Local' /\ Collision /\ [Next]_vars => [BoardView!Next]_AtMap
<1>. SUFFICES ASSUME Local, Local', Collision, [Next]_vars PROVE [BoardView!Next]_AtMap
  OBVIOUS
<1>1. ASSUME NEW p \in Players, Login(p)
      PROVE  [BoardView!Next]_AtMap
  <2>1. Others(p)
    BY <1>1, StepOthers
  <2>2. pc[p] = "offline" /\ pc'[p] = "swap" /\ UNCHANGED loc
    BY <1>1 DEF Login, map_spawn_player, Local, TypeOK
  <2>3. At(p)' = Saved[p]
    BY <2>2 DEF At, Standing, Local, Geometry
  <2>4. Saved[p] \in Arrivals
    BY DEF Arrivals
  <2>5. BoardView!Arrive(p, Saved[p])
    BY <2>1, <2>3, <2>4, BoardMove DEF BoardView!Arrive, AtMap
  <2>. QED
    BY <2>4, <2>5 DEF BoardView!Next
<1>2. ASSUME NEW p \in Players, NEW a \in Asked, MoveRequest(p, a[1], a[2])
      PROVE  [BoardView!Next]_AtMap
  <2>1. Others(p)
    BY <1>2, StepOthers
  <2>2. pc[p] = "idle" /\ pc'[p] = "disable" /\ UNCHANGED loc /\ frame'[p].old = loc[p].map
    BY <1>2 DEF MoveRequest, Local, TypeOK
  <2>3. At(p)' = At(p)
    BY <2>2, OwnPlace DEF At, Standing
  <2>. QED
    BY <2>1, <2>3, BoardStutter
<1>3. ASSUME NEW p \in Players, SwapMap(p)
      PROVE  [BoardView!Next]_AtMap
  <2>1. Others(p)
    BY <1>3, StepOthers DEF Step
  <2>2. frame[p].to \in Tiles
    BY DEF Local, TypeOK, Frame
  <2>3. map_check_bounds(frame[p].to.map, frame[p].to.x, frame[p].to.y)
    BY <2>2, TilesMember DEF map_check_bounds
  <2>4. /\ pc[p] = "swap" /\ pc'[p] = "disable"
        /\ frame'[p].old = loc[p].map /\ loc'[p].x = loc[p].x /\ loc'[p].y = loc[p].y
    BY <1>3, <2>3 DEF SwapMap, Local, TypeOK, Frame, Place
  <2>5. At(p)' = At(p)
    BY <2>4, OwnPlace DEF At, Standing
  <2>. QED
    BY <2>1, <2>5, BoardStutter
<1>4. ASSUME NEW p \in Players, DisableCoord(p)
      PROVE  [BoardView!Next]_AtMap
  <2>. DEFINE t == frame[p].to
  <2>1. Others(p)
    BY <1>4, StepOthers DEF Step
  <2>2. /\ pc[p] = "disable" /\ pc'[p] = "enable" /\ frame'[p] = frame[p]
        /\ t \notin blocked
    BY <1>4 DEF DisableCoord, Local, TypeOK, CanDisable, map_coord_is_walkable
  <2>3. At(p)' = t /\ t \in Tiles
    BY <2>2 DEF At, Local, TypeOK, Frame
  <2>4. CASE frame[p].spawn
    <3>1. t \in Arrivals
      BY <2>4 DEF Local, Geometry
    <3>2. BoardView!Arrive(p, t)
      BY <2>1, <2>3, <3>1, BoardMove DEF BoardView!Arrive, AtMap
    <3>. QED
      BY <3>1, <3>2 DEF BoardView!Next
  <2>5. CASE ~frame[p].spawn
    <3>1. At(p) = loc[p] /\ At(p) \in Tiles
      BY <2>2, <2>5, OwnPlace DEF At, Local, Geometry
    <3>2. /\ t.map = At(p).map
          /\ BoardView!Distance(At(p), t) <= MaxMove[p]
      BY <2>2, <2>5, <3>1 DEF Local, Geometry, Distance, BoardView!Distance
    <3>3. ASSUME t \notin Arrivals, NEW q \in Players
          PROVE  At(q) # t
      <4>1. t \notin Held(q)
        BY <2>2, <3>3 DEF Collision, WalkExclusion
      <4>. QED
        BY <2>3, <4>1, NowhereAssumption DEF Held, At
    <3>4. AtMap' = [AtMap EXCEPT ![p] = t]
      BY <2>1, <2>3, BoardMove
    <3>5. BoardView!Walk(p, t)
      BY <3>1, <3>2, <3>3, <3>4, NowhereAssumption DEF BoardView!Walk, AtMap
    <3>. QED
      BY <2>3, <3>5 DEF BoardView!Next
  <2>. QED
    BY <2>4, <2>5
<1>5. ASSUME NEW p \in Players, DisableRefused(p)
      PROVE  [BoardView!Next]_AtMap
  <2>1. Others(p)
    BY <1>5, StepOthers DEF Step
  <2>2. CASE frame[p].spawn
    <3>1. pc'[p] = "enable" /\ frame'[p] = frame[p]
      BY <1>5, <2>2 DEF DisableRefused, Local, TypeOK
    <3>2. At(p)' = frame[p].to /\ frame[p].to \in Arrivals
      BY <2>2, <3>1 DEF At, Local, Geometry
    <3>3. BoardView!Arrive(p, frame[p].to)
      BY <2>1, <3>2, BoardMove DEF BoardView!Arrive, AtMap
    <3>. QED
      BY <3>2, <3>3 DEF BoardView!Next
  <2>3. CASE ~frame[p].spawn
    <3>1. /\ pc[p] = "disable" /\ pc'[p] \in {"idle", "broadcast"} /\ UNCHANGED loc
      BY <1>5, <2>3 DEF DisableRefused, Return, Local, TypeOK
    <3>2. At(p)' = At(p)
      BY <2>3, <3>1, OwnPlace DEF At, Standing
    <3>. QED
      BY <2>1, <3>2, BoardStutter
  <2>. QED
    BY <2>2, <2>3
<1>6. ASSUME NEW p \in Players, EnableCoord(p)
      PROVE  [BoardView!Next]_AtMap
  <2>1. Others(p)
    BY <1>6, StepOthers DEF Step
  <2>2. pc[p] = "enable" /\ Tile(frame[p].old, loc[p].x, loc[p].y) \in Tiles
    BY <1>6 DEF EnableCoord, Local, Geometry, Standing
  <2>3. InBounds(frame[p].old, loc[p].x, loc[p].y)
    BY <2>2, TilesMember DEF Tile
  <2>4. pc'[p] = "set" /\ frame'[p] = frame[p]
    BY <1>6, <2>3 DEF EnableCoord, Local, TypeOK
  <2>5. At(p)' = At(p)
    BY <2>2, <2>4 DEF At, Standing
  <2>. QED
    BY <2>1, <2>5, BoardStutter
<1>7. ASSUME NEW p \in Players, SetCoords(p)
      PROVE  [BoardView!Next]_AtMap
  <2>1. Others(p)
    BY <1>7, StepOthers DEF Step
  <2>2. /\ pc[p] = "set" /\ pc'[p] \in {"event", "broadcast"}
        /\ loc'[p].x = frame[p].to.x /\ loc'[p].y = frame[p].to.y /\ loc'[p].map = loc[p].map
    BY <1>7 DEF SetCoords, Local, TypeOK, Place
  <2>3. frame[p].to \in Place /\ loc[p].map = frame[p].to.map /\ loc'[p] \in Place
    BY <2>2, TilesMember DEF Local, TypeOK, Frame, Geometry
  <2>4. loc'[p] = frame[p].to
    BY <2>2, <2>3, TilesMember
  <2>5. At(p)' = At(p)
    BY <2>2, <2>4 DEF At, Standing
  <2>. QED
    BY <2>1, <2>5, BoardStutter
<1>8. ASSUME NEW p \in Players, ActivateEvent(p)
      PROVE  [BoardView!Next]_AtMap
  <2>1. Others(p)
    BY <1>8, StepOthers DEF Step
  <2>2. pc[p] = "event" /\ pc'[p] \in {"swap", "broadcast"} /\ UNCHANGED loc
    BY <1>8 DEF ActivateEvent, map_spawn_player, Local, TypeOK
  <2>. QED
    BY <2>1, <2>2, BoardStutter DEF At, Standing
<1>9. ASSUME NEW p \in Players, Broadcast(p)
      PROVE  [BoardView!Next]_AtMap
  <2>1. Others(p)
    BY <1>9, StepOthers DEF Step
  <2>2. pc[p] = "broadcast" /\ pc'[p] \in {"idle", "broadcast"} /\ UNCHANGED loc
    BY <1>9 DEF Broadcast, Return, Local, TypeOK
  <2>. QED
    BY <2>1, <2>2, BoardStutter DEF At, Standing
<1>10. ASSUME NEW p \in Players, LoopFails(p)
       PROVE  [BoardView!Next]_AtMap
  <2>1. Others(p)
    BY <1>10, StepOthers DEF Step
  <2>2. /\ pc[p] \in {"swap", "broadcast"} /\ pc'[p] \in {"looping", "crashed"}
        /\ UNCHANGED <<blocked, loc, frame>>
    BY <1>10 DEF LoopFails, Local, TypeOK
  <2>. QED
    BY <2>1, <2>2, BoardStutter DEF At, Standing
<1>11. CASE UNCHANGED vars
  BY <1>11 DEF vars, AtMap, At, Standing
<1>. QED
  BY <1>1, <1>2, <1>3, <1>4, <1>5, <1>6, <1>7, <1>8, <1>9, <1>10, <1>11
     DEF Next, Step

(* player_move implements the board of Board.tla.                           *)
THEOREM Implementation == Spec => ImplementsBoard
<1>1. Local /\ Local' /\ Collision /\ [Next]_vars => [BoardView!Next]_AtMap
  BY BoardStep
<1>. QED
  BY <1>1, BoardInit, LocalInvariant, CollisionInvariant, PTL
     DEF Spec, ImplementsBoard, BoardView!Spec, AtMap

=============================================================================
