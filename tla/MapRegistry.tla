----------------------------- MODULE MapRegistry -----------------------------
(***************************************************************************)
(* The table of loaded maps: map_load and map_unload of maps/map.c.        *)
(*                                                                         *)
(* The entries of tiles[] are independent of each other, each with its own *)
(* mutex in map_locks[], so one entry is modelled.  A reference is one     *)
(* call of map_load together with what becomes of the pointer: it is given *)
(* back by one map_unload (map_event_args_free, player_free), or it is     *)
(* overwritten or falls out of scope and is never given back (the local    *)
(* map of map_spawn_player, packet_template_map, the old player->map in    *)
(* map_add_player).                                                        *)
(*                                                                         *)
(* map_load reads tiles[id] after it has released the mutex, map_unload    *)
(* tests it before it takes the mutex.                                     *)
(***************************************************************************)
EXTENDS Integers, FiniteSets

CONSTANTS
    Refs,        \* references that may exist at one time
    MaxCreates,  \* bound: how often the map may be created
    NoOne        \* the owner of a free mutex

ASSUME RefsAssumption == IsFiniteSet(Refs)
ASSUME NoOneAssumption == NoOne \notin Refs
ASSUME MaxCreatesAssumption == MaxCreates \in Nat

VARIABLES
    tile,    \* tiles[id]: which creation of the map it points to, 0 for none
    refs,    \* the refs field of that map
    made,    \* maps created so far
    lock,    \* the reference whose thread holds map_locks[id], or NoOne
    pc,      \* pc[r]: where the thread of reference r is
    ptr      \* ptr[r]: the map pointer kept in reference r, 0 for none

vars == <<tile, refs, made, lock, pc, ptr>>

Stages == {"none", "load_lock", "load_test", "load_count", "load_unlock", "load_return",
           "held", "lost", "unload_lock", "unload_count", "unload_free", "unload_unlock"}

Init ==
    /\ tile = 0 /\ refs = 0 /\ made = 0
    /\ lock = NoOne
    /\ pc = [r \in Refs |-> "none"]
    /\ ptr = [r \in Refs |-> 0]

Go(r, stage) == pc' = [pc EXCEPT ![r] = stage]

----------------------------------------------------------------------------

LoadCall(r) ==
    /\ pc[r] = "none"
    /\ Go(r, "load_lock")
    /\ UNCHANGED <<tile, refs, made, lock, ptr>>

Lock(r, from, to) ==
    /\ pc[r] = from
    /\ lock = NoOne
    /\ lock' = r
    /\ Go(r, to)
    /\ UNCHANGED <<tile, refs, made, ptr>>

Unlock(r, from, to) ==
    /\ pc[r] = from
    /\ lock' = NoOne
    /\ Go(r, to)
    /\ UNCHANGED <<tile, refs, made, ptr>>

LoadLock(r) == Lock(r, "load_lock", "load_test")

(* The map is created if it is not there, with refs 0.                      *)
LoadCreate(r) ==
    /\ pc[r] = "load_test"
    /\ tile = 0
    /\ made < MaxCreates
    /\ made' = made + 1
    /\ tile' = made + 1
    /\ refs' = 0
    /\ Go(r, "load_count")
    /\ UNCHANGED <<lock, ptr>>

LoadFound(r) ==
    /\ pc[r] = "load_test"
    /\ tile # 0
    /\ Go(r, "load_count")
    /\ UNCHANGED <<tile, refs, made, lock, ptr>>

(* Mutant: only the first load is counted.                                  *)
LoadCountOnce(r) ==
    /\ pc[r] = "load_count"
    /\ refs' = 1
    /\ Go(r, "load_unlock")
    /\ UNCHANGED <<tile, made, lock, ptr>>

LoadCount(r) ==
    /\ pc[r] = "load_count"
    /\ refs' = refs + 1
    /\ Go(r, "load_unlock")
    /\ UNCHANGED <<tile, made, lock, ptr>>

LoadUnlock(r) == Unlock(r, "load_unlock", "load_return")

(* return tiles[id], read without the mutex.                                *)
LoadReturn(r) ==
    /\ pc[r] = "load_return"
    /\ ptr' = [ptr EXCEPT ![r] = tile]
    /\ Go(r, "held")
    /\ UNCHANGED <<tile, refs, made, lock>>

(* The pointer is dropped without map_unload.                               *)
Forget(r) ==
    /\ pc[r] = "held"
    /\ Go(r, "lost")
    /\ UNCHANGED <<tile, refs, made, lock, ptr>>

(* map_unload up to its unlocked test, which lets the call through.         *)
UnloadCall(r) ==
    /\ pc[r] = "held"
    /\ IF tile # 0 THEN Go(r, "unload_lock") ELSE Go(r, "none")
    /\ UNCHANGED <<tile, refs, made, lock, ptr>>

(* Mutant: map_unload does not take the mutex.                              *)
UnloadNoLock(r) ==
    /\ pc[r] = "unload_lock"
    /\ Go(r, "unload_count")
    /\ UNCHANGED <<tile, refs, made, lock, ptr>>

UnloadLock(r) == Lock(r, "unload_lock", "unload_count")

UnloadCount(r) ==
    /\ pc[r] = "unload_count"
    /\ refs' = refs - 1
    /\ Go(r, "unload_free")
    /\ UNCHANGED <<tile, made, lock, ptr>>

(* Mutant: a map with one reference left is freed.                          *)
UnloadFreeEarly(r) ==
    /\ pc[r] = "unload_free"
    /\ tile' = IF refs <= 1 THEN 0 ELSE tile
    /\ Go(r, "unload_unlock")
    /\ UNCHANGED <<refs, made, lock, ptr>>

(* map_free, and tiles[id] cleared, with the last reference.                *)
UnloadFree(r) ==
    /\ pc[r] = "unload_free"
    /\ tile' = IF refs = 0 THEN 0 ELSE tile
    /\ Go(r, "unload_unlock")
    /\ UNCHANGED <<refs, made, lock, ptr>>

UnloadUnlock(r) == Unlock(r, "unload_unlock", "none")

Next ==
    \E r \in Refs :
        \/ LoadCall(r)
        \/ LoadLock(r)
        \/ LoadCreate(r)
        \/ LoadFound(r)
        \/ LoadCount(r)
        \/ LoadUnlock(r)
        \/ LoadReturn(r)
        \/ Forget(r)
        \/ UnloadCall(r)
        \/ UnloadLock(r)
        \/ UnloadCount(r)
        \/ UnloadFree(r)
        \/ UnloadUnlock(r)

Spec == Init /\ [][Next]_vars

----------------------------------------------------------------------------

TypeOK ==
    /\ tile \in 0 .. made
    /\ refs \in Nat
    /\ made \in Nat
    /\ lock \in Refs \cup {NoOne}
    /\ pc \in [Refs -> Stages]
    /\ ptr \in [Refs -> Nat]

(* The references the map has been told of and not yet relieved of.         *)
Counted ==
    {r \in Refs : pc[r] \in {"load_unlock", "load_return", "held", "lost",
                             "unload_lock", "unload_count"}}

(* The count is exact, and while no thread holds the mutex the table has a  *)
(* map if and only if somebody counts on one: map.h:30, "unload map if ref  *)
(* == 0".                                                                   *)
RefsExact ==
    /\ refs = Cardinality(Counted)
    /\ lock = NoOne => (tile = 0 <=> refs = 0)

(* The pointer map_load returned, although read after the mutex was         *)
(* released, and every pointer kept since, is the live map: nobody frees it *)
(* or replaces it by a fresh one with no collision bits while a reference   *)
(* is out.  A lost reference keeps the map for good.                        *)
NoUseAfterFree ==
    \A r \in Refs : pc[r] \in {"held", "lost"} => ptr[r] = tile /\ tile # 0

(* The unlocked test of map_unload does not go stale: when the mutex is     *)
(* taken at last the map the test saw is still there, up to the moment this *)
(* thread itself frees it.                                                  *)
NullTestHolds ==
    \A r \in Refs : pc[r] \in {"unload_lock", "unload_count", "unload_free"} => tile # 0

=============================================================================
