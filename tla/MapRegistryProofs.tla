-------------------------- MODULE MapRegistryProofs --------------------------
(***************************************************************************)
(* Proofs about MapRegistry, for any finite number of references.          *)
(*                                                                         *)
(* IInv says who may be inside the mutex, that the count is exact at every *)
(* step, and that the table entry is null exactly when the count is zero,  *)
(* save while the thread inside the mutex is about to repair that.         *)
(***************************************************************************)
EXTENDS MapRegistry, FiniteSetTheorems, TLAPS

Critical == {"load_test", "load_count", "load_unlock",
             "unload_count", "unload_free", "unload_unlock"}

Owner == \A r \in Refs : pc[r] \in Critical <=> lock = r

CountExact == refs = Cardinality(Counted)

EntryMatches ==
    /\ refs > 0 => tile # 0
    /\ \A r \in Refs : pc[r] \in {"load_count", "unload_free"} => tile # 0
    /\ tile # 0 /\ refs = 0 => \E r \in Refs : pc[r] \in {"load_count", "unload_free"}

Current ==
    \A r \in Refs : pc[r] \in {"held", "lost", "unload_lock", "unload_count"} => ptr[r] = tile

IInv == TypeOK /\ Owner /\ CountExact /\ EntryMatches /\ Current

----------------------------------------------------------------------------

LEMMA CountedFinite == IsFiniteSet(Counted) /\ Cardinality(Counted) \in Nat
<1>1. Counted \subseteq Refs
  BY DEF Counted
<1>. QED
  BY <1>1, RefsAssumption, FS_Subset, FS_CardinalityType

(* A counted reference keeps the count above zero.                          *)
LEMMA CountedPositive ==
  ASSUME CountExact, NEW r \in Refs, r \in Counted
  PROVE  refs > 0
  BY CountedFinite, FS_EmptySet DEF CountExact

LEMMA CountedEmpty ==
  ASSUME CountExact, refs = 0
  PROVE  Counted = {}
  BY CountedFinite, FS_EmptySet DEF CountExact

(* A step of r that leaves the count alone.                                 *)
LEMMA CountKeep ==
  ASSUME TypeOK, CountExact, UNCHANGED refs, NEW r \in Refs, NEW stage, Go(r, stage),
         r \in Counted <=> r \in Counted'
  PROVE  CountExact'
<1>1. Counted' = Counted
  BY DEF Counted, Go, TypeOK
<1>. QED
  BY <1>1 DEF CountExact

LEMMA CountUp ==
  ASSUME TypeOK, CountExact, NEW r \in Refs, pc[r] = "load_count", Go(r, "load_unlock"),
         refs' = refs + 1
  PROVE  CountExact'
<1>1. Counted' = Counted \cup {r} /\ r \notin Counted
  BY DEF Counted, Go, TypeOK
<1>. QED
  BY <1>1, CountedFinite, FS_AddElement DEF CountExact

LEMMA CountDown ==
  ASSUME TypeOK, CountExact, NEW r \in Refs, pc[r] = "unload_count", Go(r, "unload_free"),
         refs' = refs - 1
  PROVE  CountExact'
<1>1. Counted' = Counted \ {r} /\ r \in Counted
  BY DEF Counted, Go, TypeOK
<1>. QED
  BY <1>1, CountedFinite, FS_RemoveElement DEF CountExact

LEMMA InitIInv == Init => IInv
<1>. SUFFICES ASSUME Init PROVE IInv
  OBVIOUS
<1>1. Counted = {}
  BY DEF Init, Counted
<1>2. CountExact
  BY <1>1, FS_EmptySet DEF Init, CountExact
<1>3. TypeOK /\ Owner /\ EntryMatches /\ Current
  BY NoOneAssumption DEF Init, TypeOK, Stages, Owner, Critical, EntryMatches, Current
<1>. QED
  BY <1>2, <1>3 DEF IInv

LEMMA NextIInv == IInv /\ [Next]_vars => IInv'
<1>. SUFFICES ASSUME IInv, [Next]_vars PROVE IInv'
  OBVIOUS
<1>. USE DEF IInv, Go
<1>1. ASSUME NEW r \in Refs, LoadCall(r)
      PROVE  IInv'
  <2>. USE <1>1 DEF LoadCall
  <2>1. TypeOK'
    BY DEF TypeOK, Stages
  <2>2. Owner'
    BY DEF TypeOK, Owner, Critical
  <2>3. CountExact'
    <3>1. r \in Counted <=> r \in Counted'
      BY DEF Counted, TypeOK
    <3>. QED
      BY <3>1, CountKeep
  <2>4. EntryMatches'
    BY DEF TypeOK, EntryMatches
  <2>5. Current'
    BY DEF TypeOK, Current
  <2>. QED
    BY <2>1, <2>2, <2>3, <2>4, <2>5 DEF IInv
<1>2. ASSUME NEW r \in Refs, LoadLock(r)
      PROVE  IInv'
  <2>. USE <1>2 DEF LoadLock, Lock
  <2>1. TypeOK'
    BY DEF TypeOK, Stages
  <2>2. Owner'
    BY NoOneAssumption DEF TypeOK, Owner, Critical
  <2>3. CountExact'
    <3>1. r \in Counted <=> r \in Counted'
      BY DEF Counted, TypeOK
    <3>. QED
      BY <3>1, CountKeep
  <2>4. EntryMatches'
    BY DEF TypeOK, EntryMatches
  <2>5. Current'
    BY DEF TypeOK, Current
  <2>. QED
    BY <2>1, <2>2, <2>3, <2>4, <2>5 DEF IInv
<1>3. ASSUME NEW r \in Refs, LoadFound(r)
      PROVE  IInv'
  <2>. USE <1>3 DEF LoadFound
  <2>1. TypeOK'
    BY DEF TypeOK, Stages
  <2>2. Owner'
    BY DEF TypeOK, Owner, Critical
  <2>3. CountExact'
    <3>1. r \in Counted <=> r \in Counted'
      BY DEF Counted, TypeOK
    <3>. QED
      BY <3>1, CountKeep
  <2>4. EntryMatches'
    BY DEF TypeOK, EntryMatches
  <2>5. Current'
    BY DEF TypeOK, Current
  <2>. QED
    BY <2>1, <2>2, <2>3, <2>4, <2>5 DEF IInv
<1>4. ASSUME NEW r \in Refs, LoadUnlock(r)
      PROVE  IInv'
  <2>. USE <1>4 DEF LoadUnlock, Unlock
  <2>1. TypeOK'
    BY DEF TypeOK, Stages
  <2>2. Owner'
    BY NoOneAssumption DEF TypeOK, Owner, Critical
  <2>3. CountExact'
    <3>1. r \in Counted <=> r \in Counted'
      BY DEF Counted, TypeOK
    <3>. QED
      BY <3>1, CountKeep
  <2>4. EntryMatches'
    BY DEF TypeOK, EntryMatches
  <2>5. Current'
    BY DEF TypeOK, Current
  <2>. QED
    BY <2>1, <2>2, <2>3, <2>4, <2>5 DEF IInv
<1>5. ASSUME NEW r \in Refs, LoadReturn(r)
      PROVE  IInv'
  <2>. USE <1>5 DEF LoadReturn
  <2>1. TypeOK'
    BY DEF TypeOK, Stages
  <2>2. Owner'
    BY DEF TypeOK, Owner, Critical
  <2>3. CountExact'
    <3>1. r \in Counted <=> r \in Counted'
      BY DEF Counted, TypeOK
    <3>. QED
      BY <3>1, CountKeep
  <2>4. EntryMatches'
    BY DEF TypeOK, EntryMatches
  <2>5. Current'
    BY DEF TypeOK, Current
  <2>. QED
    BY <2>1, <2>2, <2>3, <2>4, <2>5 DEF IInv
<1>6. ASSUME NEW r \in Refs, Forget(r)
      PROVE  IInv'
  <2>. USE <1>6 DEF Forget
  <2>1. TypeOK'
    BY DEF TypeOK, Stages
  <2>2. Owner'
    BY DEF TypeOK, Owner, Critical
  <2>3. CountExact'
    <3>1. r \in Counted <=> r \in Counted'
      BY DEF Counted, TypeOK
    <3>. QED
      BY <3>1, CountKeep
  <2>4. EntryMatches'
    BY DEF TypeOK, EntryMatches
  <2>5. Current'
    BY DEF TypeOK, Current
  <2>. QED
    BY <2>1, <2>2, <2>3, <2>4, <2>5 DEF IInv
<1>7. ASSUME NEW r \in Refs, UnloadCall(r)
      PROVE  IInv'
  <2>. USE <1>7 DEF UnloadCall
  <2>0. tile # 0
    BY CountedPositive DEF Counted, EntryMatches
  <2>1. TypeOK'
    BY DEF TypeOK, Stages
  <2>2. Owner'
    BY DEF TypeOK, Owner, Critical
  <2>3. CountExact'
    <3>1. r \in Counted <=> r \in Counted'
      BY <2>0 DEF Counted, TypeOK
    <3>. QED
      BY <3>1, CountKeep
  <2>4. EntryMatches'
    BY DEF TypeOK, EntryMatches
  <2>5. Current'
    BY DEF TypeOK, Current
  <2>. QED
    BY <2>1, <2>2, <2>3, <2>4, <2>5 DEF IInv
<1>8. ASSUME NEW r \in Refs, UnloadLock(r)
      PROVE  IInv'
  <2>. USE <1>8 DEF UnloadLock, Lock
  <2>1. TypeOK'
    BY DEF TypeOK, Stages
  <2>2. Owner'
    BY NoOneAssumption DEF TypeOK, Owner, Critical
  <2>3. CountExact'
    <3>1. r \in Counted <=> r \in Counted'
      BY DEF Counted, TypeOK
    <3>. QED
      BY <3>1, CountKeep
  <2>4. EntryMatches'
    BY DEF TypeOK, EntryMatches
  <2>5. Current'
    BY DEF TypeOK, Current
  <2>. QED
    BY <2>1, <2>2, <2>3, <2>4, <2>5 DEF IInv
<1>9. ASSUME NEW r \in Refs, UnloadUnlock(r)
      PROVE  IInv'
  <2>. USE <1>9 DEF UnloadUnlock, Unlock
  <2>1. TypeOK'
    BY DEF TypeOK, Stages
  <2>2. Owner'
    BY NoOneAssumption DEF TypeOK, Owner, Critical
  <2>3. CountExact'
    <3>1. r \in Counted <=> r \in Counted'
      BY DEF Counted, TypeOK
    <3>. QED
      BY <3>1, CountKeep
  <2>4. EntryMatches'
    BY DEF TypeOK, EntryMatches
  <2>5. Current'
    BY DEF TypeOK, Current
  <2>. QED
    BY <2>1, <2>2, <2>3, <2>4, <2>5 DEF IInv
<1>10. ASSUME NEW r \in Refs, LoadCreate(r)
      PROVE  IInv'
  <2>. USE <1>10 DEF LoadCreate
  <2>1. TypeOK'
    BY DEF TypeOK, Stages
  <2>2. Owner'
    BY DEF TypeOK, Owner, Critical
  <2>3. refs = 0
    BY DEF TypeOK, EntryMatches
  <2>4. CountExact'
    <3>1. r \in Counted <=> r \in Counted'
      BY DEF Counted, TypeOK
    <3>. QED
      BY <2>3, <3>1, CountKeep
  <2>5. EntryMatches'
    BY DEF TypeOK, EntryMatches
  <2>6. Current'
    BY <2>3, CountedEmpty DEF TypeOK, Current, Counted
  <2>. QED
    BY <2>1, <2>2, <2>4, <2>5, <2>6
<1>11. ASSUME NEW r \in Refs, LoadCount(r)
      PROVE  IInv'
  <2>. USE <1>11 DEF LoadCount
  <2>1. TypeOK'
    BY DEF TypeOK, Stages
  <2>2. Owner'
    BY DEF TypeOK, Owner, Critical
  <2>3. CountExact'
    BY CountUp
  <2>4. EntryMatches'
    BY DEF TypeOK, EntryMatches
  <2>5. Current'
    BY DEF TypeOK, Current
  <2>. QED
    BY <2>1, <2>2, <2>3, <2>4, <2>5
<1>12. ASSUME NEW r \in Refs, UnloadCount(r)
      PROVE  IInv'
  <2>. USE <1>12 DEF UnloadCount
  <2>1. refs > 0
    BY CountedPositive DEF Counted
  <2>2. TypeOK'
    BY <2>1 DEF TypeOK, Stages
  <2>3. Owner'
    BY DEF TypeOK, Owner, Critical
  <2>4. CountExact'
    BY CountDown
  <2>5. EntryMatches'
    BY <2>1 DEF TypeOK, EntryMatches
  <2>6. Current'
    BY DEF TypeOK, Current
  <2>. QED
    BY <2>2, <2>3, <2>4, <2>5, <2>6
<1>13. ASSUME NEW r \in Refs, UnloadFree(r)
      PROVE  IInv'
  <2>. USE <1>13 DEF UnloadFree
  <2>1. TypeOK'
    BY DEF TypeOK, Stages
  <2>2. Owner'
    BY DEF TypeOK, Owner, Critical
  <2>3. CountExact'
    <3>1. r \in Counted <=> r \in Counted'
      BY DEF Counted, TypeOK
    <3>. QED
      BY <3>1, CountKeep
  <2>4. \A q \in Refs : pc[q] \in {"load_count", "unload_free"} => q = r
    BY DEF Owner, Critical
  <2>5. EntryMatches'
    BY <2>4 DEF TypeOK, EntryMatches
  <2>6. Current'
    <3>1. CASE refs = 0
      BY <3>1, CountedEmpty DEF TypeOK, Current, Counted
    <3>2. CASE refs # 0
      BY <3>2 DEF TypeOK, Current
    <3>. QED
      BY <3>1, <3>2
  <2>. QED
    BY <2>1, <2>2, <2>3, <2>5, <2>6
<1>14. CASE UNCHANGED vars
  BY <1>14 DEF vars, TypeOK, Owner, CountExact, Counted, EntryMatches, Current
<1>. QED
  BY <1>1, <1>2, <1>3, <1>4, <1>5, <1>6, <1>7, <1>8, <1>9, <1>10, <1>11, <1>12, <1>13, <1>14 DEF Next

THEOREM RegistryInvariant == Spec => []IInv
<1>. QED
  BY InitIInv, NextIInv, PTL DEF Spec

(* The variables have their types.                                          *)
THEOREM RegistryTypes == Spec => []TypeOK
<1>1. IInv => TypeOK
  BY DEF IInv
<1>. QED
  BY <1>1, RegistryInvariant, PTL

(* The reference count is exact at every step, and a map is loaded if and   *)
(* only if it is referenced.                                                *)
THEOREM ReferenceCount == Spec => []RefsExact
<1>1. IInv => RefsExact
  <2>. SUFFICES ASSUME IInv PROVE RefsExact
    OBVIOUS
  <2>1. ASSUME lock = NoOne, tile # 0 PROVE refs # 0
    BY <2>1, NoOneAssumption DEF IInv, EntryMatches, Owner, Critical
  <2>2. ASSUME tile = 0 PROVE refs = 0
    BY <2>2 DEF IInv, TypeOK, EntryMatches
  <2>. QED
    BY <2>1, <2>2 DEF IInv, CountExact, RefsExact
<1>. QED
  BY <1>1, RegistryInvariant, PTL

(* No pointer to a map outlives the map, however loads, unloads and         *)
(* forgotten references interleave.                                         *)
THEOREM MapsStay == Spec => []NoUseAfterFree
<1>1. IInv => NoUseAfterFree
  BY CountedPositive DEF IInv, NoUseAfterFree, Current, EntryMatches, Counted
<1>. QED
  BY <1>1, RegistryInvariant, PTL

(* The test map_unload makes before it locks cannot be overtaken.           *)
THEOREM NullTestSafe == Spec => []NullTestHolds
<1>1. IInv => NullTestHolds
  BY CountedPositive DEF IInv, NullTestHolds, EntryMatches, Counted
<1>. QED
  BY <1>1, RegistryInvariant, PTL

=============================================================================
