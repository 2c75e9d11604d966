----------------------------- MODULE RosterProofs -----------------------------
(***************************************************************************)
(* Proofs about Roster, for any players, maps and number of links.         *)
(*                                                                         *)
(* First what holds however the lists are torn: it says nothing about next *)
(* and head but their types, only that a thread frees no link but one of   *)
(* its own player, and makes none but of its own player.  Then what holds  *)
(* until two changes of a list overlap: what the lists hold, and what the  *)
(* clients have been told.                                                 *)
(***************************************************************************)
EXTENDS Roster, FiniteSetTheorems, TLAPS

(* The links that hold p.                                                   *)
Own(p) == {l \in Links : payload[l] = p}

(* The link a thread is about to free is one of its own player.             *)
OwnInHand == \A p \in Players : pc[p] = "unlink" => cur[p] \in Own(p)

NotYetListed == \A p \in Players : pc[p] = "offline" => Own(p) = {}

IInv == TypeOK /\ RefsCounted /\ OwnInHand /\ NotYetListed

----------------------------------------------------------------------------

LEMMA OwnFinite ==
  ASSUME NEW p \in Players
  PROVE  IsFiniteSet(Own(p)) /\ Cardinality(Own(p)) \in Nat
<1>1. IsFiniteSet(Links)
  BY RosterAssumption, FS_Interval DEF Links
<1>. QED
  BY <1>1, FS_Subset, FS_CardinalityType DEF Own

LEMMA RefsAreOwn ==
  ASSUME RefsCounted, NEW p \in Players, pc[p] # "offline"
  PROVE  refs[p] = 1 + Cardinality(Own(p))
  BY DEF RefsCounted, Own

LEMMA InitInv == Init => IInv
<1>. SUFFICES ASSUME Init PROVE IInv
  OBVIOUS
<1>1. TypeOK
  <2>1. (CHOOSE x \in Positions : TRUE) \in Positions
    BY RosterAssumption
  <2>. QED
    BY <2>1, RosterAssumption DEF Init, TypeOK, Links, Null
<1>2. RefsCounted /\ OwnInHand
  BY DEF Init, RefsCounted, OwnInHand
<1>3. NotYetListed
  BY RosterAssumption DEF Init, NotYetListed, Own
<1>. QED
  BY <1>1, <1>2, <1>3 DEF IInv

(* A step that leaves the links and the references as they are.             *)
LEMMA PayloadKept ==
  ASSUME IInv, UNCHANGED <<payload, refs>>, TypeOK',
         NEW p \in Players, pc[p] # "offline", pc'[p] # "offline",
         \A q \in Players \ {p} : pc'[q] = pc[q] /\ cur'[q] = cur[q],
         pc'[p] = "unlink" => cur'[p] \in Own(p)
  PROVE  IInv'
<1>1. \A q \in Players : Own(q)' = Own(q)
  BY DEF Own
<1>2. RefsCounted'
  BY <1>1 DEF IInv, RefsCounted, Own
<1>3. OwnInHand'
  BY <1>1 DEF IInv, OwnInHand
<1>4. NotYetListed'
  BY <1>1 DEF IInv, NotYetListed
<1>. QED
  BY <1>2, <1>3, <1>4 DEF IInv

----------------------------------------------------------------------------

(* Types, action by action.                                                 *)
LEMMA EnterType ==
  ASSUME TypeOK, NEW p \in Players, NEW m \in Maps, NEW kind \in {"spawn", "portal"},
         Enter(p, m, kind), refs' \in [Players -> Nat], left' \in [Players -> Nat]
  PROVE  TypeOK'
  BY DEF TypeOK, Enter, map_send_map_packet, Go, list, snap

LEMMA UnlinkType ==
  ASSUME IInv, NEW p \in Players, Unlink(p)
  PROVE  TypeOK'
<1>. USE DEF TypeOK, IInv
<1>1. cur[p] \in Links /\ payload[cur[p]] = p
  BY DEF Unlink, At, OwnInHand, Own
<1>2. head' \in [Maps -> Links \cup {Null}] /\ next' \in [Links -> Links \cup {Null}]
  BY <1>1 DEF Unlink, Relink, Null
<1>3. refs' \in [Players -> Nat]
  <2>1. refs[p] = 1 + Cardinality(Own(p)) /\ Cardinality(Own(p)) \in Nat
    BY RefsAreOwn, OwnFinite DEF Unlink, At
  <2>. QED
    BY <2>1 DEF Unlink
<1>4. raced' \in BOOLEAN /\ missed' \subseteq Players \X Players
  BY DEF Unlink, Torn, Unheard
<1>. QED
  BY <1>1, <1>2, <1>3, <1>4 DEF Unlink, Go, call, snap

LEMMA AddType ==
  ASSUME TypeOK, NEW p \in Players, Add(p)
  PROVE  TypeOK'
  BY DEF TypeOK, Add, player_ref, Go, call, snap, history

LEMMA PublishType ==
  ASSUME TypeOK, NEW p \in Players, Publish(p)
  PROVE  TypeOK'
  BY DEF TypeOK, Publish, Go, call, snap, Null

LEMMA AnnounceType ==
  ASSUME TypeOK, NEW p \in Players, Announce(p)
  PROVE  TypeOK'
<1>1. cur[p] \in Links /\ cur' \in [Players -> Links \cup {Null}]
  BY DEF TypeOK, Announce, Live, Advance
<1>2. view' \in [Players -> [Players -> Positions \cup {Unknown}]]
  BY DEF TypeOK, Announce
<1>3. missed' \subseteq Players \X Players
  BY DEF TypeOK, Announce, Listed
<1>. QED
  BY <1>1, <1>2, <1>3 DEF TypeOK, Announce, list, player, call, snap

LEMMA SnapType ==
  ASSUME TypeOK, NEW p \in Players, SnapRead(p) \/ SnapWrite(p)
  PROVE  TypeOK'
<1>1. cur[p] \in Links /\ payload[cur[p]] \in Players
  BY DEF TypeOK, SnapRead, SnapWrite, Live
<1>2. CASE SnapRead(p)
  <2>1. CASE payload[cur[p]] = p
    BY <1>1, <1>2, <2>1 DEF TypeOK, SnapRead, Advance, list, player, call, snap, history
  <2>2. CASE payload[cur[p]] # p
    <3>0. /\ who' = [who EXCEPT ![p] = payload[cur[p]]]
          /\ seen' = [seen EXCEPT ![p] = pos[payload[cur[p]]]]
      BY <1>2, <2>2 DEF SnapRead
    <3>1. who' \in [Players -> Players \cup {NoOne}] /\ seen' \in [Players -> Positions \cup {Unknown}]
      BY <1>1, <3>0 DEF TypeOK
    <3>. QED
      BY <1>2, <2>2, <3>1 DEF TypeOK, SnapRead, Go, list, player, call, history
  <2>. QED
    BY <2>1, <2>2
<1>3. CASE SnapWrite(p)
  BY <1>1, <1>3 DEF TypeOK, SnapWrite, WriteSeen, Advance, Go, list, player, call, history
<1>. QED
  BY <1>2, <1>3

LEMMA LocalType ==
  ASSUME TypeOK, NEW p \in Players,
         \/ FindOther(p) \/ FindSelf(p) \/ Leave(p) \/ Walk(p) \/ AnnounceDone(p) \/ SnapDone(p)
         \/ Begin(p, "leave0", "leave") \/ Begin(p, "announce0", "announce") \/ UseFreed(p)
         \/ \E x \in Positions : SetPos(p, x)
  PROVE  TypeOK'
<1>. USE DEF TypeOK, Go, list, player, call, regs, snap, history
<1>1. CASE FindOther(p)
  BY <1>1 DEF FindOther, Live
<1>8. CASE FindSelf(p)
  BY <1>8 DEF FindSelf, Live
<1>2. CASE Leave(p)
  BY <1>2 DEF Leave, Live, Advance
<1>3. CASE Walk(p)
  BY <1>3 DEF Walk, Handle
<1>4. CASE AnnounceDone(p)
  <2>1. pc' \in [Players -> {"offline", "idle", "find", "unlink", "leave0", "leave", "publish",
                              "set", "event", "announce0", "announce", "snap_read",
                              "snap_write"}]
    BY <1>4 DEF AnnounceDone
  <2>2. cur' \in [Players -> Links \cup {Null}]
    BY <1>4 DEF AnnounceDone
  <2>. QED
    BY <1>4, <2>1, <2>2 DEF AnnounceDone
<1>9. CASE SnapDone(p)
  BY <1>9 DEF SnapDone
<1>5. CASE Begin(p, "leave0", "leave")
  BY <1>5 DEF Begin
<1>10. CASE Begin(p, "announce0", "announce")
  BY <1>10 DEF Begin
<1>6. CASE UseFreed(p)
  BY <1>6 DEF UseFreed
<1>7. ASSUME NEW x \in Positions, SetPos(p, x) PROVE TypeOK'
  <2>1. pc' = [pc EXCEPT ![p] = "event"] \/ pc' = [pc EXCEPT ![p] = "announce0"]
    BY <1>7 DEF SetPos
  <2>2. pos' \in [Players -> Positions]
    BY <1>7 DEF SetPos
  <2>. QED
    BY <1>7, <2>1, <2>2 DEF SetPos
<1>. HIDE DEF TypeOK, Go, list, player, call, regs, snap, history
<1>. QED
  BY <1>1, <1>2, <1>3, <1>4, <1>5, <1>6, <1>7, <1>8, <1>9, <1>10

----------------------------------------------------------------------------

(* The steps that make, free or claim a link, and the login.                *)

LEMMA LoginInv ==
  ASSUME IInv, NEW p \in Players, Login(p)
  PROVE  IInv'
<1>0. TypeOK /\ map[p] \in Maps /\ Enter(p, map[p], "spawn")
  BY DEF Login, IInv, TypeOK
<1>1. TypeOK'
  <2>1. refs' \in [Players -> Nat] /\ left' \in [Players -> Nat]
    BY <1>0 DEF Login, Handle, TypeOK
  <2>. QED
    BY <1>0, <2>1, EnterType
<1>2. Own(p) = {} /\ \A q \in Players : Own(q)' = Own(q)
  BY DEF Login, Enter, At, IInv, NotYetListed, Own, list
<1>3. pc' = [pc EXCEPT ![p] = "find"] /\ cur' = [cur EXCEPT ![p] = head[map[p]]]
  BY DEF Login, Enter, Go
<1>4. RefsCounted'
  <2>1. Cardinality(Own(p)') = 0
    BY <1>2, FS_EmptySet
  <2>2. refs' = [refs EXCEPT ![p] = 1]
    BY DEF Login
  <2>3. refs'[p] = 1 + Cardinality(Own(p)')
    BY <2>1, <2>2 DEF IInv, TypeOK
  <2>4. \A q \in Players \ {p} : pc'[q] # "offline" => refs'[q] = 1 + Cardinality(Own(q)')
    BY <1>2, <1>3, <2>2, RefsAreOwn DEF IInv, TypeOK
  <2>. QED
    BY <2>3, <2>4 DEF RefsCounted, Own
<1>5. OwnInHand'
  BY <1>2, <1>3 DEF IInv, OwnInHand, TypeOK
<1>6. NotYetListed'
  BY <1>2, <1>3 DEF IInv, NotYetListed, TypeOK
<1>. QED
  BY <1>1, <1>4, <1>5, <1>6 DEF IInv

LEMMA UnlinkInv ==
  ASSUME IInv, NEW p \in Players, Unlink(p)
  PROVE  IInv'
<1>. DEFINE l == cur[p]
<1>1. pc[p] = "unlink" /\ l \in Own(p)
  BY DEF Unlink, At, IInv, OwnInHand
<1>2. payload' = [payload EXCEPT ![l] = NoOne] /\ refs' = [refs EXCEPT ![p] = refs[p] - 1]
      /\ pc' = [pc EXCEPT ![p] = "leave0"] /\ cur' = [cur EXCEPT ![p] = Null]
  BY DEF Unlink, Go
<1>3. Own(p)' = Own(p) \ {l} /\ \A q \in Players \ {p} : Own(q)' = Own(q)
  BY <1>1, <1>2, RosterAssumption DEF Own, IInv, TypeOK
<1>4. RefsCounted'
  <2>1. refs[p] = 1 + Cardinality(Own(p)) /\ Cardinality(Own(p)) \in Nat
    BY <1>1, RefsAreOwn, OwnFinite DEF IInv
  <2>2. Cardinality(Own(p)') = Cardinality(Own(p)) - 1
    BY <1>1, <1>3, OwnFinite, FS_RemoveElement
  <2>3. refs'[p] = 1 + Cardinality(Own(p)')
    BY <1>2, <2>1, <2>2 DEF IInv, TypeOK
  <2>4. \A q \in Players \ {p} : pc'[q] # "offline" => refs'[q] = 1 + Cardinality(Own(q)')
    BY <1>2, <1>3, RefsAreOwn DEF IInv, TypeOK
  <2>. QED
    BY <2>3, <2>4 DEF RefsCounted, Own
<1>5. OwnInHand'
  BY <1>2, <1>3 DEF IInv, OwnInHand, TypeOK
<1>6. NotYetListed'
  BY <1>2, <1>3 DEF IInv, NotYetListed, TypeOK
<1>. QED
  BY UnlinkType, <1>4, <1>5, <1>6 DEF IInv

LEMMA AddInv ==
  ASSUME IInv, NEW p \in Players, Add(p)
  PROVE  IInv'
<1>1. PICK l \in Links : payload[l] = NoOne /\ payload' = [payload EXCEPT ![l] = p]
  BY DEF Add
<1>2. pc[p] # "offline" /\ refs' = [refs EXCEPT ![p] = refs[p] + 1]
      /\ pc' = [pc EXCEPT ![p] = "publish"] /\ cur' = cur
  BY DEF Add, At, Go, player_ref
<1>3. l \notin Own(p) /\ Own(p)' = Own(p) \cup {l}
      /\ \A q \in Players \ {p} : Own(q)' = Own(q)
  BY <1>1, RosterAssumption DEF Own, IInv, TypeOK
<1>4. RefsCounted'
  <2>1. refs[p] = 1 + Cardinality(Own(p)) /\ Cardinality(Own(p)) \in Nat
    BY <1>2, RefsAreOwn, OwnFinite DEF IInv
  <2>2. Cardinality(Own(p)') = Cardinality(Own(p)) + 1
    BY <1>3, OwnFinite, FS_AddElement
  <2>3. refs'[p] = 1 + Cardinality(Own(p)')
    BY <1>2, <2>1, <2>2 DEF IInv, TypeOK
  <2>4. \A q \in Players \ {p} : pc'[q] # "offline" => refs'[q] = 1 + Cardinality(Own(q)')
    BY <1>2, <1>3, RefsAreOwn DEF IInv, TypeOK
  <2>. QED
    BY <2>3, <2>4 DEF RefsCounted, Own
<1>5. OwnInHand'
  BY <1>2, <1>3 DEF IInv, OwnInHand, TypeOK
<1>6. NotYetListed'
  BY <1>2, <1>3 DEF IInv, NotYetListed, TypeOK
<1>. QED
  BY AddType, <1>4, <1>5, <1>6 DEF IInv

----------------------------------------------------------------------------

LEMMA StepInv ==
  ASSUME IInv, [Next]_vars
  PROVE  IInv'
<1>0. TypeOK
  BY DEF IInv
<1>1. ASSUME NEW p \in Players, Login(p) PROVE IInv'
  BY <1>1, LoginInv
<1>2. ASSUME NEW p \in Players, Unlink(p) PROVE IInv'
  BY <1>2, UnlinkInv
<1>3. ASSUME NEW p \in Players, Add(p) PROVE IInv'
  BY <1>3, AddInv
<1>4. ASSUME NEW p \in Players, FindSelf(p) PROVE IInv'
  <2>1. TypeOK'
    BY <1>0, <1>4, LocalType
  <2>2. cur'[p] \in Own(p)
    BY <1>0, <1>4 DEF FindSelf, Own, TypeOK, Live, regs
  <2>3. UNCHANGED <<payload, refs>> /\ pc[p] # "offline" /\ pc' = [pc EXCEPT ![p] = "unlink"]
        /\ cur' = cur
    BY <1>4 DEF FindSelf, Go, list, player, At
  <2>. QED
    BY <1>0, <2>1, <2>2, <2>3, PayloadKept DEF TypeOK
<1>5. ASSUME NEW p \in Players, FindOther(p) \/ Leave(p) \/ Walk(p) \/ AnnounceDone(p)
             \/ SnapDone(p) \/ Begin(p, "leave0", "leave") \/ Begin(p, "announce0", "announce")
             \/ \E x \in Positions : SetPos(p, x)
      PROVE IInv'
  <2>1. TypeOK'
    BY <1>0, <1>5, LocalType
  <2>2. UNCHANGED <<payload, refs>> /\ pc[p] # "offline"
    BY <1>5 DEF FindOther, Leave, Walk, AnnounceDone, SnapDone, Begin, SetPos, list, player, At
  <2>3. \A q \in Players \ {p} : pc'[q] = pc[q] /\ cur'[q] = cur[q]
    BY <1>0, <1>5 DEF FindOther, Leave, Walk, AnnounceDone, SnapDone, Begin, SetPos, regs, Go,
                      Advance, TypeOK
  <2>4. pc'[p] \notin {"unlink", "offline"}
    BY <1>0, <1>5 DEF FindOther, Leave, Walk, AnnounceDone, SnapDone, Begin, SetPos, Go, At, TypeOK
  <2>. QED
    BY <2>1, <2>2, <2>3, <2>4, PayloadKept
<1>6. ASSUME NEW p \in Players, Announce(p) \/ SnapRead(p) \/ SnapWrite(p) PROVE IInv'
  <2>1. TypeOK'
    BY <1>0, <1>6, AnnounceType, SnapType
  <2>2. UNCHANGED <<payload, refs>> /\ pc[p] # "offline"
    BY <1>6 DEF Announce, SnapRead, SnapWrite, list, player, At
  <2>3. \A q \in Players \ {p} : pc'[q] = pc[q] /\ cur'[q] = cur[q]
    BY <1>0, <1>6 DEF Announce, SnapRead, SnapWrite, Go, Advance, TypeOK
  <2>4. pc'[p] \notin {"unlink", "offline"}
    BY <1>0, <1>6 DEF Announce, SnapRead, SnapWrite, Go, At, TypeOK
  <2>. QED
    BY <2>1, <2>2, <2>3, <2>4, PayloadKept
<1>7. ASSUME NEW p \in Players, Publish(p) PROVE IInv'
  <2>1. TypeOK'
    BY <1>0, <1>7, PublishType
  <2>2. UNCHANGED <<payload, refs>> /\ pc[p] # "offline" /\ pc' = [pc EXCEPT ![p] = "set"]
        /\ cur' = cur
    BY <1>7 DEF Publish, At, Go
  <2>. QED
    BY <1>0, <2>1, <2>2, PayloadKept DEF TypeOK
<1>8. ASSUME NEW p \in Players, NEW m \in Maps, ChangeMap(p, m) PROVE IInv'
  <2>1. TypeOK'
    BY <1>0, <1>8, EnterType DEF ChangeMap, TypeOK
  <2>2. UNCHANGED <<payload, refs>> /\ pc[p] # "offline" /\ pc' = [pc EXCEPT ![p] = "find"]
        /\ cur' = [cur EXCEPT ![p] = head[map[p]]]
    BY <1>8 DEF ChangeMap, Enter, At, Go, list
  <2>. QED
    BY <1>0, <2>1, <2>2, PayloadKept DEF TypeOK
<1>9. ASSUME UNCHANGED <<payload, refs, pc, cur>>, TypeOK' PROVE IInv'
  BY <1>9 DEF IInv, RefsCounted, OwnInHand, NotYetListed, Own
<1>10. ASSUME NEW p \in Players, UseFreed(p) PROVE IInv'
  <2>1. TypeOK'
    BY <1>0, <1>10, LocalType
  <2>. QED
    BY <1>9, <1>10, <2>1 DEF UseFreed, list, player, regs
<1>11. CASE UNCHANGED vars
  BY <1>0, <1>9, <1>11 DEF vars, list, player, call, regs, snap, history, TypeOK
<1>. QED
  BY <1>1, <1>2, <1>3, <1>4, <1>5, <1>6, <1>7, <1>8, <1>10, <1>11 DEF Next, Step

LEMMA Invariance == Spec => []IInv
  BY InitInv, StepInv, PTL DEF Spec

(* Types, with them that no reference count of a listed player goes below  *)
(* zero.                                                                    *)
THEOREM RosterTypes == Spec => []TypeOK
  BY Invariance, PTL DEF IInv

(* In whatever way overlapping changes tear the lists: the references to a *)
(* player are his session's and one for each link made and not freed.       *)
THEOREM ReferencesOfPlayers == Spec => []RefsCounted
  BY Invariance, PTL DEF IInv

(* So a player_free from map_remove_player never frees the player: his     *)
(* count stays above zero from his login on.                                *)
THEOREM PlayersStay == Spec => [](\A p \in Players : pc[p] # "offline" => refs[p] > 0)
<1>1. IInv => \A p \in Players : pc[p] # "offline" => refs[p] > 0
  BY RefsAreOwn, OwnFinite DEF IInv
<1>. QED
  BY <1>1, Invariance, PTL

----------------------------------------------------------------------------

(* The links that follow one another, whatever next is.                     *)
Pointers == [Links -> Links \cup {Null}]

LEMMA FromLeast ==
  ASSUME NEW nx \in Pointers, NEW l \in Links \cup {Null}
  PROVE  /\ From(nx, l) \subseteq Links /\ Closed(nx, From(nx, l)) /\ l \in From(nx, l) \cup {Null}
         /\ \A T \in SUBSET Links : l \in T \cup {Null} /\ Closed(nx, T) => From(nx, l) \subseteq T
<1>1. ASSUME NEW k \in From(nx, l) PROVE nx[k] \in From(nx, l) \cup {Null}
  <2>1. nx[k] \in Links \cup {Null}
    BY DEF Pointers, From
  <2>2. ASSUME nx[k] # Null, NEW T \in SUBSET Links, l \in T \cup {Null}, Closed(nx, T)
        PROVE  nx[k] \in T
    BY <2>2 DEF From, Closed
  <2>. QED
    BY <2>1, <2>2 DEF From
<1>. QED
  BY <1>1 DEF From, Closed

LEMMA FromNull ==
  ASSUME NEW nx \in Pointers
  PROVE  From(nx, Null) = {}
<1>1. Closed(nx, {})
  BY DEF Closed
<1>. QED
  BY <1>1, FromLeast

LEMMA FromStep ==
  ASSUME NEW nx \in Pointers, NEW l \in Links \cup {Null}, NEW k \in From(nx, l)
  PROVE  k \in Links /\ nx[k] \in From(nx, l) \cup {Null} /\ nx[k] \in Links \cup {Null}
  BY FromLeast DEF Closed, Pointers

LEMMA FromNext ==
  ASSUME NEW nx \in Pointers, NEW l \in Links
  PROVE  l \in From(nx, l) /\ From(nx, l) \subseteq {l} \cup From(nx, nx[l])
<1>. DEFINE T == {l} \cup From(nx, nx[l])
<1>1. nx[l] \in Links \cup {Null} /\ l # Null
  BY DEF Pointers, Links, Null
<1>2. T \in SUBSET Links /\ Closed(nx, T)
  BY <1>1, FromLeast DEF Closed
<1>. QED
  BY <1>1, <1>2, FromLeast

LEMMA FromWithin ==
  ASSUME NEW nx \in Pointers, NEW l \in Links \cup {Null}, NEW k \in From(nx, l) \cup {Null}
  PROVE  From(nx, k) \subseteq From(nx, l)
  BY FromLeast, FromNull DEF From

(* Where next stays, so does what is reached.                               *)
LEMMA FromKept ==
  ASSUME NEW nx \in Pointers, NEW mx \in Pointers, NEW l \in Links \cup {Null},
         \A k \in From(nx, l) : mx[k] = nx[k]
  PROVE  From(mx, l) = From(nx, l)
<1>1. Closed(mx, From(nx, l))
  BY FromLeast DEF Closed
<1>2. From(mx, l) \subseteq From(nx, l)
  BY <1>1, FromLeast
<1>3. Closed(nx, From(mx, l))
  BY <1>2, FromLeast DEF Closed
<1>4. From(nx, l) \subseteq From(mx, l)
  BY <1>3, FromLeast
<1>. QED
  BY <1>2, <1>4

(* No link follows two, or comes before the first.                          *)
OneWay(nx, h) ==
    \A k, l \in From(nx, h) : nx[k] # h /\ (nx[k] = nx[l] /\ nx[k] # Null => k = l)

LEMMA NotItself ==
  ASSUME NEW nx \in Pointers, NEW h \in Links \cup {Null}, OneWay(nx, h), NEW c \in From(nx, h)
  PROVE  nx[c] # c
<1>. SUFFICES ASSUME nx[c] = c PROVE FALSE
  OBVIOUS
<1>. DEFINE T == From(nx, h) \ {c}
<1>1. c # Null /\ c # h
  BY FromStep DEF OneWay, Links, Null
<1>2. ASSUME NEW k \in T PROVE nx[k] \in T \cup {Null}
  BY <1>1, FromStep DEF OneWay
<1>3. h \in T \cup {Null} /\ T \in SUBSET Links
  BY <1>1, FromLeast
<1>4. From(nx, h) \subseteq T
  BY <1>2, <1>3, FromLeast DEF Closed
<1>. QED
  BY <1>4

(* c is taken out of the links from h on, and mx skips it: what is reached *)
(* from the first link, and from any other, loses c and nothing else.       *)
Skips(nx, mx, h, c) ==
    \A k \in From(nx, h) \ {c} : mx[k] = IF nx[k] = c THEN nx[c] ELSE nx[k]

LEMMA CutWithin ==
  ASSUME NEW nx \in Pointers, NEW mx \in Pointers, NEW h \in Links \cup {Null},
         NEW c \in From(nx, h), OneWay(nx, h), Skips(nx, mx, h, c)
  PROVE  From(mx, IF h = c THEN nx[c] ELSE h) \subseteq From(nx, h) \ {c}
<1>. DEFINE S == From(nx, h) \ {c}
<1>. DEFINE g == IF h = c THEN nx[c] ELSE h
<1>1. nx[c] # c /\ nx[c] \in S \cup {Null}
  BY NotItself, FromStep
<1>2. ASSUME NEW k \in S PROVE mx[k] \in S \cup {Null}
  BY <1>1, FromStep DEF Skips
<1>3. S \in SUBSET Links /\ g \in S \cup {Null} /\ g \in Links \cup {Null}
  BY <1>1, FromLeast
<1>4. Closed(mx, S)
  BY <1>2 DEF Closed
<1>. HIDE DEF S, g
<1>5. From(mx, g) \subseteq S
  BY <1>3, <1>4, FromLeast
<1>. QED
  BY <1>5 DEF S, g

LEMMA CutAfter ==
  ASSUME NEW nx \in Pointers, NEW mx \in Pointers, NEW h \in Links \cup {Null},
         NEW c \in From(nx, h), OneWay(nx, h), Skips(nx, mx, h, c),
         NEW x \in (From(nx, h) \ {c}) \cup {Null}
  PROVE  From(nx, x) \ {c} \subseteq From(mx, x)
<1>. DEFINE S == From(nx, h) \ {c}
<1>. DEFINE R == From(mx, x) \cap S
<1>. DEFINE T == R \cup {k \in {c} : \E j \in R : nx[j] = c}
<1>1. nx[c] \in S \cup {Null} /\ c \in Links /\ x \in Links \cup {Null} /\ S \subseteq Links
  BY NotItself, FromStep, FromLeast
<1>2. ASSUME NEW k \in R PROVE mx[k] \in R \cup {Null} \/ nx[k] = c
  <2>1. mx[k] \in From(mx, x) \cup {Null} /\ nx[k] \in From(nx, h) \cup {Null}
    BY <1>1, FromStep
  <2>. QED
    BY <2>1 DEF Skips
<1>3. ASSUME NEW k \in R, nx[k] = c PROVE nx[c] \in R \cup {Null}
  <2>1. mx[k] \in From(mx, x) \cup {Null} /\ mx[k] = nx[c]
    BY <1>1, <1>3, FromStep DEF Skips
  <2>. QED
    BY <1>1, <2>1
<1>4. ASSUME NEW k \in R PROVE nx[k] \in T \cup {Null}
  <2>1. nx[k] # c => nx[k] = mx[k]
    BY DEF Skips
  <2>. QED
    BY <1>2, <2>1
<1>5. ASSUME c \in T PROVE nx[c] \in T \cup {Null}
  <2>1. c \notin R
    OBVIOUS
  <2>2. PICK j \in R : nx[j] = c
    BY <1>5, <2>1
  <2>. QED
    BY <1>3, <2>2
<1>6. x \in R \cup {Null}
  BY <1>1, FromLeast
<1>7. T \in SUBSET Links /\ x \in T \cup {Null} /\ Closed(nx, T)
  <2>1. T \in SUBSET Links /\ x \in T \cup {Null}
    BY <1>1, <1>6
  <2>2. ASSUME NEW k \in T PROVE nx[k] \in T \cup {Null}
    <3>1. k \in R \/ k = c
      OBVIOUS
    <3>. QED
      BY <1>4, <1>5, <3>1
  <2>. QED
    BY <2>1, <2>2 DEF Closed
<1>8. From(nx, x) \subseteq T
  BY <1>1, <1>7, FromLeast
<1>. QED
  BY <1>8

LEMMA Cut ==
  ASSUME NEW nx \in Pointers, NEW mx \in Pointers, NEW h \in Links \cup {Null},
         NEW c \in From(nx, h), OneWay(nx, h), Skips(nx, mx, h, c),
         NEW g, g = IF h = c THEN nx[c] ELSE h
  PROVE  From(mx, g) = From(nx, h) \ {c} /\ OneWay(mx, g)
<1>1. From(mx, g) \subseteq From(nx, h) \ {c}
  BY CutWithin
<1>2. nx[c] # c /\ nx[c] \in From(nx, h) \cup {Null} /\ h # Null
      /\ nx[c] \in Links \cup {Null} /\ c \in Links /\ h \in From(nx, h)
  BY NotItself, FromStep, FromNull, FromNext
<1>3. From(nx, h) \ {c} \subseteq From(mx, g)
  <2>1. CASE h = c
    <3>1. From(nx, h) \ {c} \subseteq From(nx, g)
      BY <1>2, <2>1, FromNext
    <3>2. From(nx, g) \ {c} \subseteq From(mx, g)
      BY <1>2, <2>1, CutAfter
    <3>. QED
      BY <3>1, <3>2
  <2>2. CASE h # c
    BY <1>2, <2>2, CutAfter
  <2>. QED
    BY <2>1, <2>2
<1>4. ASSUME NEW k \in From(mx, g) PROVE mx[k] # g
  <2>1. k \in From(nx, h) \ {c} /\ g # Null
    BY <1>1, FromNull
  <2>2. mx[k] = IF nx[k] = c THEN nx[c] ELSE nx[k]
    BY <2>1 DEF Skips
  <2>3. nx[k] # h /\ nx[c] # h /\ (nx[k] = nx[c] /\ nx[k] # Null => k = c)
    BY <2>1 DEF OneWay
  <2>. QED
    BY <1>2, <2>1, <2>2, <2>3
<1>5. ASSUME NEW k \in From(mx, g), NEW l \in From(mx, g), mx[k] = mx[l], mx[k] # Null
      PROVE k = l
  <2>1. k \in From(nx, h) \ {c} /\ l \in From(nx, h) \ {c} /\ c # Null
    BY <1>1, <1>2 DEF Links, Null
  <2>2. /\ mx[k] = IF nx[k] = c THEN nx[c] ELSE nx[k]
        /\ mx[l] = IF nx[l] = c THEN nx[c] ELSE nx[l]
    BY <2>1 DEF Skips
  <2>3. /\ nx[k] = nx[l] /\ nx[k] # Null => k = l
        /\ nx[k] = nx[c] /\ nx[k] # Null => k = c
        /\ nx[l] = nx[c] /\ nx[l] # Null => l = c
    BY <2>1 DEF OneWay
  <2>. QED
    BY <1>5, <2>1, <2>2, <2>3
<1>. QED
  BY <1>1, <1>3, <1>4, <1>5 DEF OneWay

(* l is put in front of h.                                                  *)
LEMMA Push ==
  ASSUME NEW nx \in Pointers, NEW h \in Links \cup {Null}, NEW l \in Links,
         OneWay(nx, h), nx[l] = h, l \notin From(nx, h)
  PROVE  From(nx, l) = From(nx, h) \cup {l} /\ OneWay(nx, l)
<1>1. From(nx, l) \subseteq From(nx, h) \cup {l} /\ l \in From(nx, l)
  BY FromNext
<1>2. From(nx, h) \subseteq From(nx, l)
  <2>1. h \in From(nx, l) \cup {Null}
    BY <1>1, FromStep
  <2>. QED
    BY <2>1, FromWithin
<1>3. h # l /\ l # Null
  BY FromNext DEF Links, Null
<1>4. ASSUME NEW k \in From(nx, h) PROVE nx[k] # l /\ nx[k] # h
  BY <1>3, FromStep DEF OneWay
<1>. QED
  BY <1>1, <1>2, <1>3, <1>4 DEF OneWay

----------------------------------------------------------------------------

(* The lists while no two changes have overlapped.                          *)

Ahead(l) == {payload[k] : k \in From(next, l)}

Held(l) == l = Null \/ \E m \in Maps : l \in Chain(m)

Listing ==
    \A m \in Maps :
        /\ {payload[l] : l \in Chain(m)} = {p \in Players : map[p] = m /\ InList(p)}
        /\ \A k, l \in Chain(m) : payload[k] = payload[l] => k = l

Linear == \A m \in Maps : OneWay(next, head[m])

(* Only a player who stands on a map is taken off its list, and he is found *)
(* there; the link he is about to publish is his.                           *)
Changing(p) ==
    /\ pc[p] \in {"unlink", "leave0", "leave"} => job[p] = "portal"
    /\ pc[p] = "publish" => nxt[p] \in Own(p)
    /\ pc[p] = "find" /\ job[p] = "portal" => p \in Ahead(cur[p])

(* p is being looked for to be taken off a list.  Only for him a link in    *)
(* hand is sure to be in one: the loops that send packets may stand on a    *)
(* link that was freed.                                                     *)
Removing(p) == pc[p] \in {"find", "unlink"}

Sound ==
    /\ Listing /\ Linear
    /\ \A p \in Players : (Removing(p) => Held(cur[p]) /\ Held(prev[p])) /\ Changing(p)

Jobs ==
    \A p \in Players :
        /\ pc[p] \in {"find", "unlink", "leave0", "leave", "publish", "snap_read", "snap_write"}
              => job[p] # "walk"
        /\ pc[p] \in {"offline", "idle", "event"} => job[p] = "walk"

ListInv == Jobs /\ (~raced => Sound)

LEMMA Pointing ==
  ASSUME TypeOK
  PROVE  /\ next \in Pointers /\ \A m \in Maps : head[m] \in Links \cup {Null}
         /\ \A l \in Links : payload[l] \in Players \cup {NoOne} /\ next[l] \in Links \cup {Null}
         /\ \A p \in Players : map[p] \in Maps
  BY DEF TypeOK, Pointers

LEMMA Members ==
  ASSUME TypeOK, Listing, NEW m \in Maps, NEW k \in Chain(m)
  PROVE  /\ k \in Links /\ k # Null
         /\ payload[k] \in Players /\ map[payload[k]] = m /\ InList(payload[k])
<1>1. payload[k] \in {p \in Players : map[p] = m /\ InList(p)}
  BY DEF Listing
<1>2. k \in Links
  BY DEF Chain, From
<1>. QED
  BY <1>1, <1>2 DEF Links, Null

LEMMA HasLink ==
  ASSUME TypeOK, Listing, NEW p \in Players, InList(p)
  PROVE  \E k \in Chain(map[p]) : payload[k] = p
<1>1. p \in {payload[l] : l \in Chain(map[p])}
  BY Pointing DEF Listing
<1>. QED
  BY <1>1

LEMMA ChainsApart ==
  ASSUME TypeOK, Listing, NEW m \in Maps, NEW n \in Maps, NEW k, k \in Chain(m), k \in Chain(n)
  PROVE  m = n
  BY Members

LEMMA ChainNext ==
  ASSUME TypeOK, NEW m \in Maps, NEW k \in Chain(m)
  PROVE  next[k] \in Chain(m) \cup {Null}
  BY Pointing, FromStep DEF Chain

LEMMA HeldHead ==
  ASSUME TypeOK, NEW m \in Maps
  PROVE  Held(head[m])
  BY Pointing, FromLeast DEF Held, Chain

LEMMA HeldNext ==
  ASSUME TypeOK, NEW k \in Links, Held(k)
  PROVE  Held(next[k])
<1>1. PICK m \in Maps : k \in Chain(m)
  BY DEF Held, Links, Null
<1>2. next[k] \in Chain(m) \cup {Null}
  BY <1>1, ChainNext
<1>. QED
  BY <1>2 DEF Held

LEMMA HeldWithin ==
  ASSUME TypeOK, NEW x, Held(x)
  PROVE  /\ x \in Links \cup {Null}
         /\ \A k \in From(next, x) : \E m \in Maps : k \in Chain(m)
<1>1. CASE x = Null
  BY <1>1, Pointing, FromNull
<1>2. CASE x # Null
  <2>1. PICK m \in Maps : x \in Chain(m)
    BY <1>2 DEF Held
  <2>2. x \in Links /\ From(next, x) \subseteq Chain(m)
    BY <2>1, Pointing, FromWithin DEF Chain, From
  <2>. QED
    BY <2>1, <2>2
<1>. QED
  BY <1>1, <1>2

LEMMA AheadNext ==
  ASSUME TypeOK, NEW k \in Links, NEW p \in Players, p \in Ahead(k), payload[k] # p
  PROVE  p \in Ahead(next[k])
<1>1. PICK j \in From(next, k) : payload[j] = p
  BY DEF Ahead
<1>2. j \in From(next, next[k])
  BY <1>1, Pointing, FromNext
<1>. QED
  BY <1>1, <1>2 DEF Ahead

LEMMA AheadNull ==
  ASSUME TypeOK
  PROVE  Ahead(Null) = {}
  BY Pointing, FromNull DEF Ahead

LEMMA AheadHead ==
  ASSUME TypeOK, Listing, NEW p \in Players, InList(p), NEW m, m = map[p]
  PROVE  p \in Ahead(head[m])
<1>1. PICK k \in Chain(m) : payload[k] = p
  BY HasLink
<1>. QED
  BY <1>1 DEF Ahead, Chain

----------------------------------------------------------------------------

(* A step of p that leaves the lists and the maps as they are.              *)
LEMMA SoundKept ==
  ASSUME TypeOK, Sound, NEW p \in Players, UNCHANGED <<head, next, payload, map>>,
         \A q \in Players \ {p} :
            pc'[q] = pc[q] /\ job'[q] = job[q] /\ cur'[q] = cur[q] /\ prev'[q] = prev[q]
            /\ nxt'[q] = nxt[q],
         InList(p)' <=> InList(p), Removing(p)' => Held(cur'[p]) /\ Held(prev'[p]), Changing(p)'
  PROVE  Sound'
<1>1. \A m \in Maps : Chain(m)' = Chain(m)
  BY DEF Chain, From, Closed
<1>2. \A q \in Players : InList(q)' <=> InList(q)
  BY DEF InList
<1>3. Listing'
  BY <1>1, <1>2 DEF Sound, Listing
<1>4. Linear'
  BY DEF Sound, Linear, OneWay, From, Closed
<1>5. \A q \in Players : Removing(q)' => Held(cur[q])' /\ Held(prev[q])'
  <2>1. \A l : Held(l) => l = Null \/ \E m \in Maps : l \in Chain(m)'
    BY <1>1 DEF Held
  <2>2. \A q \in Players \ {p} : Removing(q)' => Removing(q)
    BY DEF Removing
  <2>3. \A q \in Players : Removing(q)' => Held(cur'[q]) /\ Held(prev'[q])
    BY <2>2 DEF Sound
  <2>. QED
    BY <2>1, <2>3 DEF Held
<1>6. ASSUME NEW q \in Players, q # p PROVE Changing(q)'
  <2>1. Changing(q) /\ Own(q)' = Own(q)
    BY DEF Sound, Own
  <2>2. Ahead(cur[q])' = Ahead(cur[q])
    BY <1>6 DEF Ahead, From, Closed
  <2>. QED
    BY <1>6, <2>1, <2>2 DEF Changing
<1>. QED
  BY <1>3, <1>4, <1>5, <1>6 DEF Sound

(* What an unlinking that is not torn does.                                 *)
LEMMA UnlinkCuts ==
  ASSUME IInv, Sound, NEW p \in Players, Unlink(p), ~Torn(p), NEW m, m = map[p]
  PROVE  /\ m \in Maps /\ cur[p] \in Chain(m) /\ payload[cur[p]] = p /\ job[p] = "portal"
         /\ Skips(next, next', head[m], cur[p])
         /\ head'[m] = IF head[m] = cur[p] THEN next[cur[p]] ELSE head[m]
         /\ \A n \in Maps \ {m} :
               head'[n] = head[n] /\ \A k \in Chain(n) : next'[k] = next[k]
<1>. DEFINE c == cur[p]
<1>. DEFINE r == prev[p]
<1>0. TypeOK /\ Listing /\ Linear /\ Held(c) /\ Held(r)
  BY DEF IInv, Sound, Removing, Unlink, At
<1>1. c \in Links /\ c # Null /\ payload[c] = p /\ job[p] = "portal" /\ m \in Maps
  BY <1>0, Pointing DEF IInv, OwnInHand, Own, Unlink, At, Links, Null, Sound, Changing
<1>2. c \in Chain(m)
  BY <1>0, <1>1, Members DEF Held
<1>3. next[c] = nxt[p]
  BY DEF Torn
<1>4. OneWay(next, head[m]) /\ next[c] # c
  BY <1>0, <1>1, <1>2, Pointing, NotItself DEF Linear, Chain
<1>5. CASE r = Null
  <2>1. head[m] = c /\ head' = [head EXCEPT ![m] = next[c]] /\ next' = [next EXCEPT ![c] = Null]
    BY <1>3, <1>5 DEF Torn, Unlink, Relink
  <2>2. \A n \in Maps \ {m} : head'[n] = head[n]
    BY <2>1, <1>0 DEF TypeOK
  <2>3. head'[m] = next[c]
    BY <2>1, <1>0, <1>1 DEF TypeOK
  <2>4. \A n \in Maps \ {m} : \A k \in Chain(n) : next'[k] = next[k]
    <3>1. \A n \in Maps \ {m} : c \notin Chain(n)
      BY <1>0, <1>1, <1>2, ChainsApart
    <3>. QED
      BY <2>1, <3>1, <1>0, Members DEF TypeOK
  <2>5. \A k \in Chain(m) \ {c} : next'[k] = next[k] /\ next[k] # c
    BY <2>1, <1>0, <1>1, <1>4, Members DEF TypeOK, OneWay, Chain
  <2>. QED
    BY <1>1, <1>2, <2>1, <2>2, <2>3, <2>4, <2>5 DEF Skips, Chain
<1>6. CASE r # Null
  <2>1. next[r] = c /\ head' = head /\ next' = [next EXCEPT ![r] = next[c], ![c] = Null]
    BY <1>3, <1>6 DEF Torn, Unlink, Relink
  <2>2. r \in Chain(m)
    <3>1. PICK n \in Maps : r \in Chain(n)
      BY <1>0, <1>6 DEF Held
    <3>2. c \in Chain(n)
      BY <2>1, <3>1, <1>0, <1>1, ChainNext
    <3>. QED
      BY <3>1, <3>2, <1>0, <1>1, <1>2, ChainsApart
  <2>3. r # c /\ head[m] # c
    BY <2>1, <2>2, <1>4 DEF OneWay, Chain
  <2>4. \A n \in Maps \ {m} : \A k \in Chain(n) : next'[k] = next[k]
    <3>1. \A n \in Maps \ {m} : c \notin Chain(n) /\ r \notin Chain(n)
      BY <1>0, <1>1, <1>2, <2>2, ChainsApart
    <3>. QED
      BY <2>1, <3>1, <1>0, Members DEF TypeOK
  <2>5. ASSUME NEW k \in Chain(m) \ {c}
        PROVE  next'[k] = IF next[k] = c THEN next[c] ELSE next[k]
    <3>1. k \in Links
      BY <1>0, <1>1, Members
    <3>2. CASE k = r
      <4>1. next'[r] = next[c]
        BY <2>1, <2>3, <3>1, <3>2, <1>0 DEF TypeOK
      <4>. QED
        BY <4>1, <3>2, <2>1
    <3>3. CASE k # r
      <4>1. next[k] # c
        BY <2>1, <2>2, <3>3, <1>1, <1>4 DEF OneWay, Chain
      <4>2. next'[k] = next[k]
        BY <2>1, <3>1, <3>3, <1>0 DEF TypeOK
      <4>. QED
        BY <4>1, <4>2
    <3>. QED
      BY <3>2, <3>3
  <2>6. Skips(next, next', head[m], c)
    BY <2>5 DEF Skips, Chain
  <2>. QED
    BY <1>1, <1>2, <2>1, <2>3, <2>4, <2>6
<1>. QED
  BY <1>5, <1>6

LEMMA UnlinkChains ==
  ASSUME IInv, Sound, NEW p \in Players, Unlink(p), ~Torn(p), NEW m, m = map[p]
  PROVE  /\ Chain(m)' = Chain(m) \ {cur[p]} /\ OneWay(next', head'[m])
         /\ \A n \in Maps \ {m} : Chain(n)' = Chain(n) /\ OneWay(next', head'[n])
<1>. DEFINE c == cur[p]
<1>0. TypeOK /\ Listing /\ Linear /\ next \in Pointers
  BY Pointing DEF IInv, Sound
<1>1. next' \in Pointers
  BY UnlinkType, Pointing DEF Pointers, TypeOK
<1>2. m \in Maps /\ c \in From(next, head[m]) /\ OneWay(next, head[m]) /\ head[m] \in Links \cup {Null}
  BY <1>0, UnlinkCuts, Pointing DEF Chain, Linear
<1>4. From(next', head'[m]) = From(next, head[m]) \ {c} /\ OneWay(next', head'[m])
  <2>1. Skips(next, next', head[m], c) /\ head'[m] = IF head[m] = c THEN next[c] ELSE head[m]
    BY UnlinkCuts
  <2>. HIDE DEF c
  <2>. QED
    BY <1>0, <1>1, <1>2, <2>1, Cut
<1>5. ASSUME NEW n \in Maps \ {m}
      PROVE  From(next', head'[n]) = From(next, head[n]) /\ OneWay(next', head'[n])
  <2>1. head'[n] = head[n] /\ \A k \in From(next, head[n]) : next'[k] = next[k]
    BY UnlinkCuts DEF Chain
  <2>2. head[n] \in Links \cup {Null} /\ OneWay(next, head[n])
    BY <1>0, Pointing DEF Linear
  <2>3. From(next', head[n]) = From(next, head[n])
    BY <1>0, <1>1, <2>1, <2>2, FromKept
  <2>4. OneWay(next', head[n])
    BY <2>1, <2>2, <2>3 DEF OneWay
  <2>. QED
    BY <2>1, <2>3, <2>4
<1>6. \A n : Chain(n)' = From(next', head'[n])
  BY DEF Chain, From, Closed
<1>7. \A n : Chain(n) = From(next, head[n])
  BY DEF Chain
<1>. QED
  BY <1>4, <1>5, <1>6, <1>7

(* Another thread that holds a link has after it all it had, but for p's.   *)
LEMMA UnlinkAhead ==
  ASSUME IInv, Sound, NEW p \in Players, Unlink(p), ~Torn(p),
         NEW x, Held(x), x # cur[p], NEW q \in Players \ {p}, q \in Ahead(x)
  PROVE  Held(x)' /\ q \in Ahead(x)'
<1>. PICK m : m = map[p]
  OBVIOUS
<1>. DEFINE c == cur[p]
<1>0. TypeOK /\ Listing /\ Linear /\ next \in Pointers
  BY Pointing DEF IInv, Sound
<1>1. next' \in Pointers
  BY UnlinkType, Pointing DEF Pointers, TypeOK
<1>2. m \in Maps /\ c \in From(next, head[m]) /\ OneWay(next, head[m]) /\ head[m] \in Links \cup {Null}
      /\ Skips(next, next', head[m], c) /\ payload[c] = p /\ c \in Links
  BY <1>0, UnlinkCuts, Pointing, Members DEF Chain, Linear
<1>3. PICK k \in From(next, x) : payload[k] = q
  BY DEF Ahead
<1>4. PICK n \in Maps : x \in Chain(n)
  BY <1>0, <1>3, FromNull DEF Held
<1>5. Held(x)'
  <2>1. CASE n = m
    BY <1>4, <2>1, UnlinkChains DEF Held
  <2>2. CASE n # m
    BY <1>4, <2>2, UnlinkChains DEF Held
  <2>. QED
    BY <2>1, <2>2
<1>6. k \in From(next', x)
  <2>1. CASE n = m
    <3>1. x \in From(next, head[m]) \ {c} /\ k # c
      BY <1>2, <1>3, <1>4, <2>1 DEF Chain
    <3>. HIDE DEF c
    <3>2. From(next, x) \ {c} \subseteq From(next', x)
      BY <1>0, <1>1, <1>2, <3>1, CutAfter
    <3>. QED
      BY <1>3, <3>1, <3>2
  <2>2. CASE n # m
    <3>1. x \in Links /\ From(next, x) \subseteq Chain(n)
      BY <1>0, <1>4, Pointing, FromWithin DEF Chain, From
    <3>2. \A j \in From(next, x) : next'[j] = next[j]
      BY <2>2, <3>1, UnlinkCuts
    <3>. QED
      BY <1>0, <1>1, <1>3, <3>1, <3>2, FromKept
  <2>. QED
    BY <2>1, <2>2
<1>7. payload'[k] = q
  <2>1. payload' = [payload EXCEPT ![c] = NoOne] /\ k # c /\ k \in Links
    BY <1>2, <1>3, HeldWithin DEF Unlink, From
  <2>. QED
    BY <1>0, <1>3, <2>1 DEF TypeOK
<1>. QED
  BY <1>5, <1>6, <1>7 DEF Ahead, From, Closed

LEMMA UnlinkHeld ==
  ASSUME IInv, Sound, NEW p \in Players, Unlink(p), ~Torn(p), NEW x, Held(x), x # cur[p]
  PROVE  Held(x)'
<1>1. PICK m : m = map[p]
  OBVIOUS
<1>2. CASE x = Null
  BY <1>2 DEF Held
<1>3. CASE x # Null
  <2>1. PICK n \in Maps : x \in Chain(n)
    BY <1>3 DEF Held
  <2>2. CASE n = m
    BY <1>1, <2>1, <2>2, UnlinkChains DEF Held
  <2>3. CASE n # m
    BY <1>1, <2>1, <2>3, UnlinkChains DEF Held
  <2>. QED
    BY <2>2, <2>3
<1>. QED
  BY <1>2, <1>3

LEMMA UnlinkListing ==
  ASSUME IInv, Sound, NEW p \in Players, Unlink(p), ~Torn(p)
  PROVE  Listing'
<1>. DEFINE c == cur[p]
<1>1. PICK m : m = map[p]
  OBVIOUS
<1>2. TypeOK /\ Listing /\ m \in Maps /\ c \in Chain(m) /\ payload[c] = p /\ job[p] = "portal"
  BY <1>1, UnlinkCuts DEF IInv, Sound
<1>3. payload' = [payload EXCEPT ![c] = NoOne] /\ map' = map /\ job' = job
      /\ pc' = [pc EXCEPT ![p] = "leave0"]
  BY DEF Unlink, Go, call
<1>4. \A q \in Players : InList(q)' <=> q # p /\ InList(q)
  BY <1>2, <1>3 DEF InList, TypeOK
<1>5. \A n \in Maps : Chain(n)' = Chain(n) \ {c}
  <2>1. \A n \in Maps \ {m} : c \notin Chain(n)
    BY <1>2, ChainsApart
  <2>. QED
    BY <1>1, <2>1, UnlinkChains
<1>6. ASSUME NEW n \in Maps, NEW k \in Chain(n) \ {c} PROVE payload'[k] = payload[k] /\ payload[k] # p
  <2>1. payload'[k] = payload[k]
    BY <1>2, <1>3, <1>6, Members DEF TypeOK
  <2>2. ASSUME payload[k] = p PROVE FALSE
    <3>1. n = m
      BY <1>1, <1>2, <1>6, <2>2, Members
    <3>. QED
      BY <1>2, <2>2, <3>1 DEF Listing
  <2>. QED
    BY <2>1, <2>2
<1>7. ASSUME NEW n \in Maps
      PROVE  /\ {payload'[l] : l \in Chain(n)'} = {q \in Players : map'[q] = n /\ InList(q)'}
             /\ \A k, l \in Chain(n)' : payload'[k] = payload'[l] => k = l
  <2>1. {payload[l] : l \in Chain(n)} = {q \in Players : map[q] = n /\ InList(q)}
        /\ \A k, l \in Chain(n) : payload[k] = payload[l] => k = l
    BY <1>2 DEF Listing
  <2>2. {payload'[l] : l \in Chain(n)'} = {payload[l] : l \in Chain(n) \ {c}}
    BY <1>5, <1>6
  <2>3. {payload[l] : l \in Chain(n) \ {c}} = {payload[l] : l \in Chain(n)} \ {p}
    BY <1>2, <1>6
  <2>4. {q \in Players : map'[q] = n /\ InList(q)'} = {q \in Players : map[q] = n /\ InList(q)} \ {p}
    BY <1>3, <1>4
  <2>5. \A k, l \in Chain(n)' : payload'[k] = payload'[l] => k = l
    BY <1>5, <1>6, <2>1
  <2>. QED
    BY <2>1, <2>2, <2>3, <2>4, <2>5
<1>. QED
  BY <1>7 DEF Listing

LEMMA UnlinkSound ==
  ASSUME IInv, Sound, NEW p \in Players, Unlink(p), ~Torn(p)
  PROVE  Sound'
<1>1. PICK m : m = map[p]
  OBVIOUS
<1>2. pc' = [pc EXCEPT ![p] = "leave0"] /\ cur' = [cur EXCEPT ![p] = Null]
      /\ prev' = [prev EXCEPT ![p] = Null] /\ nxt' = [nxt EXCEPT ![p] = Null] /\ job' = job
  BY DEF Unlink, Go, call
<1>3. TypeOK /\ payload[cur[p]] = p /\ job[p] = "portal" /\ cur[p] \in Links
  BY <1>1, UnlinkCuts DEF IInv, TypeOK, Unlink, At, OwnInHand, Own
<1>4. Linear'
  <2>1. \A n \in Maps : OneWay(next', head'[n])
    BY <1>1, UnlinkChains
  <2>. QED
    BY <2>1 DEF Linear, OneWay, From, Closed
<1>5. ASSUME NEW q \in Players, Removing(q)' PROVE Held(cur[q])' /\ Held(prev[q])'
  <2>1. q # p
    BY <1>2, <1>3, <1>5 DEF Removing, TypeOK
  <2>2. CASE q # p
    <3>2. cur'[q] = cur[q] /\ prev'[q] = prev[q] /\ pc'[q] = pc[q]
      BY <1>2, <1>3, <2>2 DEF TypeOK
    <3>1. cur[q] # cur[p] /\ prev[q] # cur[p] /\ Held(cur[q]) /\ Held(prev[q])
      BY <1>5, <2>2, <3>2 DEF Torn, Sound, Removing
    <3>3. \A x : Held(x) /\ x # cur[p] => Held(x)'
      BY UnlinkHeld
    <3>. QED
      BY <3>1, <3>2, <3>3 DEF Held
  <2>. QED
    BY <2>1, <2>2
<1>6. ASSUME NEW q \in Players PROVE Changing(q)'
  <2>1. CASE q = p
    BY <1>2, <1>3, <2>1 DEF Changing, TypeOK
  <2>2. CASE q # p
    <3>1. pc'[q] = pc[q] /\ job'[q] = job[q] /\ nxt'[q] = nxt[q] /\ cur'[q] = cur[q]
      BY <1>2, <1>3, <2>2 DEF TypeOK
    <3>2. Own(q)' = Own(q)
      BY <1>3, <2>2, RosterAssumption DEF Unlink, Own, TypeOK
    <3>3. Changing(q) /\ (pc[q] = "find" => cur[q] # cur[p] /\ Held(cur[q]))
      BY <2>2 DEF Torn, Sound, Removing
    <3>4. ASSUME q \in Ahead(cur[q]), pc[q] = "find" PROVE q \in Ahead(cur[q])'
      <4>1. PICK x : x = cur[q]
        OBVIOUS
      <4>2. q \in Ahead(x)'
        BY <2>2, <3>3, <3>4, <4>1, UnlinkAhead
      <4>. QED
        BY <3>1, <4>1, <4>2 DEF Ahead
    <3>. QED
      BY <3>1, <3>2, <3>3, <3>4 DEF Changing
  <2>. QED
    BY <2>1, <2>2
<1>. QED
  BY <1>4, <1>5, <1>6, UnlinkListing DEF Sound

(* A new link is in no list yet.                                            *)
LEMMA AddAside ==
  ASSUME IInv, Sound, NEW p \in Players, Add(p), NEW x, Held(x)
  PROVE  From(next', x) = From(next, x) /\ \A k \in From(next, x) : payload'[k] = payload[k]
<1>0. TypeOK /\ Listing /\ next \in Pointers /\ next' \in Pointers
  BY Pointing, AddType DEF IInv, Sound, TypeOK, Pointers
<1>1. PICK l \in Links : payload[l] = NoOne /\ payload' = [payload EXCEPT ![l] = p]
                         /\ next' = [next EXCEPT ![l] = head[to[p]]]
  BY DEF Add
<1>2. l \notin From(next, x)
  BY <1>0, <1>1, HeldWithin, Members, RosterAssumption
<1>3. \A k \in From(next, x) : next'[k] = next[k] /\ payload'[k] = payload[k]
  BY <1>0, <1>1, <1>2 DEF TypeOK, From
<1>. QED
  BY <1>0, <1>3, HeldWithin, FromKept

LEMMA AddChains ==
  ASSUME IInv, Sound, NEW p \in Players, Add(p)
  PROVE  \A m \in Maps : Chain(m)' = Chain(m) /\ \A k \in Chain(m) : payload'[k] = payload[k]
                                                                   /\ next'[k] = next[k]
<1>1. TypeOK /\ Listing /\ head' = head
  BY DEF IInv, Sound, Add
<1>2. ASSUME NEW m \in Maps
      PROVE  /\ From(next', head'[m]) = From(next, head[m])
             /\ \A k \in From(next, head[m]) : payload'[k] = payload[k] /\ next'[k] = next[k]
  <2>1. PICK x : x = head[m]
    OBVIOUS
  <2>2. Held(x)
    BY <1>1, <2>1, HeldHead
  <2>3. PICK l \in Links : payload[l] = NoOne /\ next' = [next EXCEPT ![l] = head[to[p]]]
    BY DEF Add
  <2>4. l \notin From(next, x)
    BY <1>1, <2>2, <2>3, HeldWithin, Members, RosterAssumption
  <2>5. \A k \in From(next, x) : next'[k] = next[k]
    BY <1>1, <2>3, <2>4 DEF TypeOK, From
  <2>. QED
    BY <1>1, <2>1, <2>2, <2>5, AddAside
<1>3. \A m : Chain(m)' = From(next', head'[m]) /\ Chain(m) = From(next, head[m])
  BY DEF Chain, From, Closed
<1>. QED
  BY <1>2, <1>3

LEMMA AddSound ==
  ASSUME IInv, Jobs, Sound, NEW p \in Players, Add(p)
  PROVE  Sound' /\ ~InList(p) /\ ~InList(p)'
<1>1. PICK l \in Links : payload[l] = NoOne /\ payload' = [payload EXCEPT ![l] = p]
                         /\ nxt' = [nxt EXCEPT ![p] = l]
  BY DEF Add
<1>2. pc' = [pc EXCEPT ![p] = "publish"] /\ prev' = [prev EXCEPT ![p] = Null]
      /\ UNCHANGED <<head, map, job, cur>> /\ TypeOK /\ Listing
  BY DEF Add, Go, call, IInv, Sound
<1>3. ~InList(p) /\ ~InList(p)' /\ job[p] # "walk"
  <2>1. CASE At(p, "find")
    <3>1. job[p] # "walk" /\ ~(job[p] = "portal")
      BY <1>2, <2>1, AheadNull DEF At, Jobs, Sound, Changing, Add
    <3>. QED
      BY <1>2, <2>1, <3>1 DEF InList, At, TypeOK
  <2>2. CASE At(p, "leave")
    <3>1. job[p] # "walk"
      BY <2>2 DEF At, Jobs
    <3>. QED
      BY <1>2, <2>2, <3>1 DEF InList, At, TypeOK
  <2>. QED
    BY <2>1, <2>2 DEF Add
<1>4. \A q \in Players : InList(q)' <=> InList(q)
  BY <1>2, <1>3 DEF InList, TypeOK
<1>5. Listing'
  <2>1. \A m \in Maps : {payload'[k] : k \in Chain(m)'} = {payload[k] : k \in Chain(m)}
    BY AddChains
  <2>2. \A m \in Maps : \A j, k \in Chain(m)' : payload'[j] = payload'[k] => j = k
    BY <1>2, AddChains DEF Listing
  <2>3. \A m \in Maps : {q \in Players : map'[q] = m /\ InList(q)'} = {q \in Players : map[q] = m /\ InList(q)}
    BY <1>2, <1>4
  <2>. QED
    BY <1>2, <2>1, <2>2, <2>3 DEF Listing
<1>6. Linear'
  <2>1. ASSUME NEW m \in Maps PROVE OneWay(next', head'[m])
    <3>1. OneWay(next, head[m]) /\ head' = head
      BY <1>2 DEF Sound, Linear
    <3>2. From(next', head'[m]) = From(next, head[m])
          /\ \A k \in From(next, head[m]) : next'[k] = next[k]
      BY AddChains DEF Chain, From, Closed
    <3>. QED
      BY <3>1, <3>2 DEF OneWay
  <2>. QED
    BY <2>1 DEF Linear, OneWay, From, Closed
<1>7. ASSUME NEW x, Held(x) PROVE Held(x)'
  BY <1>7, AddChains DEF Held
<1>8. ASSUME NEW q \in Players, Removing(q)' PROVE Held(cur[q])' /\ Held(prev[q])'
  <2>1. cur'[q] = cur[q] /\ (prev'[q] = prev[q] \/ prev'[q] = Null)
    BY <1>2 DEF TypeOK
  <2>2. Removing(q)
    BY <1>2, <1>8 DEF Removing, TypeOK
  <2>. QED
    BY <1>7, <2>1, <2>2 DEF Held, Sound
<1>9. ASSUME NEW q \in Players PROVE Changing(q)'
  <2>1. CASE q = p
    BY <1>1, <1>2, <2>1 DEF Changing, TypeOK, Own
  <2>2. CASE q # p
    <3>1. pc'[q] = pc[q] /\ job'[q] = job[q] /\ nxt'[q] = nxt[q] /\ cur'[q] = cur[q]
      BY <1>1, <1>2, <2>2 DEF TypeOK
    <3>2. Own(q)' = Own(q)
      BY <1>1, <1>2, <2>2, RosterAssumption DEF Own, TypeOK
    <3>3. Changing(q) /\ (pc[q] = "find" => Held(cur[q]))
      BY DEF Sound, Removing
    <3>4. ASSUME q \in Ahead(cur[q]), pc[q] = "find" PROVE q \in Ahead(cur[q])'
      <4>1. PICK x : x = cur[q]
        OBVIOUS
      <4>2. PICK k \in From(next, x) : payload[k] = q
        BY <3>4, <4>1 DEF Ahead
      <4>3. k \in From(next', x) /\ payload'[k] = q
        BY <3>3, <3>4, <4>1, <4>2, AddAside
      <4>. QED
        BY <3>1, <4>1, <4>3 DEF Ahead, From, Closed
    <3>. QED
      BY <3>1, <3>2, <3>3, <3>4 DEF Changing
  <2>. QED
    BY <2>1, <2>2
<1>. QED
  BY <1>3, <1>5, <1>6, <1>8, <1>9 DEF Sound

(* Publishing puts the new link before the others of its map.               *)
LEMMA PublishSound ==
  ASSUME IInv, Jobs, Sound, NEW p \in Players, Publish(p), head[to[p]] = next[nxt[p]]
  PROVE  Sound' /\ ~InList(p) /\ InList(p)' /\ \A x : Held(x) => Held(x)'
<1>. DEFINE l == nxt[p]
<1>1. PICK m : m = to[p]
  OBVIOUS
<1>2. /\ head' = [head EXCEPT ![m] = l] /\ map' = [map EXCEPT ![p] = m]
      /\ nxt' = [nxt EXCEPT ![p] = Null] /\ pc' = [pc EXCEPT ![p] = "set"]
      /\ UNCHANGED <<next, payload, job, cur, prev>> /\ pc[p] = "publish"
      /\ TypeOK /\ Listing /\ Linear /\ m \in Maps
  BY <1>1 DEF Publish, Go, list, player, call, IInv, Sound, At, TypeOK
<1>3. l \in Links /\ payload[l] = p /\ job[p] # "walk"
  BY <1>2 DEF Sound, Changing, Own, Jobs
<1>4. ~InList(p) /\ InList(p)' /\ \A q \in Players : InList(q)' <=> (q = p \/ InList(q))
  BY <1>2, <1>3 DEF InList, TypeOK
<1>5. \A n \in Maps : l \notin Chain(n)
  BY <1>2, <1>3, <1>4, Members
<1>6. Chain(m)' = Chain(m) \cup {l} /\ OneWay(next', head'[m])
  <2>1. OneWay(next, head[m]) /\ next \in Pointers /\ head[m] \in Links \cup {Null}
        /\ next[l] = head[m] /\ l \notin From(next, head[m])
    BY <1>1, <1>2, <1>5, Pointing DEF Linear, Chain
  <2>2. From(next, l) = From(next, head[m]) \cup {l} /\ OneWay(next, l)
    BY <1>3, <2>1, Push
  <2>3. head'[m] = l /\ next' = next
    BY <1>2 DEF TypeOK
  <2>. QED
    BY <2>2, <2>3 DEF Chain, From, Closed
<1>7. \A n \in Maps \ {m} : Chain(n)' = Chain(n) /\ OneWay(next', head'[n])
  <2>1. \A n \in Maps \ {m} : head'[n] = head[n] /\ next' = next
    BY <1>2 DEF TypeOK
  <2>. QED
    BY <1>2, <2>1 DEF Chain, From, Closed, Linear
<1>8. Listing'
  <2>1. \A n \in Maps : Chain(n) \subseteq Chain(n)' /\ Chain(n)' \subseteq Chain(n) \cup {l}
                        /\ (l \in Chain(n)' <=> n = m)
    BY <1>5, <1>6, <1>7
  <2>2. ASSUME NEW n \in Maps, NEW j \in Chain(n)', NEW k \in Chain(n)', payload'[j] = payload'[k]
        PROVE  j = k
    <3>1. CASE j # l /\ k # l
      BY <1>2, <2>1, <2>2, <3>1 DEF Listing
    <3>2. \A i \in Chain(n) : payload[i] # p
      BY <1>2, <1>4, Members
    <3>. QED
      BY <1>2, <1>3, <2>1, <2>2, <3>1, <3>2
  <2>3. ASSUME NEW n \in Maps
        PROVE  {payload'[k] : k \in Chain(n)'} = {q \in Players : map'[q] = n /\ InList(q)'}
    <3>1. {payload[k] : k \in Chain(n)} = {q \in Players : map[q] = n /\ InList(q)}
      BY <1>2 DEF Listing
    <3>2. map'[p] = m /\ \A q \in Players \ {p} : map'[q] = map[q]
      BY <1>2 DEF TypeOK
    <3>3. CASE n = m
      <4>1. {q \in Players : map'[q] = n /\ InList(q)'} = {q \in Players : map[q] = n /\ InList(q)} \cup {p}
        BY <1>4, <3>2, <3>3
      <4>2. {payload'[k] : k \in Chain(n)'} = {payload[k] : k \in Chain(n)} \cup {p}
        BY <1>2, <1>3, <1>6, <3>3
      <4>. QED
        BY <3>1, <4>1, <4>2
    <3>4. CASE n # m
      <4>1. {q \in Players : map'[q] = n /\ InList(q)'} = {q \in Players : map[q] = n /\ InList(q)}
        BY <1>4, <3>2, <3>4
      <4>2. {payload'[k] : k \in Chain(n)'} = {payload[k] : k \in Chain(n)}
        BY <1>2, <1>7, <3>4
      <4>. QED
        BY <3>1, <4>1, <4>2
    <3>. QED
      BY <3>3, <3>4
  <2>. QED
    BY <2>2, <2>3 DEF Listing
<1>9. Linear'
  <2>1. \A n \in Maps : OneWay(next', head'[n])
    BY <1>6, <1>7
  <2>. QED
    BY <2>1 DEF Linear, OneWay, From, Closed
<1>10. \A x : Held(x) => Held(x)'
  BY <1>6, <1>7 DEF Held
<1>11. ASSUME NEW q \in Players, Removing(q)' PROVE Held(cur[q])' /\ Held(prev[q])'
  <2>1. Removing(q)
    BY <1>2, <1>11 DEF Removing, TypeOK
  <2>. QED
    BY <1>2, <1>10, <2>1 DEF Held, Sound
<1>12. ASSUME NEW q \in Players PROVE Changing(q)'
  <2>1. CASE q = p
    BY <1>2, <2>1 DEF Changing, TypeOK
  <2>2. CASE q # p
    <3>1. pc'[q] = pc[q] /\ job'[q] = job[q] /\ nxt'[q] = nxt[q] /\ cur'[q] = cur[q]
      BY <1>2, <2>2 DEF TypeOK
    <3>2. Own(q)' = Own(q) /\ Ahead(cur[q])' = Ahead(cur[q])
      BY <1>2, <3>1 DEF Own, Ahead, From, Closed
    <3>. QED
      BY <3>1, <3>2 DEF Changing, Sound
  <2>. QED
    BY <2>1, <2>2
<1>. QED
  BY <1>4, <1>8, <1>9, <1>10, <1>11, <1>12 DEF Sound

----------------------------------------------------------------------------

(* The steps that leave the lists as they are.                              *)

Reading(p) ==
    \/ Login(p) \/ Walk(p) \/ FindOther(p) \/ FindSelf(p) \/ Leave(p)
    \/ Begin(p, "leave0", "leave") \/ Begin(p, "announce0", "announce")
    \/ \E x \in Positions : SetPos(p, x)
    \/ \E m \in Maps : ChangeMap(p, m)
    \/ Announce(p) \/ AnnounceDone(p)
    \/ SnapRead(p) \/ SnapWrite(p) \/ SnapDone(p)

LEMMA NextCases ==
  ASSUME [Next]_vars
  PROVE  \/ \E p \in Players : Reading(p) \/ Unlink(p) \/ Add(p) \/ Publish(p) \/ UseFreed(p)
         \/ UNCHANGED vars
  BY DEF Next, Step, Reading

LEMMA ReadingFrame ==
  ASSUME TypeOK, NEW p \in Players, Reading(p)
  PROVE  /\ UNCHANGED <<head, next, payload, map, raced>>
         /\ \A q \in Players \ {p} :
               pc'[q] = pc[q] /\ job'[q] = job[q] /\ cur'[q] = cur[q] /\ prev'[q] = prev[q]
               /\ nxt'[q] = nxt[q] /\ who'[q] = who[q] /\ seen'[q] = seen[q] /\ pos'[q] = pos[q]
<1>. USE DEF TypeOK, Go, list, player, call, regs, snap, history, Advance, Handle
<1>1. CASE Login(p)
  BY <1>1 DEF Login, Enter
<1>2. CASE Walk(p) \/ FindOther(p) \/ FindSelf(p)
  BY <1>2 DEF Walk, FindOther, FindSelf
<1>3. CASE Leave(p) \/ Begin(p, "leave0", "leave") \/ Begin(p, "announce0", "announce")
  BY <1>3 DEF Leave, Begin
<1>4. CASE \E x \in Positions : SetPos(p, x)
  BY <1>4 DEF SetPos
<1>5. CASE \E m \in Maps : ChangeMap(p, m)
  BY <1>5 DEF ChangeMap, Enter
<1>6. CASE Announce(p) \/ AnnounceDone(p)
  BY <1>6 DEF Announce, AnnounceDone
<1>7. CASE SnapRead(p) \/ SnapWrite(p) \/ SnapDone(p)
  BY <1>7 DEF SnapRead, SnapWrite, SnapDone
<1>. HIDE DEF TypeOK, Go, list, player, call, regs, snap, history, Advance, Handle
<1>. QED
  BY <1>1, <1>2, <1>3, <1>4, <1>5, <1>6, <1>7 DEF Reading

(* Where p's thread may go.                                                 *)
LEMMA ReadingMoves ==
  ASSUME TypeOK, Jobs, NEW p \in Players, Reading(p)
  PROVE  \/ pc[p] = "offline" /\ pc'[p] = "find" /\ job'[p] = "spawn"
         \/ pc[p] = "event" /\ pc'[p] = "find" /\ job'[p] = "portal" /\ job[p] = "walk"
         \/ pc[p] = "snap_read" /\ pc'[p] \in {"idle", "announce0"} /\ job'[p] = "walk"
            /\ (pc'[p] = "announce0" <=> job[p] = "portal")
         \/ /\ job'[p] = job[p]
            /\ <<pc[p], pc'[p]>> \in {<<"idle", "set">>, <<"find", "find">>, <<"find", "unlink">>,
                  <<"leave0", "leave">>, <<"leave", "leave">>, <<"set", "announce0">>,
                  <<"announce0", "announce">>, <<"announce", "announce">>,
                  <<"snap_read", "snap_read">>, <<"snap_read", "snap_write">>,
                  <<"snap_write", "snap_read">>}
         \/ /\ job'[p] = job[p] /\ job[p] = "walk"
            /\ <<pc[p], pc'[p]>> \in {<<"set", "event">>, <<"announce", "idle">>}
         \/ job'[p] = job[p] /\ job[p] # "walk" /\ pc[p] = "announce" /\ pc'[p] = "snap_read"
<1>. USE DEF TypeOK, Go, call, At
<1>1. CASE Login(p)
  BY <1>1 DEF Login, Enter
<1>2. CASE Walk(p) \/ FindOther(p) \/ FindSelf(p)
  BY <1>2 DEF Walk, FindOther, FindSelf
<1>3. CASE Leave(p) \/ Begin(p, "leave0", "leave") \/ Begin(p, "announce0", "announce")
  BY <1>3 DEF Leave, Begin
<1>4. CASE \E x \in Positions : SetPos(p, x)
  <2>1. pc[p] = "set" /\ job' = job /\ ((job[p] = "walk" /\ pc'[p] = "event") \/ pc'[p] = "announce0")
    BY <1>4 DEF SetPos
  <2>. QED
    BY <2>1
<1>5. CASE \E m \in Maps : ChangeMap(p, m)
  <2>1. pc[p] = "event" /\ pc'[p] = "find" /\ job'[p] = "portal"
    BY <1>5 DEF ChangeMap, Enter
  <2>2. job[p] = "walk"
    BY <2>1 DEF Jobs
  <2>. QED
    BY <2>1, <2>2
<1>6. CASE Announce(p)
  BY <1>6 DEF Announce
<1>7. CASE AnnounceDone(p)
  BY <1>7 DEF AnnounceDone
<1>8. CASE SnapRead(p)
  <2>1. pc[p] = "snap_read" /\ job' = job /\ (pc' = pc \/ pc' = [pc EXCEPT ![p] = "snap_write"])
    BY <1>8 DEF SnapRead
  <2>. QED
    BY <2>1
<1>9. CASE SnapWrite(p)
  BY <1>9 DEF SnapWrite
<1>10. CASE SnapDone(p)
  <2>1. pc[p] = "snap_read" /\ job'[p] = "walk"
        /\ pc'[p] = IF job[p] = "portal" THEN "announce0" ELSE "idle"
    BY <1>10 DEF SnapDone
  <2>. QED
    BY <2>1
<1>. HIDE DEF TypeOK, Go, call, At
<1>. QED
  BY <1>1, <1>2, <1>3, <1>4, <1>5, <1>6, <1>7, <1>8, <1>9, <1>10 DEF Reading

LEMMA ReadingJobs ==
  ASSUME TypeOK, Jobs, NEW p \in Players, Reading(p)
  PROVE  Jobs'
<1>1. \A q \in Players \ {p} : pc'[q] = pc[q] /\ job'[q] = job[q]
  BY ReadingFrame
<1>2. /\ pc'[p] \in {"find", "unlink", "leave0", "leave", "publish", "snap_read", "snap_write"}
            => job'[p] # "walk"
      /\ pc'[p] \in {"offline", "idle", "event"} => job'[p] = "walk"
  BY ReadingMoves DEF Jobs
<1>. QED
  BY <1>1, <1>2 DEF Jobs

LEMMA WritingJobs ==
  ASSUME IInv, Jobs, NEW p \in Players, Unlink(p) \/ Add(p) \/ Publish(p)
  PROVE  Jobs'
<1>1. TypeOK /\ job' = job /\ (\A q \in Players \ {p} : pc'[q] = pc[q])
      /\ pc[p] \in {"unlink", "find", "leave", "publish"}
      /\ pc'[p] \in {"leave0", "publish", "set"}
  BY DEF IInv, TypeOK, Unlink, Add, Publish, Go, call, At
<1>2. job[p] # "walk"
  BY <1>1 DEF Jobs
<1>. QED
  BY <1>1, <1>2 DEF Jobs

LEMMA ReadingCur ==
  ASSUME TypeOK, NEW p \in Players, Reading(p)
  PROVE  /\ \/ cur'[p] = cur[p] \/ cur'[p] = head[map[p]]
            \/ cur[p] \in Links /\ cur'[p] = next[cur[p]]
         /\ prev'[p] \in {prev[p], cur[p], Null}
<1>. USE DEF TypeOK, call, regs, Advance, Live
<1>1. CASE Login(p)
  BY <1>1 DEF Login, Enter
<1>2. CASE Walk(p) \/ FindOther(p) \/ FindSelf(p)
  BY <1>2 DEF Walk, FindOther, FindSelf
<1>3. CASE Leave(p) \/ Begin(p, "leave0", "leave") \/ Begin(p, "announce0", "announce")
  BY <1>3 DEF Leave, Begin
<1>4. CASE \E x \in Positions : SetPos(p, x)
  BY <1>4 DEF SetPos
<1>5. CASE \E m \in Maps : ChangeMap(p, m)
  BY <1>5 DEF ChangeMap, Enter
<1>6. CASE Announce(p)
  BY <1>6 DEF Announce
<1>7. CASE AnnounceDone(p)
  <2>1. cur' = cur \/ cur' = [cur EXCEPT ![p] = head[map[p]]]
    BY <1>7 DEF AnnounceDone
  <2>2. prev' = prev
    BY <1>7 DEF AnnounceDone
  <2>. QED
    BY <2>1, <2>2
<1>8. CASE SnapRead(p)
  <2>1. (cur' = cur \/ cur' = [cur EXCEPT ![p] = next[cur[p]]]) /\ prev' = prev /\ cur[p] # Null
    BY <1>8 DEF SnapRead
  <2>. QED
    BY <2>1
<1>9. CASE SnapWrite(p)
  BY <1>9 DEF SnapWrite
<1>10. CASE SnapDone(p)
  BY <1>10 DEF SnapDone
<1>. HIDE DEF TypeOK, call, regs, Advance, Live
<1>. QED
  BY <1>1, <1>2, <1>3, <1>4, <1>5, <1>6, <1>7, <1>8, <1>9, <1>10 DEF Reading

LEMMA ReadingInList ==
  ASSUME TypeOK, Jobs, NEW p \in Players, Reading(p)
  PROVE  InList(p)' <=> InList(p)
<1>1. CASE pc[p] = "offline" \/ pc[p] = "event" \/ (pc[p] = "snap_read" /\ job'[p] = "walk")
  BY <1>1, ReadingMoves DEF InList, Jobs
<1>2. CASE job'[p] = job[p]
  <2>1. pc[p] \in {"find", "leave0", "leave", "snap_read", "snap_write"} => job[p] # "walk"
    BY DEF Jobs
  <2>2. pc[p] \in {"offline", "event"} => job[p] = "walk"
    BY DEF Jobs
  <2>3. \/ pc[p] = "find" /\ pc'[p] \in {"find", "unlink"}
        \/ pc[p] \in {"leave0", "leave"} /\ pc'[p] = "leave"
        \/ pc[p] \in {"idle", "announce"} /\ job[p] = "walk" /\ pc'[p] \in {"set", "idle"}
        \/ pc[p] = "set" /\ pc'[p] = "event" /\ job[p] = "walk"
        \/ pc[p] = "idle" /\ pc'[p] = "set"
        \/ pc[p] \in {"set", "announce0", "announce", "snap_read", "snap_write"}
           /\ pc'[p] \in {"announce0", "announce", "snap_read", "snap_write"}
    BY <1>2, <2>1, <2>2, ReadingMoves
  <2>4. pc[p] = "idle" => job[p] = "walk"
    BY DEF Jobs
  <2>. QED
    BY <1>2, <2>1, <2>3, <2>4 DEF InList
<1>. QED
  BY <1>1, <1>2, ReadingMoves

LEMMA ReadingChanging ==
  ASSUME TypeOK, Jobs, Sound, NEW p \in Players, Reading(p)
  PROVE  Changing(p)'
<1>0. Listing /\ (pc[p] = "find" => Held(cur[p])) /\ Changing(p) /\ UNCHANGED <<head, next, payload, map>>
  BY ReadingFrame DEF Sound, Removing
<1>1. ASSUME pc'[p] \in {"unlink", "leave0", "leave"} PROVE job'[p] = "portal"
  <2>1. CASE pc[p] = "find"
    <3>1. FindSelf(p)
      BY <1>1, <2>1 DEF Reading, Login, Walk, FindOther, Leave, Begin, SetPos, ChangeMap, Enter,
                        Announce, AnnounceDone, SnapRead, SnapWrite, SnapDone, At, Go
    <3>2. cur[p] # Null /\ payload[cur[p]] = p
      BY <3>1 DEF FindSelf, Live
    <3>3. InList(p) /\ job[p] # "walk"
      BY <1>0, <2>1, <3>2, Members DEF Held, Jobs
    <3>. QED
      BY <2>1, <3>3, ReadingMoves DEF InList
  <2>2. CASE pc[p] # "find"
    BY <1>0, <1>1, <2>2, ReadingMoves DEF Changing
  <2>. QED
    BY <2>1, <2>2
<1>2. pc'[p] # "publish"
  BY ReadingMoves
<1>3. ASSUME pc'[p] = "find", job'[p] = "portal" PROVE p \in Ahead(cur'[p])
  <2>1. CASE pc[p] = "event"
    <3>1. cur'[p] = head[map[p]]
      BY <2>1 DEF Reading, Login, Walk, FindOther, FindSelf, Leave, Begin, SetPos, ChangeMap, Enter,
                  Announce, AnnounceDone, SnapRead, SnapWrite, SnapDone, At, TypeOK
    <3>2. InList(p)
      BY <2>1 DEF InList, Jobs
    <3>. QED
      BY <1>0, <3>1, <3>2, AheadHead
  <2>2. CASE pc[p] # "event"
    <3>1. pc[p] = "find" /\ job[p] = "portal"
      BY <1>3, <2>2, ReadingMoves
    <3>2. FindOther(p)
      BY <1>3, <3>1 DEF Reading, Login, Walk, FindSelf, Leave, Begin, SetPos, ChangeMap, Enter,
                        Announce, AnnounceDone, SnapRead, SnapWrite, SnapDone, At, Go, TypeOK
    <3>3. cur'[p] = next[cur[p]] /\ payload[cur[p]] # p /\ cur[p] \in Links
      BY <3>2 DEF FindOther, TypeOK, Live
    <3>. QED
      BY <1>0, <3>1, <3>3, AheadNext DEF Changing
  <2>. QED
    BY <2>1, <2>2
<1>4. Ahead(cur[p])' = Ahead(cur'[p])
  BY <1>0 DEF Ahead, From, Closed
<1>. QED
  BY <1>1, <1>2, <1>3, <1>4 DEF Changing

LEMMA ReadingSound ==
  ASSUME TypeOK, Jobs, Sound, NEW p \in Players, Reading(p)
  PROVE  Sound'
<1>1. map[p] \in Maps
  BY DEF TypeOK
<1>2. ASSUME Removing(p)' PROVE Held(cur'[p]) /\ Held(prev'[p])
  <2>1. pc[p] \in {"offline", "event", "find"}
    BY <1>2, ReadingMoves DEF Removing
  <2>2. CASE pc[p] = "find"
    <3>1. Held(cur[p]) /\ Held(prev[p]) /\ Held(Null)
      BY <2>2 DEF Sound, Removing, Held
    <3>. QED
      BY <1>1, <3>1, ReadingCur, HeldHead, HeldNext
  <2>3. CASE pc[p] \in {"offline", "event"}
    <3>1. pc'[p] = "find"
      BY <1>2, <2>3, ReadingMoves DEF Removing
    <3>2. cur'[p] = head[map[p]] /\ prev'[p] = Null
      BY <2>3, <3>1 DEF Reading, Login, Walk, FindOther, FindSelf, Leave, Begin, SetPos, ChangeMap,
                        Enter, Announce, AnnounceDone, SnapRead, SnapWrite, SnapDone, At, Go, TypeOK
    <3>. QED
      BY <1>1, <3>2, HeldHead DEF Held
  <2>. QED
    BY <2>1, <2>2, <2>3
<1>. QED
  BY <1>2, ReadingFrame, ReadingInList, ReadingChanging, SoundKept

LEMMA SoundStutters ==
  ASSUME Sound, UNCHANGED <<list, map, pc, job, cur, prev, nxt>>
  PROVE  Sound'
<1>1. \A m : Chain(m)' = Chain(m)
  BY DEF Chain, From, Closed, list
<1>2. \A q : (InList(q)' <=> InList(q)) /\ Ahead(cur[q])' = Ahead(cur[q])
  BY DEF InList, Ahead, From, Closed, list
<1>3. \A q \in Players : (Removing(q)' => Held(cur[q])' /\ Held(prev[q])') /\ Changing(q)'
  <2>1. \A q \in Players : Changing(q)'
    BY <1>2 DEF Changing, Own, list, Sound
  <2>2. \A q \in Players : Removing(q)' => Held(cur[q])' /\ Held(prev[q])'
    BY <1>1 DEF Held, Sound, Removing
  <2>. QED
    BY <2>1, <2>2
<1>4. Listing'
  BY <1>1, <1>2 DEF Listing, Sound, list
<1>5. Linear'
  BY DEF Linear, OneWay, From, Closed, Sound, list
<1>. QED
  BY <1>3, <1>4, <1>5 DEF Sound

LEMMA ListInit == Init => ListInv
<1>. SUFFICES ASSUME Init PROVE Jobs /\ Sound
  BY DEF ListInv
<1>1. TypeOK
  BY InitInv DEF IInv
<1>2. Jobs /\ \A p \in Players : ~InList(p)
  BY DEF Init, Jobs, InList
<1>3. \A m \in Maps : Chain(m) = {}
  BY <1>1, Pointing, FromNull DEF Init, Chain
<1>4. Listing
  BY <1>2, <1>3 DEF Listing
<1>5. Linear
  BY <1>3 DEF Linear, OneWay, Chain
<1>6. \A p \in Players : (Removing(p) => Held(cur[p]) /\ Held(prev[p])) /\ Changing(p)
  BY DEF Init, Held, Changing
<1>. QED
  BY <1>2, <1>4, <1>5, <1>6 DEF Sound

LEMMA ListStep ==
  ASSUME IInv, ListInv, [Next]_vars
  PROVE  ListInv'
<1>0. TypeOK /\ Jobs
  BY DEF IInv, ListInv
<1>1. ASSUME NEW p \in Players, Reading(p) PROVE ListInv'
  <2>1. raced' = raced
    BY <1>0, <1>1, ReadingFrame
  <2>. QED
    BY <1>0, <1>1, <2>1, ReadingJobs, ReadingSound DEF ListInv
<1>2. ASSUME NEW p \in Players, Unlink(p) PROVE ListInv'
  <2>1. ~raced' => ~raced /\ ~Torn(p)
    BY <1>2 DEF Unlink
  <2>. QED
    BY <1>0, <1>2, <2>1, WritingJobs, UnlinkSound DEF ListInv
<1>3. ASSUME NEW p \in Players, Add(p) PROVE ListInv'
  <2>1. raced' = raced
    BY <1>3 DEF Add, history
  <2>. QED
    BY <1>0, <1>3, <2>1, WritingJobs, AddSound DEF ListInv
<1>4. ASSUME NEW p \in Players, Publish(p) PROVE ListInv'
  <2>1. ~raced' => ~raced /\ head[to[p]] = next[nxt[p]]
    BY <1>4 DEF Publish
  <2>. QED
    BY <1>0, <1>4, <2>1, WritingJobs, PublishSound DEF ListInv
<1>5. ASSUME UNCHANGED <<list, map, pc, job, cur, prev, nxt, raced>> PROVE ListInv'
  BY <1>5, SoundStutters DEF ListInv, Jobs
<1>6. ASSUME NEW p \in Players, UseFreed(p) PROVE ListInv'
  BY <1>5, <1>6 DEF UseFreed, player, call, regs, history
<1>7. CASE UNCHANGED vars
  BY <1>5, <1>7 DEF vars, player, call, regs, history
<1>. QED
  BY <1>1, <1>2, <1>3, <1>4, <1>6, <1>7, NextCases

LEMMA ListInvariance == Spec => [](IInv /\ ListInv)
<1>1. Init => IInv /\ ListInv
  BY InitInv, ListInit
<1>2. IInv /\ ListInv /\ [Next]_vars => IInv' /\ ListInv'
  BY StepInv, ListStep
<1>. QED
  BY <1>1, <1>2, PTL DEF Spec

(* Until two changes of a list have overlapped, the list of a map holds    *)
(* every player who stands there, once, and nobody else.                    *)
THEOREM ListsHoldThePresent == Spec => []ListsComplete
<1>1. ListInv => ListsComplete
  BY DEF ListInv, Sound, Listing, ListsComplete
<1>. QED
  BY <1>1, ListInvariance, PTL

----------------------------------------------------------------------------

(* Who knows whose position.                                                *)

(* p is listed and his walk through the list of his old map is over.        *)
Settled(p) ==
    IF job[p] = "walk" THEN pc[p] # "offline"
    ELSE pc[p] \in {"set", "announce0", "announce", "snap_read", "snap_write"}

(* p is about to write an older position of q to his client.                *)
Stale(p, q) ==
    pc[p] = "snap_write" /\ who[p] = q /\ seen[p] # pos[q]

Knows(p, q) == view[p][q] = pos[q] /\ ~Stale(p, q)

(* l is in a list, and q has a link there from l on.                        *)
Before(l, q) == Held(l) /\ q \in Ahead(l)

(* q's announcement has p before it.                                        *)
WillTell(q, p) ==
    \/ pc[q] \in {"set", "event", "announce0"}
    \/ pc[q] = "announce" /\ Before(cur[q], p)

(* p's snapshot has q before it.                                            *)
WillLook(p, q) ==
    /\ p # q /\ job[p] # "walk"
    /\ \/ pc[p] \in {"set", "announce0", "announce"}
       \/ /\ pc[p] \in {"snap_read", "snap_write"} /\ Before(cur[p], q) /\ ~Stale(p, q)
          /\ pc[p] = "snap_write" => payload[cur[p]] = who[p]

Informed(p, q) == <<p, q>> \in missed \/ WillTell(q, p) \/ WillLook(p, q) \/ Knows(p, q)

Together(p, q) == Settled(p) /\ Settled(q) /\ map[p] = map[q]

ViewInv == ~raced => \A p, q \in Players : Together(p, q) => Informed(p, q)

LEMMA SettledIsListed ==
  ASSUME Jobs, NEW p \in Players, Settled(p)
  PROVE  InList(p)
  BY DEF Settled, InList, Jobs

LEMMA SettledReads ==
  ASSUME TypeOK, Jobs, NEW p \in Players, Reading(p), Settled(p)'
  PROVE  /\ Settled(p)
         /\ \/ Walk(p) \/ \E x \in Positions : SetPos(p, x)
            \/ Begin(p, "announce0", "announce") \/ Announce(p) \/ AnnounceDone(p)
            \/ SnapRead(p) \/ SnapWrite(p) \/ SnapDone(p)
<1>1. Settled(p) /\ pc[p] \notin {"offline", "event", "find", "leave0", "leave"}
  <2>1. (pc[p] \in {"find", "leave0", "leave"} => job[p] # "walk") /\ (pc[p] = "idle" => job[p] = "walk")
    BY DEF Jobs
  <2>2. pc[p] \in {"idle", "set", "announce0", "announce", "snap_read", "snap_write"}
    <3>1. job'[p] # "walk" => pc'[p] \notin {"find", "unlink", "leave"}
      BY DEF Settled
    <3>. QED
      BY <2>1, <3>1, ReadingMoves
  <2>. QED
    BY <2>1, <2>2 DEF Settled
<1>. QED
  BY <1>1 DEF Reading, Login, FindOther, FindSelf, Leave, Begin, ChangeMap, At

LEMMA ReadingView ==
  ASSUME TypeOK, NEW a \in Players, Reading(a), NEW p \in Players \ {a}, NEW q \in Players \ {a}
  PROVE  view'[p][q] = view[p][q] /\ (<<p, q>> \in missed' <=> <<p, q>> \in missed)
<1>. USE DEF TypeOK, history, player
<1>1. CASE Login(a) \/ \E m \in Maps : ChangeMap(a, m)
  <2>1. view' = [view EXCEPT ![a] = [r \in Players |-> Unknown]]
        /\ missed' = {pair \in missed : pair[1] # a}
    BY <1>1 DEF Login, ChangeMap, Enter, map_send_map_packet
  <2>. QED
    BY <2>1
<1>2. CASE Walk(a) \/ FindOther(a) \/ FindSelf(a)
  BY <1>2 DEF Walk, FindOther, FindSelf
<1>3. CASE Leave(a)
  BY <1>3 DEF Leave
<1>4. CASE \/ Begin(a, "leave0", "leave") \/ Begin(a, "announce0", "announce") \/ AnnounceDone(a)
           \/ SnapRead(a) \/ SnapDone(a) \/ \E x \in Positions : SetPos(a, x)
  BY <1>4 DEF Begin, AnnounceDone, SnapRead, SnapDone, SetPos
<1>5. CASE Announce(a)
  <2>1. view'[p][q] = view[p][q]
    BY <1>5 DEF Announce
  <2>2. missed' = {pair \in missed : ~(pair[1] \in Listed(cur[a]) /\ pair[2] = a)}
                  \cup {<<s, a>> : s \in {r \in Listed(cur[a]) : pc[r] = "snap_write" /\ who[r] = a}}
    BY <1>5 DEF Announce
  <2>. QED
    BY <2>1, <2>2
<1>6. CASE SnapWrite(a)
  BY <1>6 DEF SnapWrite, WriteSeen
<1>. HIDE DEF TypeOK, history, player
<1>. QED
  BY <1>1, <1>2, <1>3, <1>4, <1>5, <1>6 DEF Reading

LEMMA BeforeNext ==
  ASSUME TypeOK, NEW k \in Links, NEW p \in Players, Before(k, p), payload[k] # p
  PROVE  Before(next[k], p)
  BY AheadNext, HeldNext DEF Before

LEMMA BeforeHead ==
  ASSUME TypeOK, Listing, NEW p \in Players, InList(p), NEW m, m = map[p]
  PROVE  Before(head[m], p)
  BY AheadHead, HeldHead DEF Before, TypeOK

LEMMA BeforeNull ==
  ASSUME TypeOK, NEW p
  PROVE  ~Before(Null, p)
  BY AheadNull DEF Before

LEMMA ReadingAhead ==
  ASSUME TypeOK, NEW a \in Players, Reading(a)
  PROVE  /\ UNCHANGED <<next, payload, head, map, raced>>
         /\ \A q \in Players \ {a}, r \in Players : Before(cur[q], r)' <=> Before(cur[q], r)
         /\ \A r \in Players : Before(cur[a], r)' <=> Before(cur'[a], r)
<1>1. /\ UNCHANGED <<next, payload, head, map, raced>>
      /\ \A q \in Players \ {a} : cur'[q] = cur[q]
  BY ReadingFrame
<1>2. \A q \in Players : Ahead(cur[q])' = Ahead(cur'[q])
  BY <1>1 DEF Ahead, From, Closed
<1>3. \A m \in Maps : Chain(m)' = Chain(m)
  BY <1>1 DEF Chain, From, Closed
<1>4. \A q \in Players : Held(cur[q])' <=> Held(cur'[q])
  BY <1>3 DEF Held
<1>5. \A q \in Players, r \in Players : Before(cur[q], r)' <=> Before(cur'[q], r)
  BY <1>2, <1>4 DEF Before
<1>. QED
  BY <1>1, <1>5

(* The pairs the reader does not belong to.                                 *)
LEMMA OthersInformed ==
  ASSUME TypeOK, NEW a \in Players, Reading(a),
         NEW p \in Players \ {a}, NEW q \in Players \ {a}, Informed(p, q)
  PROVE  Informed(p, q)'
<1>1. \A r \in {p, q} : /\ pc'[r] = pc[r] /\ job'[r] = job[r] /\ cur'[r] = cur[r]
                        /\ who'[r] = who[r] /\ seen'[r] = seen[r] /\ pos'[r] = pos[r]
                        /\ Before(cur[r], p)' <=> Before(cur[r], p)
                        /\ Before(cur[r], q)' <=> Before(cur[r], q)
  BY ReadingFrame, ReadingAhead
<1>2. payload' = payload /\ view'[p][q] = view[p][q] /\ (<<p, q>> \in missed' <=> <<p, q>> \in missed)
  BY ReadingAhead, ReadingView
<1>3. Stale(p, q)' <=> Stale(p, q)
  BY <1>1, <1>2 DEF Stale
<1>4. WillTell(q, p)' <=> WillTell(q, p)
  BY <1>1 DEF WillTell
<1>5. WillLook(p, q)' <=> WillLook(p, q)
  BY <1>1, <1>2, <1>3 DEF WillLook
<1>. QED
  BY <1>1, <1>2, <1>3, <1>4, <1>5 DEF Informed, Knows

(* The reader is the one whose knowledge it is.                             *)
LEMMA LookerInformed ==
  ASSUME TypeOK, Jobs, Sound, NEW p \in Players, Reading(p), NEW q \in Players \ {p},
         Settled(p)', Settled(q), map[p] = map[q], Informed(p, q)
  PROVE  Informed(p, q)'
<1>. USE DEF history, player, call, regs, Go, At
<1>1. pos'[q] = pos[q] /\ (WillTell(q, p)' <=> WillTell(q, p)) /\ payload' = payload
  BY ReadingFrame, ReadingAhead DEF WillTell
<1>2. Before(cur[p], q)' <=> Before(cur'[p], q)
  BY ReadingAhead
<1>3. ASSUME UNCHANGED <<view, missed>>, pc'[p] # "snap_write", WillLook(p, q) => WillLook(p, q)'
      PROVE  Informed(p, q)'
  BY <1>1, <1>3 DEF Informed, Knows, Stale
<1>4. CASE Walk(p)
  <2>1. job[p] = "walk"
    BY <1>4 DEF Walk, Jobs
  <2>. QED
    BY <1>3, <1>4, <2>1 DEF Walk, TypeOK, WillLook
<1>5. CASE \E x \in Positions : SetPos(p, x)
  <2>1. pc'[p] = "event" \/ pc'[p] = "announce0"
    BY <1>5 DEF SetPos, TypeOK
  <2>2. job' = job /\ (pc'[p] = "event" => job[p] = "walk")
    BY <1>5 DEF SetPos, TypeOK
  <2>3. UNCHANGED <<view, missed>>
    BY <1>5 DEF SetPos
  <2>. QED
    BY <1>3, <2>1, <2>2, <2>3 DEF WillLook
<1>6. CASE Begin(p, "announce0", "announce")
  BY <1>3, <1>6 DEF Begin, TypeOK, WillLook
<1>7. CASE Announce(p)
  <2>1. pc' = pc /\ job' = job /\ pc[p] = "announce"
    BY <1>7 DEF Announce
  <2>2. view'[p][q] = view[p][q]
    BY <1>7 DEF Announce, TypeOK
  <2>3. <<p, q>> \in missed => <<p, q>> \in missed'
    BY <1>7 DEF Announce
  <2>4. ~Stale(p, q)' /\ (WillLook(p, q) => WillLook(p, q)')
    BY <2>1 DEF Stale, WillLook
  <2>. QED
    BY <1>1, <2>2, <2>3, <2>4 DEF Informed, Knows
<1>8. CASE AnnounceDone(p)
  <2>1. CASE job[p] = "walk"
    BY <1>3, <1>8, <2>1 DEF AnnounceDone, TypeOK, WillLook
  <2>2. CASE job[p] # "walk"
    <3>1. pc'[p] = "snap_read" /\ cur'[p] = head[map[q]] /\ job' = job /\ UNCHANGED <<view, missed>>
      BY <1>8, <2>2 DEF AnnounceDone, TypeOK
    <3>2. Before(cur'[p], q)
      BY <3>1, SettledIsListed, BeforeHead DEF Sound
    <3>3. WillLook(p, q)'
      BY <1>2, <2>2, <3>1, <3>2 DEF WillLook, Stale
    <3>. QED
      BY <3>3 DEF Informed
  <2>. QED
    BY <2>1, <2>2
<1>9. CASE SnapRead(p)
  <2>1. cur[p] \in Links /\ payload[cur[p]] \in Players /\ pc[p] = "snap_read" /\ job' = job
        /\ UNCHANGED <<view, missed>>
    BY <1>9 DEF SnapRead, Live, TypeOK
  <2>2. CASE payload[cur[p]] = p
    <3>1. cur'[p] = next[cur[p]] /\ pc' = pc
      BY <1>9, <2>2 DEF SnapRead, Advance, TypeOK
    <3>2. Before(cur[p], q) => Before(cur'[p], q)
      BY <2>1, <2>2, <3>1, BeforeNext
    <3>3. WillLook(p, q) => WillLook(p, q)'
      BY <1>2, <2>1, <3>1, <3>2 DEF WillLook, Stale
    <3>. QED
      BY <1>3, <2>1, <3>1, <3>3
  <2>3. CASE payload[cur[p]] # p
    <3>1. cur' = cur /\ pc'[p] = "snap_write" /\ who'[p] = payload[cur[p]]
          /\ seen'[p] = pos[payload[cur[p]]]
      BY <1>9, <2>3 DEF SnapRead, TypeOK
    <3>2. ~Stale(p, q)'
      BY <1>1, <3>1 DEF Stale
    <3>3. WillLook(p, q) => WillLook(p, q)'
      BY <1>1, <1>2, <2>1, <3>1, <3>2 DEF WillLook
    <3>. QED
      BY <1>1, <2>1, <3>2, <3>3 DEF Informed, Knows
  <2>. QED
    BY <2>2, <2>3
<1>10. CASE SnapWrite(p)
  <2>1. cur[p] \in Links /\ cur[p] # Null /\ payload[cur[p]] \in Players /\ pc[p] = "snap_write"
        /\ job' = job /\ missed' = missed /\ pc'[p] = "snap_read" /\ cur'[p] = next[cur[p]]
    BY <1>10 DEF SnapWrite, Live, Advance, TypeOK
  <2>2. ~Stale(p, q)'
    BY <2>1 DEF Stale
  <2>3. CASE who[p] = q
    <3>1. view'[p][q] = seen[p]
      BY <1>10, <2>3 DEF SnapWrite, WriteSeen, TypeOK
    <3>2. Stale(p, q) \/ view'[p][q] = pos[q]
      BY <2>1, <2>3, <3>1 DEF Stale
    <3>. QED
      BY <1>1, <2>1, <2>2, <3>2 DEF Informed, Knows, WillLook
  <2>4. CASE who[p] # q
    <3>1. view'[p][q] = view[p][q]
      BY <1>10, <2>4 DEF SnapWrite, WriteSeen, TypeOK
    <3>2. Before(cur[p], q) /\ payload[cur[p]] = who[p] => Before(cur'[p], q)
      BY <2>1, <2>4, BeforeNext
    <3>3. WillLook(p, q) => WillLook(p, q)'
      BY <1>2, <2>1, <2>2, <3>2 DEF WillLook
    <3>. QED
      BY <1>1, <2>1, <2>2, <3>1, <3>3 DEF Informed, Knows
  <2>. QED
    BY <2>3, <2>4
<1>11. CASE SnapDone(p)
  <2>1. ~WillLook(p, q)
    BY <1>11, BeforeNull DEF SnapDone, WillLook
  <2>2. pc'[p] # "snap_write" /\ UNCHANGED <<view, missed>>
    BY <1>11 DEF SnapDone, TypeOK
  <2>. QED
    BY <1>3, <2>1, <2>2
<1>. HIDE DEF history, player, call, regs, Go, At
<1>. QED
  BY <1>4, <1>5, <1>6, <1>7, <1>8, <1>9, <1>10, <1>11, SettledReads

(* The reader is the one who is looked for.                                 *)
LEMMA ToldInformed ==
  ASSUME TypeOK, Jobs, Sound, NEW q \in Players, Reading(q), NEW p \in Players \ {q},
         Settled(q)', Settled(p), map[p] = map[q], Informed(p, q)
  PROVE  Informed(p, q)'
<1>. USE DEF history, player, call, regs, Go, At
<1>1. /\ pc'[p] = pc[p] /\ job'[p] = job[p] /\ cur'[p] = cur[p] /\ who'[p] = who[p]
      /\ seen'[p] = seen[p] /\ payload' = payload /\ (Before(cur[p], q)' <=> Before(cur[p], q))
  BY ReadingFrame, ReadingAhead
<1>2. Before(cur[q], p)' <=> Before(cur'[q], p)
  BY ReadingAhead
<1>3. ASSUME pos' = pos PROVE (Stale(p, q)' <=> Stale(p, q)) /\ (WillLook(p, q)' <=> WillLook(p, q))
  BY <1>1, <1>3 DEF Stale, WillLook
<1>4. ASSUME pos' = pos, view'[p][q] = view[p][q], missed' = missed, ~WillTell(q, p)
      PROVE  Informed(p, q)'
  BY <1>3, <1>4 DEF Informed, Knows
<1>5. CASE Walk(q)
  BY <1>5 DEF Walk, TypeOK, Informed, WillTell
<1>6. CASE \E x \in Positions : SetPos(q, x)
  <2>1. pc'[q] = "event" \/ pc'[q] = "announce0"
    BY <1>6 DEF SetPos, TypeOK
  <2>. QED
    BY <2>1 DEF Informed, WillTell
<1>7. CASE Begin(q, "announce0", "announce")
  <2>1. pc'[q] = "announce" /\ cur'[q] = head[map[p]]
    BY <1>7 DEF Begin, TypeOK
  <2>2. Before(cur'[q], p)
    BY <2>1, SettledIsListed, BeforeHead DEF Sound
  <2>. QED
    BY <1>2, <2>1, <2>2 DEF Informed, WillTell
<1>8. CASE Announce(q)
  <2>1. pc' = pc /\ pc[q] = "announce" /\ pos' = pos /\ cur[q] \in Links /\ cur'[q] = next[cur[q]]
    BY <1>8 DEF Announce, Live, Advance, TypeOK
  <2>2. missed' = {pair \in missed : ~(pair[1] \in Listed(cur[q]) /\ pair[2] = q)}
                  \cup {<<s, q>> : s \in {r \in Listed(cur[q]) : pc[r] = "snap_write" /\ who[r] = q}}
    BY <1>8 DEF Announce
  <2>3. CASE payload[cur[q]] = p
    <3>1. p \in Listed(cur[q])
      BY <2>3 DEF Listed
    <3>2. view'[p][q] = pos'[q]
      BY <1>8, <2>1, <3>1 DEF Announce, TypeOK
    <3>3. Stale(p, q)' => <<p, q>> \in missed'
      BY <1>1, <2>2, <3>1 DEF Stale
    <3>. QED
      BY <3>2, <3>3 DEF Informed, Knows
  <2>4. CASE payload[cur[q]] # p
    <3>1. p \notin Listed(cur[q])
      BY <2>4 DEF Listed
    <3>2. view'[p][q] = view[p][q]
      BY <1>8, <3>1 DEF Announce, TypeOK
    <3>3. <<p, q>> \in missed => <<p, q>> \in missed'
      BY <2>2, <3>1
    <3>4. WillTell(q, p) => WillTell(q, p)'
      <4>1. Before(cur[q], p) => Before(cur'[q], p)
        BY <2>1, <2>4, BeforeNext
      <4>. QED
        BY <1>2, <2>1, <4>1 DEF WillTell
    <3>. QED
      BY <1>3, <2>1, <3>2, <3>3, <3>4 DEF Informed, Knows
  <2>. QED
    BY <2>3, <2>4
<1>9. CASE AnnounceDone(q)
  <2>1. ~WillTell(q, p)
    BY <1>9, BeforeNull DEF AnnounceDone, WillTell
  <2>. QED
    BY <1>4, <1>9, <2>1 DEF AnnounceDone
<1>10. CASE SnapRead(q) \/ SnapDone(q)
  BY <1>4, <1>10 DEF SnapRead, SnapDone, WillTell
<1>11. CASE SnapWrite(q)
  <2>1. view'[p][q] = view[p][q]
    BY <1>11 DEF SnapWrite, WriteSeen, TypeOK
  <2>. QED
    BY <1>4, <1>11, <2>1 DEF SnapWrite, WillTell
<1>. HIDE DEF history, player, call, regs, Go, At
<1>. QED
  BY <1>5, <1>6, <1>7, <1>8, <1>9, <1>10, <1>11, SettledReads

(* What a player knows of himself.                                          *)
LEMMA SelfInformed ==
  ASSUME TypeOK, Jobs, Sound, NEW p \in Players, Reading(p), Settled(p)', Informed(p, p)
  PROVE  Informed(p, p)'
<1>. USE DEF history, player, call, regs, Go, At
<1>1. (Before(cur[p], p)' <=> Before(cur'[p], p)) /\ payload' = payload
  BY ReadingAhead
<1>2. ASSUME pos' = pos, view'[p][p] = view[p][p], missed' = missed, ~WillTell(p, p), ~Stale(p, p)'
      PROVE  Informed(p, p)'
  BY <1>2 DEF Informed, Knows, WillLook
<1>3. CASE Walk(p)
  BY <1>3 DEF Walk, TypeOK, Informed, WillTell
<1>4. CASE \E x \in Positions : SetPos(p, x)
  <2>1. pc'[p] = "event" \/ pc'[p] = "announce0"
    BY <1>4 DEF SetPos, TypeOK
  <2>. QED
    BY <2>1 DEF Informed, WillTell
<1>5. CASE Begin(p, "announce0", "announce")
  <2>1. pc'[p] = "announce" /\ cur'[p] = head[map[p]] /\ Settled(p)
    BY <1>5, SettledReads DEF Begin, TypeOK
  <2>2. Before(cur'[p], p)
    BY <2>1, SettledIsListed, BeforeHead DEF Sound
  <2>. QED
    BY <1>1, <2>1, <2>2 DEF Informed, WillTell
<1>6. CASE Announce(p)
  <2>1. pc' = pc /\ pc[p] = "announce" /\ pos' = pos /\ cur[p] \in Links /\ cur'[p] = next[cur[p]]
    BY <1>6 DEF Announce, Live, Advance, TypeOK
  <2>2. ~Stale(p, p)'
    BY <2>1 DEF Stale
  <2>3. CASE payload[cur[p]] = p
    <3>1. view'[p][p] = pos'[p]
      BY <1>6, <2>1, <2>3 DEF Announce, Listed, TypeOK
    <3>. QED
      BY <2>2, <3>1 DEF Informed, Knows
  <2>4. CASE payload[cur[p]] # p
    <3>1. p \notin Listed(cur[p])
      BY <2>4 DEF Listed
    <3>2. view'[p][p] = view[p][p] /\ (<<p, p>> \in missed => <<p, p>> \in missed')
      BY <1>6, <3>1 DEF Announce, TypeOK
    <3>3. Before(cur[p], p) => Before(cur'[p], p)
      BY <2>1, <2>4, BeforeNext
    <3>4. WillTell(p, p) => WillTell(p, p)'
      BY <1>1, <2>1, <3>3 DEF WillTell
    <3>. QED
      BY <2>1, <2>2, <3>2, <3>4 DEF Informed, Knows, WillLook
  <2>. QED
    BY <2>3, <2>4
<1>7. CASE AnnounceDone(p)
  <2>1. ~WillTell(p, p)
    BY <1>7, BeforeNull DEF AnnounceDone, WillTell
  <2>2. pc'[p] # "snap_write"
    BY <1>7 DEF AnnounceDone, TypeOK
  <2>. QED
    BY <1>2, <1>7, <2>1, <2>2 DEF AnnounceDone, Stale
<1>8. CASE SnapRead(p)
  <2>1. pc'[p] = "snap_write" => who'[p] # p
    BY <1>8 DEF SnapRead, TypeOK
  <2>. QED
    BY <1>1, <1>2, <1>8, <2>1 DEF SnapRead, WillTell, Stale
<1>9. CASE SnapWrite(p)
  <2>1. pos' = pos /\ missed' = missed /\ pc[p] = "snap_write" /\ pc'[p] = "snap_read" /\ cur[p] # Null
        /\ view' = [view EXCEPT ![p][who[p]] = seen[p]]
    BY <1>9 DEF SnapWrite, WriteSeen, Live, TypeOK
  <2>2. ~Stale(p, p) => view'[p][p] \in {view[p][p], pos[p]}
    BY <2>1 DEF Stale, TypeOK
  <2>3. ~WillTell(p, p) /\ ~Stale(p, p)'
    BY <2>1 DEF WillTell, Stale
  <2>. QED
    BY <2>1, <2>2, <2>3 DEF Informed, Knows, WillLook
<1>10. CASE SnapDone(p)
  <2>1. pc'[p] # "snap_write"
    BY <1>10 DEF SnapDone, TypeOK
  <2>. QED
    BY <1>2, <1>10, <2>1 DEF SnapDone, WillTell, Stale
<1>. HIDE DEF history, player, call, regs, Go, At
<1>. QED
  BY <1>3, <1>4, <1>5, <1>6, <1>7, <1>8, <1>9, <1>10, SettledReads

LEMMA ReadingViews ==
  ASSUME TypeOK, Jobs, Sound, NEW a \in Players, Reading(a),
         NEW p \in Players, NEW q \in Players, Together(p, q)', Together(p, q) => Informed(p, q)
  PROVE  Informed(p, q)'
<1>1. \A r \in Players : Settled(r)' => Settled(r)
  BY SettledReads, ReadingFrame DEF Settled
<1>2. map' = map /\ Together(p, q)
  BY <1>1, ReadingFrame DEF Together
<1>3. Settled(p)' /\ Settled(q)' /\ Settled(p) /\ Settled(q) /\ map[p] = map[q] /\ Informed(p, q)
  BY <1>2 DEF Together
<1>4. CASE a = p /\ a = q
  BY <1>3, <1>4, SelfInformed
<1>5. CASE a = p /\ a # q
  BY <1>3, <1>5, LookerInformed
<1>6. CASE a # p /\ a = q
  BY <1>3, <1>6, ToldInformed
<1>7. CASE a # p /\ a # q
  BY <1>3, <1>7, OthersInformed
<1>. QED
  BY <1>4, <1>5, <1>6, <1>7

(* A change of a list by another player, when what is ahead is kept or the  *)
(* pair is missed.                                                          *)
LEMMA InformedKept ==
  ASSUME NEW p \in Players, NEW q \in Players, Informed(p, q),
         UNCHANGED <<pos, view, snap>>, missed \subseteq missed',
         \A r \in {p, q} : pc'[r] = pc[r] /\ job'[r] = job[r] /\ cur'[r] = cur[r],
         pc[q] = "announce" /\ Before(cur[q], p) => Before(cur[q], p)' \/ <<p, q>> \in missed',
         pc[p] \in {"snap_read", "snap_write"} /\ Before(cur[p], q) =>
            \/ Before(cur[p], q)' /\ payload'[cur[p]] = payload[cur[p]]
            \/ <<p, q>> \in missed'
  PROVE  Informed(p, q)'
<1>1. Stale(p, q)' <=> Stale(p, q)
  BY DEF Stale, snap
<1>2. WillTell(q, p) => WillTell(q, p)' \/ <<p, q>> \in missed'
  BY DEF WillTell
<1>3. WillLook(p, q) => WillLook(p, q)' \/ <<p, q>> \in missed'
  BY <1>1 DEF WillLook, snap
<1>. QED
  BY <1>1, <1>2, <1>3 DEF Informed, Knows

LEMMA UnlinkViews ==
  ASSUME IInv, Jobs, Sound, NEW a \in Players, Unlink(a), ~Torn(a),
         NEW p \in Players, NEW q \in Players, Together(p, q)', Together(p, q) => Informed(p, q)
  PROVE  Informed(p, q)'
<1>1. TypeOK /\ pc' = [pc EXCEPT ![a] = "leave0"] /\ UNCHANGED <<pos, view, snap, job, map>>
      /\ cur' = [cur EXCEPT ![a] = Null] /\ payload' = [payload EXCEPT ![cur[a]] = NoOne]
      /\ missed' = missed \cup Unheard(a) /\ job[a] # "walk"
  BY DEF IInv, Unlink, Go, call, At, Jobs
<1>2. p # a /\ q # a
  BY <1>1 DEF Together, Settled, TypeOK
<1>3. \A r \in {p, q} : pc'[r] = pc[r] /\ job'[r] = job[r] /\ cur'[r] = cur[r]
  BY <1>1, <1>2 DEF TypeOK
<1>4. Together(p, q)
  BY <1>1, <1>3 DEF Together, Settled
<1>5. ASSUME NEW r \in {p, q}, NEW s \in {p, q}, Before(cur[r], s), cur[r] # cur[a]
      PROVE  Before(cur[r], s)' /\ payload'[cur[r]] = payload[cur[r]]
  <2>1. PICK x : x = cur[r]
    OBVIOUS
  <2>2. Held(x)' /\ s \in Ahead(x)'
    BY <1>2, <1>5, <2>1, UnlinkAhead DEF Before
  <2>3. cur'[r] = x
    BY <1>3, <2>1
  <2>4. Before(cur[r], s)'
    BY <2>2, <2>3 DEF Before, Held, Ahead, Chain, From, Closed
  <2>5. cur[r] \in Links
    BY <1>1, <1>5, BeforeNull DEF TypeOK
  <2>. QED
    BY <1>1, <1>5, <2>4, <2>5 DEF TypeOK
<1>6. pc[q] = "announce" /\ cur[q] = cur[a] => <<p, q>> \in missed'
  BY <1>1 DEF Unheard
<1>7. pc[p] \in {"snap_read", "snap_write"} /\ cur[p] = cur[a] => <<p, q>> \in missed'
  BY <1>1 DEF Unheard
<1>. QED
  BY <1>1, <1>3, <1>4, <1>5, <1>6, <1>7, InformedKept

LEMMA AddViews ==
  ASSUME IInv, Jobs, Sound, NEW a \in Players, Add(a),
         NEW p \in Players, NEW q \in Players, Together(p, q)', Together(p, q) => Informed(p, q)
  PROVE  Informed(p, q)'
<1>1. TypeOK /\ pc' = [pc EXCEPT ![a] = "publish"] /\ UNCHANGED <<pos, view, snap, missed, job, map, cur>>
      /\ job[a] # "walk"
  <2>1. pc[a] \in {"find", "leave"}
    BY DEF Add, At
  <2>. QED
    BY <2>1 DEF IInv, Add, Go, call, history, Jobs
<1>2. p # a /\ q # a
  BY <1>1 DEF Together, Settled, TypeOK
<1>3. \A r \in {p, q} : pc'[r] = pc[r] /\ job'[r] = job[r] /\ cur'[r] = cur[r]
  BY <1>1, <1>2 DEF TypeOK
<1>4. Together(p, q)
  BY <1>1, <1>3 DEF Together, Settled
<1>5. ASSUME NEW r \in {p, q}, NEW s \in {p, q}, Before(cur[r], s)
      PROVE  Before(cur[r], s)' /\ payload'[cur[r]] = payload[cur[r]]
  <2>1. PICK x : x = cur[r]
    OBVIOUS
  <2>2. x \in Links /\ Held(x) /\ s \in Ahead(x)
    BY <1>1, <1>5, <2>1, BeforeNull DEF TypeOK, Before
  <2>3. From(next', x) = From(next, x) /\ \A k \in From(next, x) : payload'[k] = payload[k]
    BY <2>2, AddAside
  <2>4. x \in From(next, x)
    BY <1>1, <2>2, Pointing, FromNext
  <2>5. Held(x)'
    BY <2>2, AddChains DEF Held
  <2>6. s \in Ahead(x)'
    <3>1. PICK k \in From(next, x) : payload[k] = s
      BY <2>2 DEF Ahead
    <3>2. k \in From(next', x) /\ payload'[k] = s
      BY <2>3, <3>1
    <3>. QED
      BY <3>2 DEF Ahead, From, Closed
  <2>7. cur'[r] = x
    BY <1>3, <2>1
  <2>8. Before(cur[r], s)'
    BY <2>5, <2>6, <2>7 DEF Before, Held, Ahead, Chain, From, Closed
  <2>. QED
    BY <2>1, <2>3, <2>4, <2>8
<1>. QED
  BY <1>1, <1>3, <1>4, <1>5, InformedKept

LEMMA PublishViews ==
  ASSUME IInv, Jobs, Sound, NEW a \in Players, Publish(a), head[to[a]] = next[nxt[a]],
         NEW p \in Players, NEW q \in Players, Together(p, q)', Together(p, q) => Informed(p, q)
  PROVE  Informed(p, q)'
<1>1. TypeOK /\ pc' = [pc EXCEPT ![a] = "set"] /\ map' = [map EXCEPT ![a] = to[a]]
      /\ UNCHANGED <<next, payload, pos, view, snap, missed, job, cur>> /\ job[a] # "walk"
  BY DEF IInv, Publish, Go, call, At, Jobs
<1>2. CASE q = a
  BY <1>1, <1>2 DEF Informed, WillTell, TypeOK
<1>3. CASE q # a /\ p = a
  BY <1>1, <1>3 DEF Informed, WillLook, TypeOK
<1>4. CASE q # a /\ p # a
  <2>1. \A r \in {p, q} : pc'[r] = pc[r] /\ job'[r] = job[r] /\ cur'[r] = cur[r] /\ map'[r] = map[r]
    BY <1>1, <1>4 DEF TypeOK
  <2>2. Together(p, q)
    BY <2>1 DEF Together, Settled
  <2>3. ASSUME NEW r \in {p, q}, NEW s \in {p, q}, Before(cur[r], s) PROVE Before(cur[r], s)'
    <3>1. Ahead(cur[r])' = Ahead(cur[r])
      BY <1>1 DEF Ahead, From, Closed
    <3>2. PICK x : x = cur[r]
      OBVIOUS
    <3>3. Held(x)'
      BY <2>3, <3>2, PublishSound DEF Before
    <3>4. Held(cur[r])'
      BY <1>1, <3>2, <3>3 DEF Held, Chain, From, Closed
    <3>. QED
      BY <2>3, <3>1, <3>4 DEF Before
  <2>. QED
    BY <1>1, <2>1, <2>2, <2>3, InformedKept
<1>. QED
  BY <1>2, <1>3, <1>4

LEMMA ViewInit == Init => ViewInv
  BY DEF Init, ViewInv, Together, Settled

LEMMA ViewStep ==
  ASSUME IInv, ListInv, ViewInv, [Next]_vars
  PROVE  ViewInv'
<1>. SUFFICES ASSUME ~raced', NEW p \in Players, NEW q \in Players, Together(p, q)'
              PROVE  Informed(p, q)'
  BY DEF ViewInv
<1>1. ASSUME ~raced PROVE TypeOK /\ Jobs /\ Sound /\ (Together(p, q) => Informed(p, q))
  BY <1>1 DEF IInv, ListInv, ViewInv
<1>2. ASSUME NEW a \in Players, Reading(a) PROVE Informed(p, q)'
  <2>1. ~raced
    BY <1>2, ReadingFrame DEF IInv
  <2>. QED
    BY <1>1, <1>2, <2>1, ReadingViews
<1>3. ASSUME NEW a \in Players, Unlink(a) PROVE Informed(p, q)'
  <2>1. ~raced /\ ~Torn(a)
    BY <1>3 DEF Unlink
  <2>. QED
    BY <1>1, <1>3, <2>1, UnlinkViews
<1>4. ASSUME NEW a \in Players, Add(a) PROVE Informed(p, q)'
  <2>1. ~raced
    BY <1>4 DEF Add, history
  <2>. QED
    BY <1>1, <1>4, <2>1, AddViews
<1>5. ASSUME NEW a \in Players, Publish(a) PROVE Informed(p, q)'
  <2>1. ~raced /\ head[to[a]] = next[nxt[a]]
    BY <1>5 DEF Publish
  <2>. QED
    BY <1>1, <1>5, <2>1, PublishViews
<1>6. ASSUME UNCHANGED <<list, player, view, pc, call, regs, snap, history>> PROVE Informed(p, q)'
  <2>1. ~raced /\ Together(p, q)
    BY <1>6 DEF history, Together, Settled, call, player
  <2>2. \A r \in {p, q}, s \in {p, q} : Before(cur[r], s)' <=> Before(cur[r], s)
    BY <1>6 DEF Before, Held, Ahead, Chain, From, Closed, list, regs
  <2>. QED
    BY <1>1, <1>6, <2>1, <2>2, InformedKept DEF list, player, call, regs, history
<1>7. ASSUME NEW a \in Players, UseFreed(a) PROVE Informed(p, q)'
  BY <1>6, <1>7 DEF UseFreed
<1>8. CASE UNCHANGED vars
  BY <1>6, <1>8 DEF vars
<1>. QED
  BY <1>2, <1>3, <1>4, <1>5, <1>7, <1>8, NextCases

LEMMA ViewInvariance == Spec => [](IInv /\ ListInv /\ ViewInv)
<1>1. Init => IInv /\ ListInv /\ ViewInv
  BY InitInv, ListInit, ViewInit
<1>2. IInv /\ ListInv /\ ViewInv /\ [Next]_vars => IInv' /\ ListInv' /\ ViewInv'
  BY StepInv, ListStep, ViewStep
<1>. QED
  BY <1>1, <1>2, PTL DEF Spec

(* Until two changes of a list overlap, everyone present on a map knows the *)
(* position of everyone who stands still there, himself included, unless it *)
(* was missed: an older position written last by his own snapshot, or a     *)
(* link freed under the loop that was to tell him.                          *)
THEOREM PresentAreInformed == Spec => []ViewsAgree
<1>1. ASSUME IInv, ListInv, ViewInv PROVE ViewsAgree
  <2>. SUFFICES ASSUME NEW p \in Players, NEW q \in Players, Present(p), pc[q] = "idle",
                       map[p] = map[q], ~raced, <<p, q>> \notin missed
                PROVE  view[p][q] = pos[q]
    BY DEF ViewsAgree
  <2>1. Together(p, q)
    BY <1>1 DEF Together, Settled, Present, ListInv, Jobs
  <2>2. Informed(p, q) /\ ~WillTell(q, p) /\ ~WillLook(p, q)
    BY <1>1, <2>1 DEF ViewInv, WillTell, WillLook, Present
  <2>. QED
    BY <2>2 DEF Informed, Knows
<1>. QED
  BY <1>1, ViewInvariance, PTL

============================================================================
