-------------------------------- MODULE Board --------------------------------
(***************************************************************************)
(* What the collision map is for, without collision bits, locks or call    *)
(* stacks: players stand on tiles, walk in one step to a tile nobody       *)
(* stands on, and are put by logins and portals on arrival tiles, whoever  *)
(* is there.  Movement implements this board.                              *)
(***************************************************************************)
EXTENDS Integers, TLAPS

CONSTANTS Players, Tiles, Arrivals, MaxMove, Nowhere

VARIABLE at    \* at[p]: the tile p stands on, Nowhere before the login

Distance(s, t) ==
    (IF s.x > t.x THEN s.x - t.x ELSE t.x - s.x) + (IF s.y > t.y THEN s.y - t.y ELSE t.y - s.y)

Init == at = [p \in Players |-> Nowhere]

(* A login or a portal.                                                     *)
Arrive(p, t) ==
    /\ t \in Arrivals
    /\ at' = [at EXCEPT ![p] = t]

(* A move packet.  On an arrival tile the collision bit may be missing.     *)
Walk(p, t) ==
    /\ at[p] # Nowhere
    /\ t.map = at[p].map
    /\ Distance(at[p], t) <= MaxMove[p]
    /\ t \in Arrivals \/ \A q \in Players : at[q] # t
    /\ at' = [at EXCEPT ![p] = t]

Next ==
    \E p \in Players :
        \/ \E t \in Arrivals : Arrive(p, t)
        \/ \E t \in Tiles : Walk(p, t)

Spec == Init /\ [][Next]_at

(* Away from the arrival tiles two players are never on one tile.           *)
Exclusive ==
    \A p, q \in Players : p # q /\ at[p] = at[q] => at[p] \in Arrivals \cup {Nowhere}

(* The board keeps players apart, for any set of players and tiles; with    *)
(* the refinement proved in MovementProofs this is a promise of player_move.*)
THEOREM BoardExclusive == Spec => []Exclusive
<1>. DEFINE T == at \in [Players -> Tiles \cup Arrivals \cup {Nowhere}]
<1>1. Init => T /\ Exclusive
  BY DEF Init, Exclusive
<1>2. T /\ Exclusive /\ [Next]_at => T' /\ Exclusive'
  <2>. SUFFICES ASSUME T, Exclusive, [Next]_at
                PROVE  T' /\ Exclusive'
    OBVIOUS
  <2>1. ASSUME NEW p \in Players, NEW t \in Arrivals, Arrive(p, t)
        PROVE  T' /\ Exclusive'
    BY <2>1 DEF Arrive, Exclusive
  <2>2. ASSUME NEW p \in Players, NEW t \in Tiles, Walk(p, t)
        PROVE  T' /\ Exclusive'
    BY <2>2 DEF Walk, Exclusive
  <2>3. CASE UNCHANGED at
    BY <2>3 DEF Exclusive
  <2>. QED
    BY <2>1, <2>2, <2>3 DEF Next
<1>. QED
  BY <1>1, <1>2, PTL DEF Spec

=============================================================================
