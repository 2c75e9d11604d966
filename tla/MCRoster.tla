------------------------------- MODULE MCRoster -------------------------------
(* Small worlds for Roster.                                                 *)
EXTENDS Roster, TLC

CONSTANTS p1, p2, p3

MCSaved == [p \in Players |-> 0]

(* Three players, one of whom may leave the map under another's loop; or    *)
(* two who both may; or one who comes back.                                 *)
MCBudgets == {[p \in Players |-> IF p = p1 THEN 2 ELSE 1],
              [p \in Players |-> IF p = p3 THEN 0 ELSE 2],
              [p \in Players |-> IF p = p1 THEN 3 ELSE 0]}

=============================================================================
