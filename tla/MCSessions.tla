------------------------------ MODULE MCSessions ------------------------------
(* Sessions with a few rival clients.  They are not told apart by any        *)
(* action, but the run checks liveness, so no symmetry is declared.          *)
EXTENDS Sessions

=============================================================================
