---------------------------- MODULE MCMapRegistry ----------------------------
(* MapRegistry with a few references; the map may be created several times, *)
(* so that a load meets an unload that is about to free it.                 *)
EXTENDS MapRegistry, TLC

Symmetry == Permutations(Refs)

=============================================================================
