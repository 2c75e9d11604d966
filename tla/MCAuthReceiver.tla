---------------------------- MODULE MCAuthReceiver ----------------------------
(* AuthReceiver with tokens and ids of two bytes, so that each of them can   *)
(* be split and an id can be short or, with three, long.                     *)
EXTENDS AuthReceiver

=============================================================================
