------------------------ MODULE MCAwaitingConnections ------------------------
(* AwaitingConnections with rival clients, tokens that expire at different  *)
(* times and an account without a player.                                   *)
EXTENDS AwaitingConnections

CONSTANTS t1, t2

MCTokens == {t1, t2}
MCKnown == {t1}

=============================================================================
