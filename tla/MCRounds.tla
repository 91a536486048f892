------------------------------ MODULE MCRounds ------------------------------
(***************************************************************************)
(* Rounds for TLC: one player, who can only hit himself.                   *)
(***************************************************************************)
EXTENDS Rounds

CONSTANT ann

MCPlayers == {ann}

=============================================================================
