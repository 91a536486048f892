----------------------------- MODULE MCOverlays ------------------------------
(***************************************************************************)
(* Overlays for TLC: ids 0 and 1 are in range and 2, where it is used, is  *)
(* past MAX_EDICTS.  Two classes, the players and the rules proxy, stand   *)
(* for the arrays and for the singletons, which differ in class only.  No  *)
(* props: what is checked here is which row an overlay reads and not what  *)
(* the row holds.                                                          *)
(***************************************************************************)
EXTENDS Overlays

CONSTANTS player, team, rules, resource, weapon

MCReads == {{}, {"players", "gameRules"}}
MCDeleteReads == {{}}
MCDeleteReadsPlayers == {{}, {"players"}}

\* No prop: the only delta writes nothing.
MCChanges == {NoProps}

=============================================================================
