----------------------------- MODULE MCTrackers -----------------------------
(***************************************************************************)
(* Rounds and Grenades for TLC, one of them in a behaviour: the trackers   *)
(* of rounds, damage, economy and phases, or those of grenades, throwers   *)
(* and positions.                                                          *)
(***************************************************************************)
EXTENDS MCRounds, MCGrenades

VARIABLE half       \* the module that takes the steps; the other stays as it is

MCInit ==
    \/ half = "rounds" /\ InitRounds /\ Init
    \/ half = "grenades" /\ InitRounds /\ stage = "live" /\ present = {} /\ Init

MCNext ==
    /\ UNCHANGED half
    /\ \/ half = "rounds" /\ NextRounds /\ UNCHANGED vars
       \/ half = "grenades" /\ Next /\ UNCHANGED roundVars

MCSpec == MCInit /\ [][MCNext]_<<half, roundVars, vars>>

=============================================================================
