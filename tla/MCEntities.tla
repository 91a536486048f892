----------------------------- MODULE MCEntities ------------------------------
(***************************************************************************)
(* Entities and PacketEntities for TLC, one of them in a behaviour: the    *)
(* entity list and its stores under the entries of messages, or the bits   *)
(* of a message, from the tables that define them to the getters.          *)
(*                                                                         *)
(* For Entities: two ids, both in range; two classes, one of them a proxy; *)
(* stores that start with one row, so that the second entity of a class    *)
(* makes its store grow.                                                   *)
(***************************************************************************)
EXTENDS MCEntityDeltas, Entities

CONSTANTS hp

\* The baseline says 1 and a message may change the prop to 0, or nothing.
MCBlobs == {hp :> 1}
MCChanges == {NoProps, hp :> 0}

VARIABLE half       \* the module that takes the steps; the other stays as it is

gameVars == <<tableVars, deltaVars>>

MCInit ==
    \/ half = "list" /\ Init /\ InitGame /\ unread = CHOOSE payload \in Payloads : TRUE
    \/ half = "bits" /\ Init /\ InitGame

MCNext ==
    /\ UNCHANGED half
    /\ \/ half = "list" /\ Next /\ UNCHANGED gameVars
       \/ half = "bits" /\ NextGame /\ UNCHANGED vars
       \/ half = "bits" /\ UNCHANGED <<gameVars, vars>>       \* the game has no more messages

MCSpec == MCInit /\ [][MCNext]_<<half, gameVars, vars>>

=============================================================================
