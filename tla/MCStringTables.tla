--------------------------- MODULE MCStringTables ---------------------------
(***************************************************************************)
(* StringTables and StringWire for TLC, one of them in a behaviour: what   *)
(* the handlers do to several tables, or the bits of the messages to one.  *)
(*                                                                         *)
(* For StringTables: userinfo and one other table, two slots, two keys     *)
(* (one of them blank) and two users: enough for two entries to share or   *)
(* swap keys and for a user to change slot or sit in both.                 *)
(***************************************************************************)
EXTENDS StringTables, MCWire, TLC

CONSTANTS userinfo, downloadables, ann, bob, key0, blank

MCNames == {userinfo, downloadables}
MCKeys == {key0, blank}
MCUsers == {ann, bob}
MCCapacities == {1, 2}

UserSymmetry == Permutations(MCUsers)

VARIABLE half       \* the module that takes the steps; the other stays as it is

MCInit == half \in {"tables", "wire"} /\ Init /\ InitStrings

MCNext ==
    /\ UNCHANGED half
    /\ \/ half = "tables" /\ Next /\ UNCHANGED stringVars
       \/ half = "wire" /\ NextStrings /\ UNCHANGED vars
       \/ half = "wire" /\ UNCHANGED <<stringVars, vars>>     \* the demo has no more messages

MCSpec == MCInit /\ [][MCNext]_<<half, vars, stringVars>>

=============================================================================
