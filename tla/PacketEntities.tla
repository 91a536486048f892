--------------------------- MODULE PacketEntities ---------------------------
(***************************************************************************)
(* Datatables and EntityDeltas together: the tables of a game are parsed,  *)
(* and a message that the server writes with its own prop lists is decoded *)
(* with the lists that were flattened.                                     *)
(***************************************************************************)
EXTENDS Datatables, EntityViews

\* The server's list of each class.
ServerLists ==
  [c \in {i - 1 : i \in {j \in DOMAIN classes : classes[j].sendTable # None}} |->
     ServerProps(unread.server, unread.server[classes[c + 1].sendTable])]

InitGame == InitTables /\ InitDeltas

NextGame ==
  \/ NextTables /\ UNCHANGED deltaVars
  \/ Send(ServerLists) /\ UNCHANGED <<payloadVars, sortVars>>
  \/ Decode /\ UNCHANGED <<payloadVars, sortVars>>

GameSpec == InitGame /\ [][NextGame]_<<tableVars, deltaVars>>
=============================================================================
