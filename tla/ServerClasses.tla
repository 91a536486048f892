--------------------------- MODULE ServerClasses ---------------------------
(***************************************************************************)
(* What parseDataTables leaves to the rest of the parser: the classes of   *)
(* the server, each with the flattened list of its props, and where the    *)
(* parse of the tables is.  Datatables writes them, EntityDeltas reads     *)
(* them.  Prop indices count from 1, class ids from 0.                     *)
(***************************************************************************)
EXTENDS Integers, Sequences

CONSTANT None  \* undefined in the code

VARIABLES
  classes,     \* the ServerClasses read, with their flattenedProps
  stage        \* where parseDataTables is, and then the message

PropsOf(class) == classes[class + 1].flattenedProps
IsClass(class) == class + 1 \in DOMAIN classes

\* The lists of the classes that have a table, by class id.
ClassLists(read) ==
  [c \in {i - 1 : i \in {j \in DOMAIN read : read[j].sendTable # None}} |-> read[c + 1].flattenedProps]
=============================================================================
