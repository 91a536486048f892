----------------------------- MODULE Datatables -----------------------------
(***************************************************************************)
(* parseDataTables (src/src/datatables/): from the dem_datatables payload  *)
(* to the flattened, sorted prop list of every server class.  That list is *)
(* never sent: the server computes it from its own tables, and a prop is   *)
(* named on the wire by its index in it.                                   *)
(*                                                                         *)
(* A payload is the sequence of its messages, up to the end of its bytes,  *)
(* and of its class-info records; `server` is the server's own tables, by  *)
(* name.  A SendTable is [name, props]; a prop has the fields of SendProp, *)
(* its flags as the set of their names.                                    *)
(***************************************************************************)
EXTENDS ServerClasses, PrioritySort, SequencesExt

CONSTANT
  Payloads     \* the dem_datatables payloads to parse

VARIABLES
  unread,      \* the rest of the payload: [server, messages, classes, whole]
  sendTables   \* the SendTableRegistry, by net table name

payloadVars == <<unread, sendTables>>
tableVars == <<unread, sendTables, classes, stage, sortVars>>

Registered(name) == name \in DOMAIN sendTables

Idle == UNCHANGED sortVars

-----------------------------------------------------------------------------
(* The SendTable messages. *)

Head1 == Head(unread.messages)

\* A table is registered under its name; of two with one name the first stays.
ReadTable ==
  /\ stage = "tables"
  /\ unread.messages # <<>>
  /\ Head1.kind = "table"
  /\ unread' = [unread EXCEPT !.messages = Tail(@)]
  /\ LET table == Head1.table
     IN sendTables' = IF Registered(table.name) THEN sendTables
                      ELSE sendTables @@ (table.name :> table)
  /\ UNCHANGED <<classes, stage>> /\ Idle

ReadEnd ==
  /\ stage = "tables"
  /\ unread.messages # <<>>
  /\ Head1.kind = "end"
  /\ stage' = "classes"
  /\ UNCHANGED <<unread, sendTables, classes>> /\ Idle

\* Another command before the terminator, or no terminator at all.
TablesThrow ==
  /\ stage = "tables"
  /\ unread.messages # <<>> => Head1.kind = "other"
  /\ stage' = "threw"
  /\ UNCHANGED <<unread, sendTables, classes>> /\ Idle

\* readClassInfo, one record: the class keeps the table its name resolves to.
ReadClass ==
  /\ stage = "classes"
  /\ unread.classes # <<>>
  /\ LET class == Head(unread.classes)
     IN classes' = Append(classes,
          [ name           |-> class.name,
            sendTable      |-> IF Registered(class.dtName) THEN class.dtName ELSE None,
            flattenedProps |-> <<>>,
            flattened      |-> FALSE ])
  /\ unread' = [unread EXCEPT !.classes = Tail(@)]
  /\ UNCHANGED <<sendTables, stage>> /\ Idle

\* The count says how many records follow; the bytes may end before them.
ClassInfoEnds ==
  /\ stage = "classes"
  /\ unread.classes = <<>>
  /\ stage' = IF unread.whole THEN "flatten" ELSE "threw"
  /\ UNCHANGED <<unread, sendTables, classes>> /\ Idle

-----------------------------------------------------------------------------
(* Exclusions: the EXCLUDE markers of every table under the root. *)

SubTables(registry, table) ==
  {registry[p.dtName] : p \in {q \in Range(table.props) :
     /\ "EXCLUDE" \notin q.flags
     /\ q.type = "DATATABLE"
     /\ q.dtName \in DOMAIN registry}}

RECURSIVE WalkedFrom(_, _)
WalkedFrom(registry, walked) ==
  LET more == walked \cup UNION {SubTables(registry, t) : t \in walked}
  IN IF more = walked THEN walked ELSE WalkedFrom(registry, more)

GatherExclusions(registry, root) ==
  {<<p.dtName, p.varName>> : p \in {q \in UNION {Range(t.props) : t \in WalkedFrom(registry, {root})} :
     "EXCLUDE" \in q.flags /\ q.dtName # None}}

-----------------------------------------------------------------------------
(* flattenSendTable, with its two accumulators: `out`, the list of the     *)
(* class, and `tmp`, the block of the table being gathered.                *)

RECURSIVE IterateProps(_, _, _, _, _)

GatherProps(registry, exclusions, table, visited, out) ==
  LET gathered == IterateProps(registry, exclusions, table, visited, [out |-> out, tmp |-> <<>>])
  IN gathered.out \o gathered.tmp

\* `element` holds the element template of an array, and is empty otherwise.
Leaf(table, prop, element) == [prop |-> prop, source |-> table.name, element |-> element]

\* Every sub-table taken inline, as the comment above flattenSendTable has it.
RecursesInline(registry, exclusions, prop, path, acc) ==
  IterateProps(registry, exclusions, registry[prop.dtName], path, acc)

\* A COLLAPSIBLE sub-table joins the block of its parent; any other goes whole
\* to the list of the class, before the block does.
Recurses(registry, exclusions, prop, path, acc) ==
  IF "COLLAPSIBLE" \in prop.flags
    THEN IterateProps(registry, exclusions, registry[prop.dtName], path, acc)
    ELSE [acc EXCEPT !.out = GatherProps(registry, exclusions, registry[prop.dtName], path, @)]

\* iterateProps, on the block and list `into`.  `path` holds the tables it is
\* inside of: the clone of `visited`.  `pending` is the last INSIDEARRAY prop
\* of this table, the element of the array that follows it.
IterateProps(registry, exclusions, table, visited, into) ==
  LET path == visited \cup {table.name}
      Element(prop) == prop.flags \cap {"EXCLUDE", "INSIDEARRAY"} = {"INSIDEARRAY"}
      Kept(prop) == /\ prop.flags \cap {"EXCLUDE", "INSIDEARRAY"} = {}
                    /\ <<table.name, prop.varName>> \notin exclusions
      Push(state, prop, element) ==
        [state EXCEPT !.acc.tmp = Append(@, Leaf(table, prop, element))]
      Step(state, prop) ==
        CASE Element(prop) -> [state EXCEPT !.pending = <<Leaf(table, prop, <<>>)>>]
          [] Kept(prop) /\ prop.type = "ARRAY" ->
               [Push(state, prop, state.pending) EXCEPT !.pending = <<>>]
          [] Kept(prop) /\ prop.type = "DATATABLE" /\ prop.dtName \in DOMAIN registry ->
               [state EXCEPT !.acc = Recurses(registry, exclusions, prop, path, @)]
          [] Kept(prop) /\ prop.type \notin {"ARRAY", "DATATABLE"} -> Push(state, prop, <<>>)
          [] OTHER -> state
  IN IF table.name \in visited THEN into
     ELSE FoldLeft(Step, [acc |-> into, pending |-> <<>>], table.props).acc

FlattenSendTable(registry, table) ==
  GatherProps(registry, GatherExclusions(registry, table), table, {}, <<>>)

-----------------------------------------------------------------------------
(* The eager loop over the classes, each flattened and sorted in turn. *)

Current == CHOOSE i \in DOMAIN classes : ~classes[i].flattened /\
                     \A j \in DOMAIN classes : ~classes[j].flattened => i <= j

AllFlattened == \A i \in DOMAIN classes : classes[i].flattened

SkipClass ==
  /\ stage = "flatten"
  /\ ~AllFlattened
  /\ classes[Current].sendTable = None
  /\ classes' = [classes EXCEPT ![Current].flattened = TRUE]
  /\ UNCHANGED <<unread, sendTables, stage>> /\ Idle

FlattenClass ==
  /\ stage = "flatten"
  /\ ~AllFlattened
  /\ classes[Current].sendTable # None
  /\ props' = FlattenSendTable(sendTables, sendTables[classes[Current].sendTable])
  /\ StartsSorting(props', order', bucket', writeIndex', readIndex')
  /\ stage' = "sort"
  /\ UNCHANGED <<unread, sendTables, classes>>

SortClass ==
  /\ stage = "sort"
  /\ SortNext
  /\ UNCHANGED <<unread, sendTables, classes, stage>>

ClassSorted ==
  /\ stage = "sort"
  /\ Sorted
  /\ classes' = [classes EXCEPT ![Current].flattenedProps = SortedList,
                                ![Current].flattened = TRUE]
  /\ stage' = "flatten"
  /\ UNCHANGED <<unread, sendTables>> /\ Idle

ReturnTables ==
  /\ stage = "flatten"
  /\ AllFlattened
  /\ stage' = "parsed"
  /\ UNCHANGED <<unread, sendTables, classes>> /\ Idle

InitTables ==
  /\ unread \in Payloads
  /\ sendTables = <<>>
  /\ classes = <<>>
  /\ stage = "tables"
  /\ props = <<>>
  /\ StartsSorting(props, order, bucket, writeIndex, readIndex)

NextTables ==
  \/ ReadTable \/ ReadEnd \/ TablesThrow
  \/ ReadClass \/ ClassInfoEnds
  \/ SkipClass \/ FlattenClass \/ SortClass \/ ClassSorted \/ ReturnTables

-----------------------------------------------------------------------------
(* The server's own list (SendTable_BuildHierarchy and the priority sort of *)
(* the game's engine), from the tables it sent: what a prop index means.    *)

\* The leaves of a table with its collapsible sub-tables in place (`own`),
\* and the lists of the others, in the order they are met (`before`).
RECURSIVE ServerBlock(_, _, _), ServerBefore(_, _, _), ServerExcludes(_, _)

ServerExcludes(tables, table) ==
  {<<p.dtName, p.varName>> : p \in {q \in Range(table.props) : "EXCLUDE" \in q.flags}}
  \cup UNION {ServerExcludes(tables, tables[p.dtName]) :
               p \in {q \in Range(table.props) : q.type = "DATATABLE" /\ "EXCLUDE" \notin q.flags}}

ServerList(tables, excluded, table) ==
  ServerBefore(tables, excluded, table) \o ServerBlock(tables, excluded, table)

Carried(excluded, table) ==
  SelectSeq(table.props, LAMBDA p :
    /\ p.flags \cap {"EXCLUDE", "INSIDEARRAY"} = {}
    /\ <<table.name, p.varName>> \notin excluded)

\* The element of an array is the prop declared right before it.
ServerLeaf(table, prop) ==
  LET at == CHOOSE i \in DOMAIN table.props : table.props[i] = prop
  IN Leaf(table, prop, IF prop.type = "ARRAY" THEN <<Leaf(table, table.props[at - 1], <<>>)>> ELSE <<>>)

ServerBlock(tables, excluded, table) ==
  LET carried == Carried(excluded, table)
      Part(p) == IF p.type # "DATATABLE" THEN <<ServerLeaf(table, p)>>
                 ELSE IF "COLLAPSIBLE" \in p.flags THEN ServerBlock(tables, excluded, tables[p.dtName])
                 ELSE <<>>
  IN FlattenSeq([i \in DOMAIN carried |-> Part(carried[i])])

ServerBefore(tables, excluded, table) ==
  LET subs == SelectSeq(Carried(excluded, table), LAMBDA p : p.type = "DATATABLE")
      Part(p) == IF "COLLAPSIBLE" \in p.flags
                   THEN ServerBefore(tables, excluded, tables[p.dtName])
                   ELSE ServerList(tables, excluded, tables[p.dtName])
  IN FlattenSeq([i \in DOMAIN subs |-> Part(subs[i])])

\* The engine's sort on the raw priorities: it looks for the next prop of the
\* bucket from the write head on, again after every swap; the CHANGES_OFTEN
\* props that are left belong to bucket 64.
RECURSIVE ServerSweep(_, _, _)
ServerSweep(list, start, priorities) ==
  LET p == CHOOSE m \in priorities : \A q \in priorities : m <= q
      Fits(x) == \/ x.prop.priority = p
                 \/ p = OftenBucket /\ "CHANGES_OFTEN" \in x.prop.flags
      found == {i \in start..Len(list) : Fits(list[i])}
      at == CHOOSE i \in found : \A j \in found : i <= j
  IN IF priorities = {} THEN list
     ELSE IF found = {} THEN ServerSweep(list, start, priorities \ {p})
     ELSE ServerSweep([list EXCEPT ![start] = list[at], ![at] = list[start]], start + 1, priorities)

ServerProps(tables, table) ==
  LET list == ServerList(tables, ServerExcludes(tables, table), table)
  IN ServerSweep(list, 1, {OftenBucket} \cup {list[i].prop.priority : i \in DOMAIN list})

\* Once parsed, every class has the props of the server's list at the server's
\* indices, whatever was flattened before it (exclusions and cycle guards are
\* per class) and in whatever order the tables came: an index names one prop.
FlattensAsServer ==
  stage = "parsed" =>
    \A i \in DOMAIN classes :
      classes[i].sendTable # None =>
        classes[i].flattenedProps = ServerProps(unread.server, unread.server[classes[i].sendTable])
=============================================================================
