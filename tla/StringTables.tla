---------------------------- MODULE StringTables ----------------------------
(***************************************************************************)
(* The string tables (src/stringtables), the three handlers of             *)
(* src/DemoParser.ts that fill them, and the userinfo index derived from   *)
(* one of them (src/state/userInfoIndex.ts).                               *)
(*                                                                         *)
(* A handler runs alone, but it may throw after some of its entries are    *)
(* stored, so it is one step per entry; `handler' is the one running.      *)
(* Keys and userdata are abstract: how a key is spelled on the wire, with  *)
(* the history ring, is left out, and any entry may carry any key.  A      *)
(* userdata blob is the user it decodes to, or None when there is none or  *)
(* it is too short; the userdata of the other tables is left out.          *)
(***************************************************************************)
EXTENDS Integers, Sequences

CONSTANTS
    Names,              \* of tables
    UserInfo,           \* the table the index is derived from
    Keys,
    Blank,              \* the key of an entry that never had one
    Users,
    Capacities,         \* maxEntries of the tables the server creates
    SnapshotCapacity,   \* of a table only a snapshot told of; 256 or more
    MaxCapacity,        \* bound
    None                \* undefined

ASSUME StringTablesAssumption ==
    /\ UserInfo \in Names
    /\ Blank \in Keys
    /\ MaxCapacity \in Nat
    /\ Capacities \subseteq 0 .. MaxCapacity
    /\ SnapshotCapacity \in 0 .. MaxCapacity
    /\ None \notin Keys \cup Users
    /\ None \notin Int

Indices == 0 .. MaxCapacity - 1
Entries == [key : Keys, user : Users \cup {None}]
Absent == [key |-> None, user |-> None]

Tables ==
    [name : Names, maxEntries : 0 .. MaxCapacity,
     entries : [Indices -> Entries \cup {Absent}],
     keyToIndex : [Keys -> Indices \cup {None}]]

VARIABLES
    tables,     \* StringTableManager.byId
    index,      \* the UserInfoIndex, or None until its getter is read
    handler,    \* the handler running and how far it is
    torn,       \* a failed handler wrote to userinfo since the last refresh
    sent,       \* names of the tables the server created, in its order
    shifted     \* a create was lost, or a snapshot registered a table

vars == <<tables, index, handler, torn, sent, shifted>>

Idle == [kind |-> "none", table |-> 0, last |-> -1, refresh |-> FALSE]

Init ==
    /\ tables = << >>
    /\ index = None
    /\ handler = Idle
    /\ torn = FALSE
    /\ sent = << >>
    /\ shifted = FALSE

-----------------------------------------------------------------------------
(* Tables *)

NewTable(name, maxEntries) ==
    [name |-> name, maxEntries |-> maxEntries,
     entries |-> [i \in Indices |-> Absent],
     keyToIndex |-> [k \in Keys |-> None]]

Registered(name) == \E id \in DOMAIN tables : tables[id].name = name

Rekeys(t, i, key) == t.entries[i] = Absent \/ t.entries[i].key # key

SetEntryStrands(t, i, key, user) ==     \* variant: the old key's mapping is kept
    [t EXCEPT !.entries[i] = [key |-> key, user |-> user],
              !.keyToIndex = IF Rekeys(t, i, key) THEN [@ EXCEPT ![key] = i] ELSE @]

SetEntryDrops(t, i, key, user) ==       \* variant: ... is dropped wherever it points
    [t EXCEPT !.entries[i] = [key |-> key, user |-> user],
              !.keyToIndex =
                  IF Rekeys(t, i, key)
                    THEN [k \in Keys |-> IF k = key THEN i
                                         ELSE IF k = t.entries[i].key THEN None
                                         ELSE t.keyToIndex[k]]
                    ELSE @]

\* The mapping of the key an entry loses is dropped, unless it points to another entry.
SetEntry(t, i, key, user) ==
    [t EXCEPT !.entries[i] = [key |-> key, user |-> user],
              !.keyToIndex =
                  IF Rekeys(t, i, key)
                    THEN [k \in Keys |-> IF k = key THEN i
                                         ELSE IF k = t.entries[i].key /\ t.keyToIndex[k] = i
                                           THEN None
                                         ELSE t.keyToIndex[k]]
                    ELSE @]

-----------------------------------------------------------------------------
(* The userinfo index *)

IsLastSlot(s, u, slotToUser) ==
    /\ slotToUser[s] = u
    /\ \A t \in Indices : slotToUser[t] = u => t <= s

\* The slots are walked in order and a later one overwrites an earlier one.
SlotOf(u, slotToUser) ==
    IF \E s \in Indices : IsLastSlot(s, u, slotToUser)
      THEN CHOOSE s \in Indices : IsLastSlot(s, u, slotToUser)
      ELSE None

\* The user of each entry of userinfo.
UsersOf(ts) ==
    [s \in Indices |->
        IF \E id \in DOMAIN ts : ts[id].name = UserInfo
          THEN ts[CHOOSE id \in DOMAIN ts : ts[id].name = UserInfo].entries[s].user
          ELSE None]

RefreshedUncleared(ts) ==               \* variant: the maps are not cleared first
    [slotToUserId |-> UsersOf(ts),
     userIdToSlot |-> [u \in Users |->
        IF SlotOf(u, UsersOf(ts)) = None /\ index # None
          THEN index.userIdToSlot[u] ELSE SlotOf(u, UsersOf(ts))]]

\* refresh() on the tables `ts'.
Refreshed(ts) ==
    [slotToUserId |-> UsersOf(ts),
     userIdToSlot |-> [u \in Users |-> SlotOf(u, UsersOf(ts))]]

\* The getter userInfoIndex.  Listeners and enrichers read it between handlers.
ReadIndex ==
    /\ handler = Idle
    /\ index = None
    /\ index' = Refreshed(tables)
    /\ torn' = FALSE
    /\ UNCHANGED <<tables, handler, sent, shifted>>

-----------------------------------------------------------------------------
(* Handlers of CreateStringTable and UpdateStringTable *)

\* The server creates a table once.
Sends(name) ==
    /\ \A n \in DOMAIN sent : sent[n] # name
    /\ sent' = Append(sent, name)

\* The message does not decode: its handler never runs.
CreateLost(name) ==
    /\ handler = Idle
    /\ Sends(name)
    /\ shifted' = TRUE
    /\ UNCHANGED <<tables, index, handler, torn>>

\* The name is taken: register throws.
CreateDuplicate(name) ==
    /\ handler = Idle
    /\ Sends(name)
    /\ Registered(name)
    /\ UNCHANGED <<tables, index, handler, torn, shifted>>

CreateTable(name, maxEntries) ==
    /\ handler = Idle
    /\ Sends(name)
    /\ ~ Registered(name)
    /\ tables' = Append(tables, NewTable(name, maxEntries))
    /\ handler' = [kind |-> "create", table |-> Len(tables'), last |-> -1,
                   refresh |-> name = UserInfo]
    /\ UNCHANGED <<index, torn, shifted>>

\* An update of a table that is not known, or of no entry, returns at once: no step.
UpdateTable(id) ==
    /\ handler = Idle
    /\ id \in DOMAIN tables
    /\ handler' = [kind |-> "update", table |-> id, last |-> -1,
                   refresh |-> tables[id].name = UserInfo]
    /\ UNCHANGED <<tables, index, torn, sent, shifted>>

Store(i, key, user) ==
    /\ user # None => tables[handler.table].name = UserInfo
    /\ tables' = [tables EXCEPT ![handler.table] = SetEntry(@, i, key, user)]
    /\ handler' = [handler EXCEPT !.last = i]
    /\ UNCHANGED <<index, torn, sent, shifted>>

StreamEntryKeyless(i, user) ==          \* variant: an entry without a key keeps none
    /\ handler.kind \in {"create", "update"}
    /\ i < tables[handler.table].maxEntries
    /\ \E key \in Keys \cup {tables[handler.table].entries[i].key} : Store(i, key, user)

\* An entry of the bit stream: with a key, or with the one the index has.
StreamEntry(i, user) ==
    /\ handler.kind \in {"create", "update"}
    /\ i < tables[handler.table].maxEntries
    /\ LET old == tables[handler.table].entries[i]
       IN  \E key \in Keys \cup {IF old = Absent THEN Blank ELSE old.key} : Store(i, key, user)

StreamThrowsUnregisters ==              \* variant: a table is registered once filled
    /\ handler.kind \in {"create", "update"}
    /\ tables' = IF handler.kind = "create" THEN SubSeq(tables, 1, Len(tables) - 1) ELSE tables
    /\ handler' = Idle
    /\ torn' = (torn \/ (handler.refresh /\ handler.last >= 0))
    /\ UNCHANGED <<index, sent, shifted>>

\* The payload does not decompress, the stream runs out or an index is out of range.
\* What was stored stays, and the index is not refreshed.
StreamThrows ==
    /\ handler.kind \in {"create", "update"}
    /\ handler' = Idle
    /\ torn' = (torn \/ (handler.refresh /\ handler.last >= 0))
    /\ UNCHANGED <<tables, index, sent, shifted>>

\* The refresh that ends a handler; the event it then emits finds the index current.
Finish ==
    /\ handler' = Idle
    /\ index' = IF handler.refresh /\ index # None THEN Refreshed(tables) ELSE index
    /\ torn' = (torn /\ ~ handler.refresh)
    /\ UNCHANGED <<tables, sent, shifted>>

EndOfStream ==
    /\ handler.kind = "create" \/ (handler.kind = "update" /\ handler.last >= 0)
    /\ Finish

-----------------------------------------------------------------------------
(* Handler of a dem_stringtables snapshot: the blob is parsed before anything changes *)

Snapshot ==
    /\ handler = Idle
    /\ handler' = [Idle EXCEPT !.kind = "snapshot"]
    /\ UNCHANGED <<tables, index, torn, sent, shifted>>

SnapshotTableReseeds(name) ==           \* variant: wipes the table it finds
    /\ handler.kind = "snapshot"
    /\ \E id \in DOMAIN tables :
          /\ tables[id].name = name
          /\ tables' = [tables EXCEPT ![id] = NewTable(name, @.maxEntries)]
          /\ handler' = [handler EXCEPT !.table = id, !.last = -1,
                                        !.refresh = @ \/ name = UserInfo]
    /\ UNCHANGED <<index, torn, sent, shifted>>

SnapshotTableForgets(name) ==           \* variant: a later table clears userInfoTouched
    /\ handler.kind = "snapshot"
    /\ \E id \in DOMAIN tables :
          /\ tables[id].name = name
          /\ handler' = [handler EXCEPT !.table = id, !.last = -1,
                                        !.refresh = name = UserInfo]
    /\ UNCHANGED <<tables, index, torn, sent, shifted>>

\* The next table of the snapshot, registered when it is not known.
SnapshotTable(name) ==
    /\ handler.kind = "snapshot"
    /\ \/ Registered(name) /\ UNCHANGED <<tables, shifted>>
       \/ /\ ~ Registered(name)
          /\ tables' = Append(tables, NewTable(name, SnapshotCapacity))
          /\ shifted' = TRUE
    /\ \E id \in DOMAIN tables' :
          /\ tables'[id].name = name
          /\ handler' = [handler EXCEPT !.table = id, !.last = -1,
                                        !.refresh = @ \/ name = UserInfo]
    /\ UNCHANGED <<index, torn, sent>>

\* Regular entries count up from 0 and client entries go on from there; those that do
\* not fit are left out.
SnapshotEntry(i, key, user) ==
    /\ handler.kind = "snapshot"
    /\ handler.table # 0
    /\ i = handler.last + 1
    /\ i < tables[handler.table].maxEntries
    /\ Store(i, key, user)

EndOfSnapshot ==
    /\ handler.kind = "snapshot"
    /\ Finish

Next ==
    \/ ReadIndex
    \/ \E name \in Names :
          \/ CreateLost(name)
          \/ CreateDuplicate(name)
          \/ \E maxEntries \in Capacities : CreateTable(name, maxEntries)
          \/ SnapshotTable(name)
    \/ \E id \in DOMAIN tables : UpdateTable(id)
    \/ \E i \in Indices, user \in Users \cup {None} :
          \/ StreamEntry(i, user)
          \/ \E key \in Keys : SnapshotEntry(i, key, user)
    \/ StreamThrows
    \/ EndOfStream
    \/ Snapshot
    \/ EndOfSnapshot

Spec == Init /\ [][Next]_vars

-----------------------------------------------------------------------------
(* Properties *)

TypeOK ==
    /\ tables \in Seq(Tables)
    /\ index \in {None} \cup [slotToUserId : [Indices -> Users \cup {None}],
                            userIdToSlot : [Users -> Indices \cup {None}]]
    /\ handler \in [kind : {"none", "create", "update", "snapshot"},
                    table : DOMAIN tables \cup {0},
                    last : Indices \cup {-1},
                    refresh : BOOLEAN]
    /\ handler.kind \in {"create", "update"} => handler.table # 0
    /\ torn \in BOOLEAN
    /\ sent \in Seq(Names)
    /\ shifted \in BOOLEAN

\* However entries are re-keyed, share keys or take each other's: getByName(k) never
\* returns an entry whose key is not k.
KeyLookupSound ==
    \A id \in DOMAIN tables : \A k \in Keys :
        LET i == tables[id].keyToIndex[k]
        IN  i # None => tables[id].entries[i].key = k

\* A key that can be looked up stays so for as long as the entry it leads to keeps it,
\* even when another entry that had the same key is given a new one.
KeyNotLost ==
    [][\A id \in DOMAIN tables : \A k \in Keys :
          LET i == tables[id].keyToIndex[k]
          IN  i # None /\ tables'[id].keyToIndex[k] = None => tables'[id].entries[i].key # k]_vars

\* A consumer's table and its indices are for ever: no table is replaced, not even by a
\* snapshot of it, and no entry disappears.
TablesOnlyGrow ==
    [][\A id \in DOMAIN tables :
          /\ id \in DOMAIN tables'
          /\ tables'[id].name = tables[id].name
          /\ \A i \in Indices : tables[id].entries[i] # Absent
                                  => tables'[id].entries[i] # Absent]_vars

\* An UpdateStringTable names its table by the server's id: a create whose entries fail
\* still takes its id, so that later updates do not land in other tables.
IdsFollowServer ==
    ~ shifted => \A id \in DOMAIN tables : id \in DOMAIN sent /\ tables[id].name = sent[id]

\* The roster that enrichers see is the userinfo table, whichever of the three handlers
\* changed it last, whenever the index was built; only a handler that failed half way
\* leaves it behind, and only until the next one that succeeds.
IndexFollowsUserinfo ==
    handler = Idle /\ index # None /\ ~ torn => index = Refreshed(tables)

\* A slot found for a user is not given to another by the reverse lookup, even when the
\* user moved or sits in two slots.
LookupsAgree ==
    index # None =>
        \A u \in Users : LET s == index.userIdToSlot[u]
                         IN  s # None => index.slotToUserId[s] = u

=============================================================================
