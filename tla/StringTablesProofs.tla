------------------------- MODULE StringTablesProofs -------------------------
(***************************************************************************)
(* Theorems about the string tables and the userinfo index, for every set  *)
(* of tables, keys and users and every capacity; and about the wire forms  *)
(* of a string table, for messages and snapshots of any length, keys and   *)
(* userdata of any bytes they have room for, and wherever they are cut.    *)
(***************************************************************************)
EXTENDS StringTables, StringWire, BitStreamProofs

-----------------------------------------------------------------------------
(* Tables and the index as values *)

\* A table just registered is empty and finds no key.
LEMMA NewTableType ==
    ASSUME NEW name \in Names, NEW n \in 0 .. MaxCapacity
    PROVE  /\ NewTable(name, n) \in Tables
           /\ NewTable(name, n).name = name
           /\ NewTable(name, n).entries = [i \in Indices |-> Absent]
           /\ NewTable(name, n).keyToIndex = [k \in Keys |-> None]
  BY DEF NewTable, Tables

\* What setEntry changes: one entry, the mapping of its new key and, when no other
\* entry has taken it over, the mapping of its old one.
LEMMA SetEntryEffect ==
    ASSUME NEW t \in Tables, NEW i \in Indices, NEW key \in Keys,
           NEW user \in Users \cup {None}
    PROVE  /\ SetEntry(t, i, key, user) \in Tables
           /\ SetEntry(t, i, key, user).name = t.name
           /\ SetEntry(t, i, key, user).entries =
                [t.entries EXCEPT ![i] = [key |-> key, user |-> user]]
           /\ SetEntry(t, i, key, user).keyToIndex =
                IF Rekeys(t, i, key)
                  THEN [k \in Keys |-> IF k = key THEN i
                                       ELSE IF k = t.entries[i].key /\ t.keyToIndex[k] = i
                                         THEN None
                                       ELSE t.keyToIndex[k]]
                  ELSE t.keyToIndex
  <1> DEFINE e == [t.entries EXCEPT ![i] = [key |-> key, user |-> user]]
             m == IF Rekeys(t, i, key)
                    THEN [k \in Keys |-> IF k = key THEN i
                                         ELSE IF k = t.entries[i].key /\ t.keyToIndex[k] = i
                                           THEN None
                                         ELSE t.keyToIndex[k]]
                    ELSE t.keyToIndex
             r == SetEntry(t, i, key, user)
  <1>1. r = [t EXCEPT !.entries = e, !.keyToIndex = m]
    BY DEF SetEntry, Tables
  <1>2. e \in [Indices -> Entries \cup {Absent}]
    BY DEF Tables, Entries
  <1>3. m \in [Keys -> Indices \cup {None}]
    BY DEF Tables
  <1> HIDE DEF e, m, r
  <1>4. r \in Tables /\ r.name = t.name /\ r.entries = e /\ r.keyToIndex = m
    BY <1>1, <1>2, <1>3 DEF Tables
  <1> QED
    BY <1>4 DEF e, m, r

\* setEntry never renames the table.
LEMMA SetEntryKeepsName ==
    ASSUME NEW t \in Tables, NEW i \in Indices, NEW key \in Keys,
           NEW user \in Users \cup {None}
    PROVE  SetEntry(t, i, key, user).name = t.name
  BY DEF SetEntry, Tables

\* setEntry keeps a table well typed.
LEMMA SetEntryIsTable ==
    ASSUME NEW t \in Tables, NEW i \in Indices, NEW key \in Keys,
           NEW user \in Users \cup {None}
    PROVE  SetEntry(t, i, key, user) \in Tables
  <1>1. /\ SetEntry(t, i, key, user) \in Tables
        /\ SetEntry(t, i, key, user).name = t.name
        /\ SetEntry(t, i, key, user).entries =
              [t.entries EXCEPT ![i] = [key |-> key, user |-> user]]
        /\ SetEntry(t, i, key, user).keyToIndex =
              IF Rekeys(t, i, key)
                THEN [k \in Keys |-> IF k = key THEN i
                                     ELSE IF k = t.entries[i].key /\ t.keyToIndex[k] = i
                                       THEN None
                                     ELSE t.keyToIndex[k]]
                ELSE t.keyToIndex
    BY SetEntryEffect
  <1> QED
    BY <1>1

\* getByName of one table leads to entries with the key asked for.
Sound(t) == \A k \in Keys : t.keyToIndex[k] # None => t.entries[t.keyToIndex[k]].key = k

\* setEntry keeps every lookup right, whichever keys entries gain, lose or share.
LEMMA SetEntrySound ==
    ASSUME NEW t \in Tables, Sound(t), NEW i \in Indices, NEW key \in Keys,
           NEW user \in Users \cup {None}
    PROVE  Sound(SetEntry(t, i, key, user))
  <1> DEFINE r == SetEntry(t, i, key, user)
  <1>0. SetEntry(t, i, key, user) = r
    OBVIOUS
  <1>1. /\ r.entries = [t.entries EXCEPT ![i] = [key |-> key, user |-> user]]
        /\ r.keyToIndex =
                IF Rekeys(t, i, key)
                  THEN [k \in Keys |-> IF k = key THEN i
                                       ELSE IF k = t.entries[i].key /\ t.keyToIndex[k] = i
                                         THEN None
                                       ELSE t.keyToIndex[k]]
                  ELSE t.keyToIndex
    BY SetEntryEffect
  <1> HIDE DEF r
  <1> SUFFICES ASSUME NEW k \in Keys, r.keyToIndex[k] # None
               PROVE  r.entries[r.keyToIndex[k]].key = k
    BY <1>0 DEF Sound
  <1>2. t.entries \in [Indices -> Entries \cup {Absent}]
        /\ t.keyToIndex \in [Keys -> Indices \cup {None}]
    BY DEF Tables
  <1>3. CASE Rekeys(t, i, key) /\ k = key
    BY <1>1, <1>2, <1>3
  <1>4. CASE Rekeys(t, i, key) /\ k # key
    <2>1. r.keyToIndex[k] = t.keyToIndex[k]
          /\ ~ (k = t.entries[i].key /\ t.keyToIndex[k] = i)
      BY <1>1, <1>2, <1>4
    <2>2. t.entries[t.keyToIndex[k]].key = k /\ t.keyToIndex[k] \in Indices
      BY <2>1, <1>2 DEF Sound
    <2>3. t.keyToIndex[k] # i
      BY <2>1, <2>2
    <2> QED
      BY <2>1, <2>2, <2>3, <1>1, <1>2
  <1>5. CASE ~ Rekeys(t, i, key)
    <2>1. r.keyToIndex[k] = t.keyToIndex[k] /\ t.entries[i].key = key
      BY <1>1, <1>5 DEF Rekeys
    <2>2. t.entries[t.keyToIndex[k]].key = k /\ t.keyToIndex[k] \in Indices
      BY <2>1, <1>2 DEF Sound
    <2> QED
      BY <2>1, <2>2, <1>1, <1>2
  <1> QED
    BY <1>3, <1>4, <1>5

\* A user found in some slot is found in one that holds that user.
LEMMA SlotOfHolds ==
    ASSUME NEW f, NEW u \in Users
    PROVE  /\ SlotOf(u, f) \in Indices \cup {None}
           /\ SlotOf(u, f) # None => f[SlotOf(u, f)] = u
  BY DEF SlotOf, IsLastSlot

\* The users read from the tables are users or none.
LEMMA UsersOfType ==
    ASSUME NEW ts \in Seq(Tables)
    PROVE  UsersOf(ts) \in [Indices -> Users \cup {None}]
  <1> SUFFICES ASSUME NEW s \in Indices, NEW id \in DOMAIN ts
               PROVE  ts[id].entries[s].user \in Users \cup {None}
    BY DEF UsersOf
  <1>1. ts[id] \in Tables
    OBVIOUS
  <1>2. ts[id].entries[s] \in Entries \cup {Absent}
    BY <1>1 DEF Tables
  <1> QED
    BY <1>2 DEF Entries, Absent

IndexType == [slotToUserId : [Indices -> Users \cup {None}],
              userIdToSlot : [Users -> Indices \cup {None}]]

\* The two maps of an index do not contradict each other.
Agrees(x) == \A u \in Users : x.userIdToSlot[u] # None => x.slotToUserId[x.userIdToSlot[u]] = u

\* An index just refreshed is well typed and its two maps agree.
LEMMA RefreshedAgrees ==
    ASSUME NEW ts \in Seq(Tables)
    PROVE  Refreshed(ts) \in IndexType /\ Agrees(Refreshed(ts))
  <1>1. UsersOf(ts) \in [Indices -> Users \cup {None}]
    BY UsersOfType
  <1>2. \A u \in Users : /\ SlotOf(u, UsersOf(ts)) \in Indices \cup {None}
                         /\ SlotOf(u, UsersOf(ts)) # None
                              => UsersOf(ts)[SlotOf(u, UsersOf(ts))] = u
    BY SlotOfHolds
  <1> QED
    BY <1>1, <1>2 DEF Refreshed, IndexType, Agrees

OneEach(ts) == \A a, b \in DOMAIN ts : ts[a].name = ts[b].name => a = b

\* Names being unique, the users are those of any table called userinfo.
LEMMA UsersOfThe ==
    ASSUME NEW ts, OneEach(ts), NEW id \in DOMAIN ts, ts[id].name = UserInfo
    PROVE  UsersOf(ts) = [s \in Indices |-> ts[id].entries[s].user]
  <1>1. (CHOOSE a \in DOMAIN ts : ts[a].name = UserInfo) = id
    BY DEF OneEach
  <1> QED
    BY <1>1 DEF UsersOf

\* A table registered empty changes nobody's slot, whatever its name.
LEMMA RegisteringKeepsUsers ==
    ASSUME NEW ts \in Seq(Tables), OneEach(ts), NEW name \in Names,
           NEW n \in 0 .. MaxCapacity,
           \A id \in DOMAIN ts : ts[id].name # name
    PROVE  /\ OneEach(Append(ts, NewTable(name, n)))
           /\ UsersOf(Append(ts, NewTable(name, n))) = UsersOf(ts)
  <1> DEFINE t == NewTable(name, n)
             r == Append(ts, t)
  <1>1. t \in Tables /\ t.name = name /\ t.entries = [i \in Indices |-> Absent]
    BY NewTableType
  <1> HIDE DEF t
  <1>2. /\ DOMAIN ts = 1 .. Len(ts)
        /\ DOMAIN r = 1 .. Len(ts) + 1
        /\ r[Len(ts) + 1] = t
        /\ \A id \in DOMAIN ts : id \in DOMAIN r /\ r[id] = ts[id]
    BY <1>1
  <1> HIDE DEF r
  <1>3. Len(ts) \in Nat
    OBVIOUS
  <1>4. OneEach(r)
    <2> SUFFICES ASSUME NEW a \in DOMAIN r, NEW b \in DOMAIN r, r[a].name = r[b].name
                 PROVE  a = b
      BY DEF OneEach
    <2>1. /\ a \in DOMAIN ts \/ a = Len(ts) + 1
          /\ b \in DOMAIN ts \/ b = Len(ts) + 1
      BY <1>2, <1>3
    <2> QED
      BY <2>1, <1>1, <1>2 DEF OneEach
  <1>5. UsersOf(r) = UsersOf(ts)
    <2>1. CASE \E id \in DOMAIN ts : ts[id].name = UserInfo
      <3> PICK id \in DOMAIN ts : ts[id].name = UserInfo
        BY <2>1
      <3> QED
        BY UsersOfThe, <1>2, <1>4
    <2>2. CASE name = UserInfo
      <3>1. UsersOf(ts) = [s \in Indices |-> None]
        BY <2>2 DEF UsersOf
      <3>2. Len(ts) + 1 \in DOMAIN r
        BY <1>2, <1>3
      <3>3. UsersOf(r) = [s \in Indices |-> r[Len(ts) + 1].entries[s].user]
        BY <3>2, UsersOfThe, <1>1, <1>2, <1>4, <2>2
      <3> QED
        BY <3>1, <3>3, <1>1, <1>2 DEF Absent
    <2>3. CASE name # UserInfo /\ \A id \in DOMAIN ts : ts[id].name # UserInfo
      <3>1. \A id \in DOMAIN r : r[id].name # UserInfo
        BY <2>3, <1>1, <1>2, <1>3
      <3> QED
        BY <3>1, <2>3 DEF UsersOf
    <2> QED
      BY <2>1, <2>2, <2>3
  <1> QED
    BY <1>4, <1>5 DEF r, t

\* A change to another table changes nobody's slot.
LEMMA StoringKeepsUsers ==
    ASSUME NEW ts, NEW r, NEW id, OneEach(ts), ts[id].name # UserInfo,
           DOMAIN r = DOMAIN ts,
           \A a \in DOMAIN ts : r[a].name = ts[a].name /\ (a # id => r[a] = ts[a])
    PROVE  UsersOf(r) = UsersOf(ts)
  <1>1. OneEach(r)
    BY DEF OneEach
  <1>2. CASE \E a \in DOMAIN ts : ts[a].name = UserInfo
    <2> PICK a \in DOMAIN ts : ts[a].name = UserInfo
      BY <1>2
    <2>1. r[a] = ts[a] /\ r[a].name = UserInfo /\ a \in DOMAIN r
      OBVIOUS
    <2> QED
      BY <2>1, UsersOfThe, <1>1
  <1>3. CASE \A a \in DOMAIN ts : ts[a].name # UserInfo
    BY <1>3 DEF UsersOf
  <1> QED
    BY <1>2, <1>3

-----------------------------------------------------------------------------
(* The inductive invariant *)

NamedOnce == OneEach(tables)

AllSound == \A id \in DOMAIN tables : Sound(tables[id])

\* Until one is lost or a snapshot adds one, the tables are those the server created.
AsSent == ~ shifted => /\ Len(tables) = Len(sent)
                       /\ \A id \in DOMAIN tables : tables[id].name = sent[id]

\* A handler that writes to userinfo has the refresh ahead of it.
RefreshAhead ==
    /\ handler.kind = "none" => handler = Idle
    /\ handler.table # 0 /\ tables[handler.table].name = UserInfo => handler.refresh
    /\ handler.table # 0 => handler.kind # "none"

\* A handler that has not written to userinfo: not a snapshot, of which only the table
\* it is at is known, and before its first entry.
Unwritten == handler.refresh => handler.kind # "snapshot" /\ handler.last = -1

Tracks == index # None /\ ~ torn /\ Unwritten => index = Refreshed(tables)

IndexAgrees == index # None => Agrees(index)

IInv ==
    /\ TypeOK
    /\ NamedOnce
    /\ AllSound
    /\ AsSent
    /\ RefreshAhead
    /\ Tracks
    /\ IndexAgrees

-----------------------------------------------------------------------------
(* The three things a step does to the tables *)

Registers ==
    \E name \in Names, n \in 0 .. MaxCapacity :
        /\ ~ Registered(name)
        /\ tables' = Append(tables, NewTable(name, n))

Stores ==
    /\ handler.table \in DOMAIN tables
    /\ \E i \in Indices, key \in Keys, user \in Users \cup {None} :
          tables' = [tables EXCEPT ![handler.table] = SetEntry(@, i, key, user)]

\* A step leaves the tables alone, registers one or stores one entry.
LEMMA TablesStep ==
    ASSUME TypeOK, [Next]_vars
    PROVE  tables' = tables \/ Registers \/ Stores
  <1>1. CASE \E name \in Names, n \in Capacities : CreateTable(name, n)
    BY <1>1, StringTablesAssumption DEF CreateTable, Registers
  <1>2. CASE \E name \in Names : SnapshotTable(name)
    BY <1>2, StringTablesAssumption DEF SnapshotTable, Registers
  <1>3. ASSUME NEW i \in Indices, NEW user \in Users \cup {None}, StreamEntry(i, user)
        PROVE  Stores
    <2>1. handler.table \in DOMAIN tables
      BY <1>3 DEF StreamEntry, TypeOK
    <2>2. tables[handler.table] \in Tables
      BY <2>1 DEF TypeOK
    <2>3. LET old == tables[handler.table].entries[i]
          IN  (IF old = Absent THEN Blank ELSE old.key) \in Keys
      BY <2>2, StringTablesAssumption DEF Tables, Entries
    <2>4. PICK key \in Keys : Store(i, key, user)
      BY <1>3, <2>3 DEF StreamEntry
    <2> QED
      BY <2>1, <2>4 DEF Store, Stores
  <1>4. ASSUME NEW i \in Indices, NEW user \in Users \cup {None}, NEW key \in Keys,
               SnapshotEntry(i, key, user)
        PROVE  Stores
    BY <1>4 DEF SnapshotEntry, Store, Stores, TypeOK
  <1>5. CASE UNCHANGED vars
    BY <1>5 DEF vars
  <1> QED
    BY <1>1, <1>2, <1>3, <1>4, <1>5
    DEF Next, ReadIndex, CreateLost, CreateDuplicate, UpdateTable, StreamThrows,
        EndOfStream, Snapshot, EndOfSnapshot, Finish

\* Replacing one member of a sequence.
LEMMA ExceptIsSeq ==
    ASSUME NEW S, NEW ts \in Seq(S), NEW id \in DOMAIN ts, NEW x \in S
    PROVE  /\ [ts EXCEPT ![id] = x] \in Seq(S)
           /\ DOMAIN [ts EXCEPT ![id] = x] = DOMAIN ts
           /\ [ts EXCEPT ![id] = x][id] = x
           /\ \A a \in DOMAIN ts : a # id => [ts EXCEPT ![id] = x][a] = ts[a]
  OBVIOUS

\* Storing an entry changes one table, and not its name.
LEMMA StoresEffect ==
    ASSUME TypeOK, Stores
    PROVE  /\ handler.table \in DOMAIN tables
           /\ tables' \in Seq(Tables)
           /\ DOMAIN tables' = DOMAIN tables
           /\ \A a \in DOMAIN tables : /\ tables'[a].name = tables[a].name
                                       /\ a # handler.table => tables'[a] = tables[a]
           /\ \E i \in Indices, key \in Keys, user \in Users \cup {None} :
                 tables'[handler.table] = SetEntry(tables[handler.table], i, key, user)
  <1> PICK i \in Indices, key \in Keys, user \in Users \cup {None} :
        tables' = [tables EXCEPT ![handler.table] = SetEntry(@, i, key, user)]
    BY DEF Stores
  <1> DEFINE id == handler.table
             t == SetEntry(tables[id], i, key, user)
  <1>1. tables \in Seq(Tables) /\ id \in DOMAIN tables /\ tables[id] \in Tables
    BY DEF Stores, TypeOK
  <1>2. t \in Tables /\ t.name = tables[id].name
    BY <1>1, SetEntryIsTable, SetEntryKeepsName
  <1>3. tables' = [tables EXCEPT ![id] = t]
    OBVIOUS
  <1>4. \E j \in Indices, k \in Keys, u \in Users \cup {None} : t = SetEntry(tables[id], j, k, u)
    OBVIOUS
  <1> HIDE DEF t, id
  <1>5. /\ tables' \in Seq(Tables)
        /\ DOMAIN tables' = DOMAIN tables
        /\ tables'[id] = t
        /\ \A a \in DOMAIN tables : a # id => tables'[a] = tables[a]
    <2>1. /\ [tables EXCEPT ![id] = t] \in Seq(Tables)
          /\ DOMAIN [tables EXCEPT ![id] = t] = DOMAIN tables
          /\ [tables EXCEPT ![id] = t][id] = t
          /\ \A a \in DOMAIN tables : a # id => [tables EXCEPT ![id] = t][a] = tables[a]
      BY <1>1, <1>2, ExceptIsSeq
    <2> QED
      BY <2>1, <1>3, Zenon
  <1>6. \A a \in DOMAIN tables : /\ tables'[a].name = tables[a].name
                                 /\ a # id => tables'[a] = tables[a]
    BY <1>2, <1>5
  <1> QED
    BY <1>1, <1>4, <1>5, <1>6 DEF id

\* What holds of the tables whatever the step.
LEMMA TablesKept ==
    ASSUME TypeOK, NamedOnce, AllSound, [Next]_vars
    PROVE  /\ tables' \in Seq(Tables)
           /\ NamedOnce'
           /\ AllSound'
           /\ DOMAIN tables \subseteq DOMAIN tables'
           /\ \A id \in DOMAIN tables : tables'[id].name = tables[id].name
  <1>0. tables \in Seq(Tables) /\ \A id \in DOMAIN tables : tables[id] \in Tables
    BY DEF TypeOK
  <1>1. CASE tables' = tables
    BY <1>0, <1>1 DEF NamedOnce, AllSound, OneEach
  <1>2. CASE Registers
    <2> PICK name \in Names, n \in 0 .. MaxCapacity :
          /\ ~ Registered(name)
          /\ tables' = Append(tables, NewTable(name, n))
      BY <1>2 DEF Registers
    <2>1. /\ NewTable(name, n) \in Tables
          /\ NewTable(name, n).name = name
          /\ NewTable(name, n).entries = [i \in Indices |-> Absent]
          /\ NewTable(name, n).keyToIndex = [k \in Keys |-> None]
      BY NewTableType
    <2>2. NamedOnce'
      <3>1. /\ OneEach(Append(tables, NewTable(name, n)))
            /\ UsersOf(Append(tables, NewTable(name, n))) = UsersOf(tables)
        BY <1>0, RegisteringKeepsUsers DEF Registered, NamedOnce
      <3> QED
        BY <3>1 DEF NamedOnce, OneEach
    <2>3. Sound(NewTable(name, n))
      BY <2>1 DEF Sound
    <2>4. \A id \in DOMAIN tables' : \/ id \in DOMAIN tables /\ tables'[id] = tables[id]
                                     \/ tables'[id] = NewTable(name, n)
      BY <1>0, <2>1
    <2> QED
      BY <1>0, <2>1, <2>2, <2>3, <2>4 DEF AllSound
  <1>3. CASE Stores
    <2>1. /\ handler.table \in DOMAIN tables
          /\ tables' \in Seq(Tables)
          /\ DOMAIN tables' = DOMAIN tables
          /\ \A a \in DOMAIN tables : /\ tables'[a].name = tables[a].name
                                      /\ a # handler.table => tables'[a] = tables[a]
          /\ \E i \in Indices, key \in Keys, user \in Users \cup {None} :
                tables'[handler.table] = SetEntry(tables[handler.table], i, key, user)
      BY <1>3, StoresEffect
    <2>2. Sound(tables'[handler.table])
      <3>1. PICK i \in Indices, key \in Keys, user \in Users \cup {None} :
              tables'[handler.table] = SetEntry(tables[handler.table], i, key, user)
        BY <2>1
      <3>2. tables[handler.table] \in Tables /\ Sound(tables[handler.table])
        BY <1>0, <2>1 DEF AllSound
      <3>3. Sound(SetEntry(tables[handler.table], i, key, user))
        BY <3>2, SetEntrySound
      <3> QED
        BY <3>1, <3>3, Zenon
    <2>3. AllSound'
      <3> SUFFICES ASSUME NEW a \in DOMAIN tables PROVE Sound(tables'[a])
        BY <2>1 DEF AllSound, Sound
      <3>1. CASE a = handler.table
        BY <3>1, <2>2
      <3>2. CASE a # handler.table
        BY <3>2, <2>1 DEF AllSound
      <3> QED
        BY <3>1, <3>2
    <2>4. NamedOnce'
      BY <2>1 DEF NamedOnce, OneEach
    <2> QED
      BY <2>1, <2>3, <2>4
  <1> QED
    BY <1>1, <1>2, <1>3, TablesStep

\* The roster in the tables changes only while a handler stores entries of userinfo.
LEMMA RosterKept ==
    ASSUME TypeOK, NamedOnce, [Next]_vars,
           Stores => tables[handler.table].name # UserInfo
    PROVE  Refreshed(tables') = Refreshed(tables)
  <1>0. tables \in Seq(Tables)
    BY DEF TypeOK
  <1> SUFFICES UsersOf(tables') = UsersOf(tables)
    BY DEF Refreshed
  <1>1. CASE tables' = tables
    BY <1>1
  <1>2. CASE Registers
    <2> PICK name \in Names, n \in 0 .. MaxCapacity :
          /\ ~ Registered(name)
          /\ tables' = Append(tables, NewTable(name, n))
      BY <1>2 DEF Registers
    <2>1. /\ OneEach(Append(tables, NewTable(name, n)))
          /\ UsersOf(Append(tables, NewTable(name, n))) = UsersOf(tables)
      BY <1>0, RegisteringKeepsUsers DEF Registered, NamedOnce
    <2> QED
      BY <2>1, Zenon
  <1>3. CASE Stores
    <2>1. /\ handler.table \in DOMAIN tables
          /\ tables' \in Seq(Tables)
          /\ DOMAIN tables' = DOMAIN tables
          /\ \A a \in DOMAIN tables : /\ tables'[a].name = tables[a].name
                                      /\ a # handler.table => tables'[a] = tables[a]
          /\ \E i \in Indices, key \in Keys, user \in Users \cup {None} :
                tables'[handler.table] = SetEntry(tables[handler.table], i, key, user)
      BY <1>3, StoresEffect
    <2> QED
      BY <1>3, <2>1, StoringKeepsUsers DEF NamedOnce
  <1> QED
    BY <1>1, <1>2, <1>3, TablesStep

\* The index after a step: as before, or refreshed from the tables, which then stay.
LEMMA IndexStep ==
    ASSUME TypeOK, [Next]_vars
    PROVE  \/ index' = index
           \/ index' = Refreshed(tables) /\ tables' = tables
  BY DEF Next, vars, ReadIndex, CreateLost, CreateDuplicate, CreateTable, UpdateTable,
         StreamEntry, Store, StreamThrows, EndOfStream, Snapshot, SnapshotTable,
         SnapshotEntry, EndOfSnapshot, Finish

\* The index stays well typed and its two maps in agreement.
LEMMA IndexKept ==
    ASSUME TypeOK, IndexAgrees, [Next]_vars
    PROVE  index' \in {None} \cup IndexType /\ IndexAgrees'
  <1>1. Refreshed(tables) \in IndexType /\ Agrees(Refreshed(tables))
    BY RefreshedAgrees DEF TypeOK
  <1>2. CASE index' = index
    BY <1>2 DEF IndexAgrees, Agrees, TypeOK, IndexType
  <1>3. CASE index' = Refreshed(tables)
    BY <1>1, <1>3 DEF IndexAgrees, Agrees
  <1> QED
    BY <1>2, <1>3, IndexStep

Handlers(ts) == [kind : {"none", "create", "update", "snapshot"},
                 table : DOMAIN ts \cup {0},
                 last : Indices \cup {-1},
                 refresh : BOOLEAN]

HandlerOK == /\ handler \in Handlers(tables)
             /\ handler.kind \in {"create", "update"} => handler.table # 0
             /\ RefreshAhead

\* The handler stays in step with the tables.
LEMMA HandlerKept ==
    ASSUME TypeOK, NamedOnce, AllSound, RefreshAhead, [Next]_vars
    PROVE  HandlerOK'
  <1>0. /\ tables \in Seq(Tables)
        /\ HandlerOK
    BY DEF TypeOK, HandlerOK, Handlers
  <1>1. /\ tables' \in Seq(Tables)
        /\ DOMAIN tables \subseteq DOMAIN tables'
        /\ \A id \in DOMAIN tables : tables'[id].name = tables[id].name
    BY TablesKept
  <1>a. 0 \notin DOMAIN tables /\ 0 \notin DOMAIN tables'
    BY <1>0, <1>1
  <1>2. CASE handler' = handler
    BY <1>0, <1>1, <1>2 DEF HandlerOK, Handlers, RefreshAhead
  <1>3. CASE handler' = Idle
    BY <1>3 DEF HandlerOK, Handlers, RefreshAhead, Idle
  <1>4. ASSUME NEW name \in Names, NEW n \in Capacities, CreateTable(name, n)
        PROVE  HandlerOK'
    <2>1. /\ NewTable(name, n).name = name
          /\ Len(tables) \in Nat
      BY <1>0 DEF NewTable
    <2>2. /\ handler' = [kind |-> "create", table |-> Len(tables'), last |-> -1,
                         refresh |-> name = UserInfo]
          /\ Len(tables') = Len(tables) + 1
          /\ Len(tables') \in DOMAIN tables'
          /\ tables'[Len(tables')].name = name
      BY <1>0, <1>1, <1>4, <2>1 DEF CreateTable
    <2> DEFINE id == Len(tables')
    <2>3. id \in DOMAIN tables' /\ tables'[id].name = name
      BY <2>2
    <2>4. handler' = [kind |-> "create", table |-> id, last |-> -1,
                      refresh |-> name = UserInfo]
      BY <2>2
    <2> HIDE DEF id
    <2> QED
      BY <2>3, <2>4, <1>a DEF HandlerOK, Handlers, RefreshAhead
  <1>5. ASSUME NEW id \in DOMAIN tables, UpdateTable(id)
        PROVE  HandlerOK'
    <2>1. /\ handler' = [kind |-> "update", table |-> id, last |-> -1,
                         refresh |-> tables[id].name = UserInfo]
          /\ tables' = tables
      BY <1>5 DEF UpdateTable
    <2> QED
      BY <2>1, <1>a DEF HandlerOK, Handlers, RefreshAhead
  <1>6. ASSUME NEW i \in Indices, handler' = [handler EXCEPT !.last = i],
               handler.table # 0
        PROVE  HandlerOK'
    BY <1>0, <1>1, <1>6 DEF HandlerOK, Handlers, RefreshAhead
  <1>7. CASE Snapshot
    <2>1. handler' = [kind |-> "snapshot", table |-> 0, last |-> -1, refresh |-> FALSE]
      BY <1>7 DEF Snapshot, Idle
    <2> QED
      BY <2>1 DEF HandlerOK, Handlers, RefreshAhead
  <1>8. ASSUME NEW name \in Names, SnapshotTable(name)
        PROVE  HandlerOK'
    <2>1. PICK id \in DOMAIN tables' :
            /\ tables'[id].name = name
            /\ handler' = [handler EXCEPT !.table = id, !.last = -1,
                                          !.refresh = @ \/ name = UserInfo]
      BY <1>8 DEF SnapshotTable
    <2>2. handler.kind = "snapshot"
      BY <1>8 DEF SnapshotTable
    <2> QED
      BY <1>0, <1>a, <2>1, <2>2 DEF HandlerOK, Handlers, RefreshAhead
  <1>9. ASSUME NEW i \in Indices, NEW user \in Users \cup {None},
               StreamEntry(i, user) \/ \E key \in Keys : SnapshotEntry(i, key, user)
        PROVE  HandlerOK'
    <2>1. handler' = [handler EXCEPT !.last = i] /\ handler.table # 0
      BY <1>0, <1>9 DEF StreamEntry, SnapshotEntry, Store, HandlerOK
    <2> QED
      BY <2>1, <1>6
  <1> QED
    BY <1>2, <1>3, <1>4, <1>5, <1>7, <1>8, <1>9
    DEF Next, vars, ReadIndex, CreateLost, CreateDuplicate, StreamThrows, EndOfStream,
        EndOfSnapshot, Finish

\* Ids go on following the server: a table is registered by its create, or shifted is set.
LEMMA AsSentKept ==
    ASSUME TypeOK, NamedOnce, AllSound, AsSent, [Next]_vars
    PROVE  AsSent' /\ sent' \in Seq(Names)
  <1>0. tables \in Seq(Tables) /\ sent \in Seq(Names)
    BY DEF TypeOK
  <1>1. /\ tables' \in Seq(Tables)
        /\ DOMAIN tables \subseteq DOMAIN tables'
        /\ \A id \in DOMAIN tables : tables'[id].name = tables[id].name
    BY TablesKept
  <1>2. ASSUME UNCHANGED <<sent, shifted>>, tables' = tables
        PROVE  AsSent' /\ sent' \in Seq(Names)
    BY <1>0, <1>2 DEF AsSent
  <1>3. ASSUME UNCHANGED <<sent, shifted>>, Stores
        PROVE  AsSent' /\ sent' \in Seq(Names)
    <2>1. /\ handler.table \in DOMAIN tables
          /\ tables' \in Seq(Tables)
          /\ DOMAIN tables' = DOMAIN tables
          /\ \A a \in DOMAIN tables : /\ tables'[a].name = tables[a].name
                                      /\ a # handler.table => tables'[a] = tables[a]
          /\ \E i \in Indices, key \in Keys, user \in Users \cup {None} :
                tables'[handler.table] = SetEntry(tables[handler.table], i, key, user)
      BY <1>3, StoresEffect
    <2>2. Len(tables') = Len(tables)
      BY <1>0, <2>1
    <2> QED
      BY <1>0, <1>3, <2>1, <2>2 DEF AsSent
  <1>4. ASSUME shifted', sent' \in Seq(Names)
        PROVE  AsSent' /\ sent' \in Seq(Names)
    BY <1>4 DEF AsSent
  <1>5. ASSUME NEW name \in Names, CreateLost(name)
        PROVE  AsSent' /\ sent' \in Seq(Names)
    BY <1>0, <1>4, <1>5 DEF CreateLost, Sends
  <1>6. ASSUME NEW name \in Names, CreateDuplicate(name)
        PROVE  AsSent' /\ sent' \in Seq(Names)
    <2>1. PICK id \in DOMAIN tables : tables[id].name = name
      BY <1>6 DEF CreateDuplicate, Registered
    <2>2. shifted
      BY <1>0, <1>6, <2>1 DEF AsSent, CreateDuplicate, Sends
    <2> QED
      BY <1>0, <1>4, <1>6, <2>2 DEF CreateDuplicate, Sends
  <1>7. ASSUME NEW name \in Names, NEW n \in Capacities, CreateTable(name, n)
        PROVE  AsSent' /\ sent' \in Seq(Names)
    <2>1. NewTable(name, n).name = name
      BY DEF NewTable
    <2>2. /\ tables' = Append(tables, NewTable(name, n))
          /\ sent' = Append(sent, name)
          /\ shifted' = shifted
      BY <1>7 DEF CreateTable, Sends
    <2>3. ASSUME ~ shifted
          PROVE  /\ Len(tables') = Len(sent')
                 /\ \A id \in DOMAIN tables' : tables'[id].name = sent'[id]
      BY <1>0, <2>1, <2>2, <2>3 DEF AsSent
    <2> QED
      BY <1>0, <2>2, <2>3 DEF AsSent
  <1>8. ASSUME NEW name \in Names, SnapshotTable(name)
        PROVE  AsSent' /\ sent' \in Seq(Names)
    BY <1>0, <1>2, <1>4, <1>8 DEF SnapshotTable
  <1>9. ASSUME NEW i \in Indices, NEW user \in Users \cup {None},
               StreamEntry(i, user) \/ \E key \in Keys : SnapshotEntry(i, key, user)
        PROVE  AsSent' /\ sent' \in Seq(Names)
    <2>1. UNCHANGED <<sent, shifted>>
      BY <1>9 DEF StreamEntry, SnapshotEntry, Store
    <2>2. tables' = tables \/ Stores \/ Registers
      BY TablesStep
    <2>3. CASE Registers
      <3>1. PICK name \in Names, n \in 0 .. MaxCapacity :
              tables' = Append(tables, NewTable(name, n))
        BY <2>3 DEF Registers
      <3>2. DOMAIN tables' = DOMAIN tables
        BY <1>9 DEF StreamEntry, SnapshotEntry, Store
      <3> QED
        BY <1>0, <3>1, <3>2
    <2> QED
      BY <1>2, <1>3, <2>1, <2>2, <2>3
  <1> QED
    BY <1>2, <1>5, <1>6, <1>7, <1>8, <1>9
    DEF Next, vars, ReadIndex, UpdateTable, StreamThrows, EndOfStream, Snapshot,
        EndOfSnapshot, Finish

\* The index keeps up: a handler that writes to userinfo refreshes it or leaves torn set.
LEMMA TracksKept ==
    ASSUME TypeOK, NamedOnce, AllSound, RefreshAhead, Tracks, [Next]_vars
    PROVE  Tracks'
  <1>0. /\ handler \in Handlers(tables)
        /\ handler.kind \in {"create", "update"} => handler.table # 0
    BY DEF TypeOK, Handlers
  <1>a. 0 \notin DOMAIN tables
    BY DEF TypeOK
  <1>1. ASSUME ~ handler.refresh
        PROVE  Refreshed(tables') = Refreshed(tables)
    BY <1>a, <1>1, RosterKept DEF Stores, RefreshAhead
  <1>2. ASSUME ~ handler.refresh, UNCHANGED <<index, torn>>
        PROVE  Tracks'
    BY <1>1, <1>2 DEF Tracks, Unwritten
  <1>3. CASE UNCHANGED vars
    BY <1>3 DEF vars, Tracks, Unwritten, Refreshed, UsersOf
  <1>4. CASE ReadIndex
    <2>1. Refreshed(tables') = Refreshed(tables)
      BY <1>1, <1>4 DEF ReadIndex, Idle
    <2> QED
      BY <1>4, <2>1 DEF ReadIndex, Tracks
  <1>5. ASSUME handler = Idle, UNCHANGED <<index, torn>>
        PROVE  Tracks'
    BY <1>2, <1>5 DEF Idle
  <1>6. ASSUME handler' = [handler EXCEPT !.last = handler'.last],
               handler'.last \in Indices, UNCHANGED <<index, torn>>
        PROVE  Tracks'
    <2>1. CASE handler.refresh
      <3>1. handler'.refresh /\ handler'.last # -1
        BY <1>0, <1>6, <2>1 DEF Handlers, Indices
      <3> QED
        BY <3>1 DEF Tracks, Unwritten
    <2> QED
      BY <1>2, <1>6, <2>1
  <1>7. ASSUME NEW i \in Indices, NEW user \in Users \cup {None},
               StreamEntry(i, user) \/ \E key \in Keys : SnapshotEntry(i, key, user)
        PROVE  Tracks'
    <2>1. handler' = [handler EXCEPT !.last = i] /\ UNCHANGED <<index, torn>>
      BY <1>7 DEF StreamEntry, SnapshotEntry, Store
    <2>2. handler'.last = i
      BY <1>0, <2>1 DEF Handlers
    <2> QED
      BY <1>6, <2>1, <2>2
  <1>8. CASE StreamThrows
    <2> SUFFICES ASSUME index' # None, ~ torn' PROVE index' = Refreshed(tables')
      BY DEF Tracks
    <2>1. tables' = tables /\ index' = index
      BY <1>8 DEF StreamThrows
    <2>2. ~ torn /\ ~ (handler.refresh /\ handler.last >= 0)
      BY <1>8 DEF StreamThrows
    <2>3. handler.last \in Indices \cup {-1} /\ handler.kind # "snapshot"
      BY <1>0, <1>8 DEF StreamThrows, Handlers
    <2>4. Unwritten
      BY <2>2, <2>3 DEF Unwritten, Indices
    <2> QED
      BY <2>1, <2>2, <2>4 DEF Tracks
  <1>9. CASE Finish
    <2>1. CASE handler.refresh
      BY <1>9, <2>1 DEF Finish, Tracks
    <2>2. CASE ~ handler.refresh
      <3>1. index' = index /\ (~ torn' => ~ torn)
        BY <1>9, <2>2 DEF Finish
      <3>2. Refreshed(tables') = Refreshed(tables)
        BY <1>1, <2>2
      <3> QED
        BY <3>1, <3>2, <2>2 DEF Tracks, Unwritten
    <2> QED
      BY <2>1, <2>2
  <1>10. ASSUME NEW name \in Names, SnapshotTable(name)
         PROVE  Tracks'
    <2>1. CASE handler.refresh
      <3>1. handler'.refresh /\ handler'.kind = "snapshot"
        BY <1>0, <1>10, <2>1 DEF SnapshotTable, Handlers
      <3> QED
        BY <3>1 DEF Tracks, Unwritten
    <2>2. UNCHANGED <<index, torn>>
      BY <1>10 DEF SnapshotTable
    <2> QED
      BY <1>2, <2>1, <2>2
  <1> QED
    BY <1>3, <1>4, <1>5, <1>7, <1>8, <1>9, <1>10
    DEF Next, CreateLost, CreateDuplicate, CreateTable, UpdateTable, EndOfStream, Snapshot,
        EndOfSnapshot

-----------------------------------------------------------------------------
(* The theorems *)

\* The parser starts in the invariant.
LEMMA InitInvariant == Init => IInv
  <1> SUFFICES ASSUME Init PROVE IInv
    OBVIOUS
  <1>1. tables = << >> /\ sent = << >> /\ DOMAIN tables = {}
    BY DEF Init
  <1>2. handler = [kind |-> "none", table |-> 0, last |-> -1, refresh |-> FALSE]
    BY DEF Init, Idle
  <1>3. TypeOK
    <2>1. tables \in Seq(Tables) /\ sent \in Seq(Names)
      BY <1>1
    <2>2. /\ handler \in [kind : {"none", "create", "update", "snapshot"},
                          table : DOMAIN tables \cup {0},
                          last : Indices \cup {-1},
                          refresh : BOOLEAN]
          /\ handler.kind = "none"
      BY <1>2
    <2>3. index = None /\ torn \in BOOLEAN /\ shifted \in BOOLEAN
      BY DEF Init
    <2> QED
      BY <2>1, <2>2, <2>3 DEF TypeOK
  <1>4. NamedOnce /\ AllSound /\ AsSent
    BY <1>1 DEF NamedOnce, OneEach, AllSound, AsSent
  <1>5. RefreshAhead
    BY <1>2 DEF RefreshAhead, Idle
  <1>6. Tracks /\ IndexAgrees
    BY DEF Init, Tracks, IndexAgrees
  <1> QED
    BY <1>3, <1>4, <1>5, <1>6 DEF IInv

\* Every step of every handler keeps the invariant.
LEMMA NextInvariant == IInv /\ [Next]_vars => IInv'
  <1> SUFFICES ASSUME IInv, [Next]_vars PROVE IInv'
    OBVIOUS
  <1> USE DEF IInv
  <1>1. /\ tables' \in Seq(Tables)
        /\ NamedOnce'
        /\ AllSound'
        /\ DOMAIN tables \subseteq DOMAIN tables'
        /\ \A id \in DOMAIN tables : tables'[id].name = tables[id].name
    BY TablesKept
  <1>2. index' \in {None} \cup IndexType /\ IndexAgrees'
    BY IndexKept
  <1>3. HandlerOK'
    BY HandlerKept
  <1>4. AsSent' /\ sent' \in Seq(Names)
    BY AsSentKept
  <1>5. Tracks'
    BY TracksKept
  <1>6. torn' \in BOOLEAN /\ shifted' \in BOOLEAN
    BY DEF TypeOK, Next, vars, ReadIndex, CreateLost, CreateDuplicate, CreateTable,
           UpdateTable, StreamEntry, Store, StreamThrows, EndOfStream, Snapshot,
           SnapshotTable, SnapshotEntry, EndOfSnapshot, Finish
  <1> QED
    BY <1>1, <1>2, <1>3, <1>4, <1>5, <1>6 DEF TypeOK, HandlerOK, Handlers, IndexType

\* The invariant holds in every reachable state, whatever messages come and fail.
THEOREM InvariantHolds == Spec => []IInv
  BY InitInvariant, NextInvariant, PTL DEF Spec

\* The type invariant.
THEOREM TypeCorrect == Spec => []TypeOK
  <1>1. IInv => TypeOK
    BY DEF IInv
  <1> QED
    BY <1>1, InvariantHolds, PTL

\* getByName never returns an entry of another key, for any number of keys and entries.
THEOREM KeyLookupsSound == Spec => []KeyLookupSound
  <1>1. IInv => KeyLookupSound
    BY DEF IInv, AllSound, Sound, KeyLookupSound
  <1> QED
    BY <1>1, InvariantHolds, PTL

\* Updates reach the table the server meant, as long as no create was lost and no
\* snapshot registered a table.
THEOREM IdsFollow == Spec => []IdsFollowServer
  <1>1. IInv => IdsFollowServer
    BY DEF IInv, TypeOK, AsSent, IdsFollowServer
  <1> QED
    BY <1>1, InvariantHolds, PTL

\* Between handlers the index is the roster in the table, unless the last handler that
\* wrote to userinfo failed.
THEOREM IndexIsCurrent == Spec => []IndexFollowsUserinfo
  <1>1. IInv => IndexFollowsUserinfo
    BY DEF IInv, Tracks, Unwritten, Idle, IndexFollowsUserinfo
  <1> QED
    BY <1>1, InvariantHolds, PTL

\* The two lookups never contradict each other.
THEOREM LookupsConsistent == Spec => []LookupsAgree
  <1>1. IInv => LookupsAgree
    BY DEF IInv, IndexAgrees, Agrees, LookupsAgree
  <1> QED
    BY <1>1, InvariantHolds, PTL

\* What a key leads to is lost only when that very entry is given another key.
THEOREM KeysAreKept == Spec => KeyNotLost
  <1> DEFINE Kept ==
        \A id \in DOMAIN tables : \A k \in Keys :
            LET i == tables[id].keyToIndex[k]
            IN  i # None /\ tables'[id].keyToIndex[k] = None => tables'[id].entries[i].key # k
  <1>1. ASSUME IInv, [Next]_vars PROVE Kept
    <2> SUFFICES ASSUME NEW id \in DOMAIN tables, NEW k \in Keys,
                        tables[id].keyToIndex[k] # None,
                        tables'[id].keyToIndex[k] = None
                 PROVE  tables'[id].entries[tables[id].keyToIndex[k]].key # k
      OBVIOUS
    <2>0. TypeOK /\ tables \in Seq(Tables) /\ tables[id] \in Tables /\ Sound(tables[id])
      BY <1>1 DEF IInv, TypeOK, AllSound
    <2>1. CASE tables'[id] = tables[id]
      BY <2>1
    <2>2. CASE tables' = tables
      BY <2>2
    <2>3. CASE Registers
      <3>1. tables'[id] = tables[id]
        BY <2>0, <2>3 DEF Registers
      <3> QED
        BY <3>1
    <2>4. CASE Stores /\ id = handler.table
      <3>1. /\ handler.table \in DOMAIN tables
            /\ tables' \in Seq(Tables)
            /\ DOMAIN tables' = DOMAIN tables
            /\ \A a \in DOMAIN tables : /\ tables'[a].name = tables[a].name
                                        /\ a # handler.table => tables'[a] = tables[a]
            /\ \E i \in Indices, key \in Keys, user \in Users \cup {None} :
                  tables'[handler.table] = SetEntry(tables[handler.table], i, key, user)
        BY <2>0, <2>4, StoresEffect
      <3> PICK i \in Indices, key \in Keys, user \in Users \cup {None} :
             tables'[id] = SetEntry(tables[id], i, key, user)
        BY <2>4, <3>1
      <3> DEFINE t == tables[id]
                 r == SetEntry(t, i, key, user)
      <3>2. tables'[id] = r /\ t \in Tables /\ SetEntry(t, i, key, user) = r
        BY <2>0
      <3> HIDE DEF r
      <3>3. /\ r \in Tables
            /\ r.name = t.name
            /\ r.entries = [t.entries EXCEPT ![i] = [key |-> key, user |-> user]]
            /\ r.keyToIndex =
                  IF Rekeys(t, i, key)
                    THEN [x \in Keys |-> IF x = key THEN i
                                         ELSE IF x = t.entries[i].key /\ t.keyToIndex[x] = i
                                           THEN None
                                         ELSE t.keyToIndex[x]]
                    ELSE t.keyToIndex
        BY <3>2, SetEntryEffect
      <3>4. /\ Rekeys(t, i, key)
            /\ k # key
            /\ t.keyToIndex[k] = i
        BY <3>2, <3>3, StringTablesAssumption DEF Indices
      <3>5. r.entries[i].key = key
        BY <3>2, <3>3 DEF Tables
      <3> QED
        BY <3>2, <3>4, <3>5
    <2>5. CASE Stores /\ id # handler.table
      <3>1. /\ handler.table \in DOMAIN tables
            /\ tables' \in Seq(Tables)
            /\ DOMAIN tables' = DOMAIN tables
            /\ \A a \in DOMAIN tables : /\ tables'[a].name = tables[a].name
                                        /\ a # handler.table => tables'[a] = tables[a]
            /\ \E i \in Indices, key \in Keys, user \in Users \cup {None} :
                  tables'[handler.table] = SetEntry(tables[handler.table], i, key, user)
        BY <2>0, <2>5, StoresEffect
      <3> QED
        BY <2>1, <2>5, <3>1
    <2> QED
      BY <2>0, <1>1, <2>2, <2>3, <2>4, <2>5, TablesStep
  <1>2. IInv /\ [Next]_vars => [Kept]_vars
    BY <1>1
  <1> QED
    BY <1>2, InvariantHolds, PTL DEF Spec, KeyNotLost

\* No table and no entry ever goes away, whatever snapshots say.
THEOREM TablesGrow == Spec => TablesOnlyGrow
  <1> DEFINE Grow ==
        \A id \in DOMAIN tables :
          /\ id \in DOMAIN tables'
          /\ tables'[id].name = tables[id].name
          /\ \A i \in Indices : tables[id].entries[i] # Absent
                                  => tables'[id].entries[i] # Absent
  <1>1. ASSUME IInv, [Next]_vars PROVE Grow
    <2>0. /\ TypeOK /\ NamedOnce /\ AllSound
          /\ tables \in Seq(Tables)
          /\ \A a \in DOMAIN tables : tables[a] \in Tables
      BY <1>1 DEF IInv, TypeOK
    <2>1. /\ tables' \in Seq(Tables)
          /\ NamedOnce'
          /\ AllSound'
          /\ DOMAIN tables \subseteq DOMAIN tables'
          /\ \A id \in DOMAIN tables : tables'[id].name = tables[id].name
      BY <1>1, <2>0, TablesKept
    <2> SUFFICES ASSUME NEW id \in DOMAIN tables, NEW j \in Indices,
                        tables[id].entries[j] # Absent
                 PROVE  tables'[id].entries[j] # Absent
      BY <2>1
    <2>2. CASE tables'[id] = tables[id]
      BY <2>2
    <2>3. CASE tables' = tables
      BY <2>3
    <2>4. CASE Registers
      <3>1. tables'[id] = tables[id]
        BY <2>0, <2>4 DEF Registers
      <3> QED
        BY <3>1
    <2>5. CASE Stores
      <3>1. /\ handler.table \in DOMAIN tables
            /\ tables' \in Seq(Tables)
            /\ DOMAIN tables' = DOMAIN tables
            /\ \A a \in DOMAIN tables : /\ tables'[a].name = tables[a].name
                                        /\ a # handler.table => tables'[a] = tables[a]
            /\ \E i \in Indices, key \in Keys, user \in Users \cup {None} :
                  tables'[handler.table] = SetEntry(tables[handler.table], i, key, user)
        BY <2>0, <2>5, StoresEffect
      <3>2. CASE id # handler.table
        BY <2>2, <3>1, <3>2
      <3>3. CASE id = handler.table
        <4> PICK i \in Indices, key \in Keys, user \in Users \cup {None} :
               tables'[id] = SetEntry(tables[id], i, key, user)
          BY <3>1, <3>3
        <4> DEFINE t == tables[id]
                   r == SetEntry(t, i, key, user)
        <4>1. tables'[id] = r /\ t \in Tables /\ SetEntry(t, i, key, user) = r
          BY <2>0
        <4> HIDE DEF r
        <4>2. /\ r \in Tables
              /\ r.name = t.name
              /\ r.entries = [t.entries EXCEPT ![i] = [key |-> key, user |-> user]]
              /\ r.keyToIndex =
                    IF Rekeys(t, i, key)
                      THEN [x \in Keys |-> IF x = key THEN i
                                           ELSE IF x = t.entries[i].key /\ t.keyToIndex[x] = i
                                             THEN None
                                           ELSE t.keyToIndex[x]]
                      ELSE t.keyToIndex
          BY <4>1, SetEntryEffect
        <4>3. r.entries[j] = t.entries[j] \/ r.entries[j] = [key |-> key, user |-> user]
          BY <4>1, <4>2 DEF Tables
        <4>4. [key |-> key, user |-> user] # Absent
          BY StringTablesAssumption DEF Absent
        <4> QED
          BY <4>1, <4>3, <4>4
      <3> QED
        BY <3>2, <3>3
    <2> QED
      BY <2>0, <1>1, <2>3, <2>4, <2>5, TablesStep
  <1>2. IInv /\ [Next]_vars => [Grow]_vars
    BY <1>1
  <1> QED
    BY <1>2, InvariantHolds, PTL DEF Spec, TablesOnlyGrow


-----------------------------------------------------------------------------
(* The entries of a string table: what a read takes of the bits before it. *)

LEMMA AtFirst ==
  ASSUME NEW r, IsReader(r), NEW w \in BitStrings, Carries(r, w)
  PROVE  At(r, w, r, <<>>)
  <1>1. Reads(r, r, <<>>, r.value)
    BY NothingTaken, NoBits DEF Reads
  <1>2. Starts(<<>>, w)
    BY JoinEmpty DEF Starts
  <1> QED BY <1>1, <1>2, NoBits DEF At

\* A reader that threw has read all there was to read.
LEMMA AtThrew ==
  ASSUME NEW start, NEW w, NEW rd, NEW d, At(start, w, rd, d), rd.threw, NEW x
  PROVE  Reads(start, rd, w, x)
  BY ThrewOn DEF At

LEMMA AtEnd ==
  ASSUME NEW start, NEW w, NEW rd, At(start, w, rd, w), NEW x, ~rd.threw => rd.value = x
  PROVE  Reads(start, rd, w, x)
  BY DEF At, Reads, Takes

LEMMA Thrown ==
  ASSUME NEW r, IsReader(r), NEW out, NEW e \in BitStrings, NEW v, Reads(r, out, e, v), out.threw, NEW x
  PROVE  Reads(r, Throwing(out), e, x)
  <1>1. IsReader(out) /\ out.bits = r.bits /\ (r.threw \/ r.cursor + Len(e) > Len(r.bits))
    BY DEF Reads, Takes
  <1>2. Takes(out, Throwing(out), 0, x)
    BY <1>1, ThrowingThrows
  <1>3. Throwing(out).threw = TRUE
    BY DEF Throwing
  <1> QED BY <1>1, <1>2, <1>3 DEF Reads, Takes

\* A bit that was not read counts as zero.
LEMMA BitThrewZero ==
  ASSUME NEW r, ReadBit(r).threw
  PROVE  ReadBit(r).value = 0
  <1>1. Throwing(r).value = 0
    BY DEF Throwing
  <1>2. Moving(r, 1, FastField(r, 1)).threw = FALSE
    BY DEF Moving
  <1>3. ReadBit(r) = Throwing(r) \/ ReadBit(r) = Moving(r, 1, FastField(r, 1))
    <2>1. ~(1 = 0) /\ ~(1 > 32) /\ 1 <= 25
      OBVIOUS
    <2> QED BY <2>1, Zenon DEF ReadBit, ReadBits
  <1> QED BY <1>1, <1>2, <1>3

LEMMA ByteThrewZero ==
  ASSUME NEW r, ReadBits(r, 8).threw
  PROVE  ReadBits(r, 8).value = 0
  <1>1. Throwing(r).value = 0
    BY DEF Throwing
  <1>2. Moving(r, 8, FastField(r, 8)).threw = FALSE
    BY DEF Moving
  <1>3. ReadBits(r, 8) = Throwing(r) \/ ReadBits(r, 8) = Moving(r, 8, FastField(r, 8))
    <2>1. ~(8 = 0) /\ ~(8 > 32) /\ 8 <= 25
      OBVIOUS
    <2> QED BY <2>1, Zenon DEF ReadBits
  <1> QED BY <1>1, <1>2, <1>3

\* The two bits that say what follows.
LEMMA BitNext ==
  ASSUME NEW start, NEW w, NEW rd, NEW d, At(start, w, rd, d), NEW b \in {0, 1}, Starts(d \o <<b>>, w),
         NEW out, out = ReadBit(rd)
  PROVE  /\ At(start, w, out, d \o <<b>>)
         /\ out.threw => out.value = 0
         /\ ~out.threw => ~rd.threw /\ out.value = b
  <1>1. <<b>> \in BitStrings
    BY SingleBit
  <1>2. Carries(rd, <<b>>) /\ IsReader(rd)
    BY <1>1, AtNext
  <1>3. Reads(rd, out, <<b>>, b)
    BY <1>2, BitReads
  <1> QED BY <1>1, <1>3, AtThen, BitThrewZero

LEMMA FieldNext ==
  ASSUME NEW start, NEW w, NEW rd, NEW d, At(start, w, rd, d), NEW v, NEW n, Fits(v, n), Starts(d \o Bits(v, n), w),
         NEW m, ~rd.threw => m = n, NEW out, out = ReadBits(rd, m)
  PROVE  /\ At(start, w, out, d \o Bits(v, n))
         /\ ~out.threw => ~rd.threw /\ out.value = v
  <1>1. Bits(v, n) \in BitStrings
    BY FitsBits
  <1>2. Carries(rd, Bits(v, n)) /\ IsReader(rd)
    BY <1>1, AtNext
  <1>3. Reads(rd, out, Bits(v, n), v)
    BY <1>2, FieldReads
  <1> QED BY <1>1, <1>3, AtThen

-----------------------------------------------------------------------------
(* A text, up to its zero byte. *)

TextsRead(g, r, n) ==
  g = [i \in 0..n |-> IF i = 0 THEN [r |-> r, text |-> <<>>, over |-> FALSE] ELSE NextByte(g[i - 1])]

LEMMA TextsExist ==
  ASSUME NEW r, NEW n \in Nat
  PROVE  \E g : TextsRead(g, r, n)
  <1> DEFINE G == {k \in 0..n : \E g : TextsRead(g, r, k)}
             begins == [r |-> r, text |-> <<>>, over |-> FALSE]
  <1>1. 0 \in G
    <2> DEFINE g == [i \in 0..0 |-> begins]
    <2> HIDE DEF begins
    <2>1. g = [i \in 0..0 |-> IF i = 0 THEN begins ELSE NextByte(g[i - 1])]
      OBVIOUS
    <2>2. TextsRead(g, r, 0)
      BY <2>1, Zenon DEF TextsRead, begins
    <2> QED BY <2>2
  <1>2. ASSUME NEW k \in 0..n - 1, k \in G PROVE k + 1 \in G
    <2>1. PICK g : TextsRead(g, r, k)
      BY <1>2
    <2> DEFINE next == NextByte(g[k])
               h == [i \in 0..k + 1 |-> IF i = k + 1 THEN next ELSE g[i]]
    <2> HIDE DEF next, begins
    <2>2. ASSUME NEW i \in 0..k + 1
          PROVE  h[i] = IF i = 0 THEN begins ELSE NextByte(h[i - 1])
      <3>1. CASE i = k + 1
        <4>1. h[i] = next /\ h[k] = g[k] /\ i # 0 /\ i - 1 = k
          BY <3>1
        <4> HIDE DEF h
        <4> QED BY <4>1, Zenon DEF next
      <3>2. CASE i # k + 1
        <4>1. i \in 0..k /\ h[i] = g[i]
          BY <3>2
        <4>2. g[i] = IF i = 0 THEN begins ELSE NextByte(g[i - 1])
          BY <2>1, <4>1, Zenon DEF TextsRead, begins
        <4>3. i # 0 => h[i - 1] = g[i - 1]
          BY <4>1
        <4> HIDE DEF h
        <4> QED BY <4>1, <4>2, <4>3, Zenon
      <3> QED BY <3>1, <3>2
    <2>3. TextsRead(h, r, k + 1)
      <3>1. h = [i \in 0..k + 1 |-> h[i]]
        OBVIOUS
      <3> HIDE DEF h
      <3>2. h = [i \in 0..k + 1 |-> IF i = 0 THEN begins ELSE NextByte(h[i - 1])]
        BY <2>2, <3>1
      <3> QED BY <3>2, Zenon DEF TextsRead, begins
    <2> QED BY <2>3
  <1> HIDE DEF G
  <1>3. \A k \in 0..n : k \in G
    BY <1>1, <1>2, IntervalInduction
  <1>4. n \in 0..n
    OBVIOUS
  <1> QED BY <1>3, <1>4 DEF G

LEMMA ReadTextIs ==
  ASSUME NEW r
  PROVE  \E g : TextsRead(g, r, MaxStringLength) /\ ReadText(r) = TextRead(g[MaxStringLength])
  <1> DEFINE a == CHOOSE g : TextsRead(g, r, MaxStringLength)
  <1>1. TextsRead(a, r, MaxStringLength)
    <2>1. \E g : TextsRead(g, r, MaxStringLength)
      BY TextsExist, StringLengths
    <2> QED BY <2>1, Zenon
  <1>2. ReadText(r) = TextRead(a[MaxStringLength])
    BY Zenon DEF ReadText, TextsRead
  <1> HIDE DEF a
  <1> QED BY <1>1, <1>2

\* The text with its end.
LEMMA TextBytes ==
  ASSUME NEW text \in Seq(1..255), NEW b, b = EncodeText(text), NEW n, n = Len(text)
  PROVE  /\ n \in Nat /\ b \in Seq(0..255) /\ Len(b) = n + 1
         /\ \A i \in 1..n : b[i] = text[i] /\ text[i] \in 1..255
         /\ b[n + 1] = 0
         /\ Bytes(b) = FlattenSeq(ByteBits(b))
         /\ text \in Seq(0..255)
  <1>1. text \in Seq(0..255)
    BY SMT
  <1>2. n \in Nat /\ \A i \in 1..n : text[i] \in 1..255
    <2> DEFINE S == 1..255
    <2> HIDE DEF S
    <2>1. text \in Seq(S)
      BY DEF S
    <2>2. n \in Nat /\ \A i \in 1..n : text[i] \in S
      BY <2>1, ElementOfSeq, LenProperties
    <2> QED BY <2>2 DEF S
  <1>3. b = Append(text, 0) /\ 0 \in 0..255
    BY DEF EncodeText
  <1>4. b \in Seq(0..255) /\ Len(b) = n + 1 /\ (\A i \in 1..n : b[i] = text[i]) /\ b[n + 1] = 0
    BY <1>1, <1>3, AppendProperties
  <1>5. Bytes(b) = FlattenSeq(ByteBits(b))
    BY Zenon DEF Bytes, ByteBits
  <1> QED BY <1>1, <1>2, <1>4, <1>5

\* What i turns of the loop read of a text.
TextProgress(r, text, a, i) ==
  LET s == ByteBits(EncodeText(text))
      w == Bytes(EncodeText(text))
  IN /\ a = [r |-> a.r, text |-> a.text, over |-> a.over] /\ a.over \in BOOLEAN
     /\ a.over => At(r, w, a.r, w) /\ (~a.r.threw => a.text = text)
     /\ ~a.over => /\ i <= Len(text) /\ At(r, w, a.r, FlatTo(s, i))
                   /\ ~a.r.threw => a.text = SubSeq(text, 1, i)

LEMMA TextProgressStep ==
  ASSUME NEW r, NEW text \in Seq(1..255), NEW a, NEW i \in Nat, TextProgress(r, text, a, i)
  PROVE  TextProgress(r, text, NextByte(a), i + 1)
  <1> DEFINE b == EncodeText(text)
             s == ByteBits(b)
             w == Bytes(b)
             n == Len(text)
             byte == ReadBits(a.r, 8)
             next == [ r    |-> byte,
                       text |-> IF byte.value = 0 THEN a.text ELSE Append(a.text, byte.value),
                       over |-> byte.value = 0 ]
  <1>1. /\ n \in Nat /\ b \in Seq(0..255) /\ Len(b) = n + 1
        /\ \A k \in 1..n : b[k] = text[k] /\ text[k] \in 1..255
        /\ b[n + 1] = 0
        /\ w = FlattenSeq(s)
    <2> HIDE DEF s, w
    <2>1. n \in Nat /\ b \in Seq(0..255) /\ Len(b) = n + 1 /\ b[n + 1] = 0
      BY TextBytes
    <2>2. \A k \in 1..n : b[k] = text[k] /\ text[k] \in 1..255
      BY TextBytes
    <2>3. w = FlattenSeq(s)
      BY TextBytes DEF s, w
    <2> QED BY <2>1, <2>2, <2>3
  <1>2. /\ \A k \in 1..n + 1 : s[k] = Bits(b[k], 8) /\ s[k] \in BitStrings
        /\ FlatTo(s, n + 1) = w
    BY <1>1, BytesLength
  <1>3. /\ a.over \in BOOLEAN
        /\ a.over => At(r, w, a.r, w) /\ (~a.r.threw => a.text = text)
        /\ ~a.over => /\ i <= n /\ At(r, w, a.r, FlatTo(s, i))
                      /\ ~a.r.threw => a.text = SubSeq(text, 1, i)
    BY Zenon DEF TextProgress
  <1>4. CASE a.over
    <2>1. NextByte(a) = a
      BY <1>4, Zenon DEF NextByte, WithByte
    <2> QED BY <2>1, <1>4, Zenon DEF TextProgress
  <1>5. CASE ~a.over
    <2>1. NextByte(a) = next
      BY <1>5, Zenon DEF NextByte, WithByte
    <2> HIDE DEF b, s, w, n
    <2>2. i \in 0..n /\ i \in 0..(n + 1) - 1 /\ n + 1 \in Nat /\ i + 1 \in 1..n + 1
      BY <1>1, <1>3, <1>5
    <2>3. /\ FlatTo(s, i + 1) = FlatTo(s, i) \o s[i + 1]
          /\ s[i + 1] \in BitStrings
          /\ Starts(FlatTo(s, i) \o s[i + 1], w)
      BY <1>2, <2>2, NextStarts
    <2>4. b[i + 1] \in 0..255 /\ s[i + 1] = Bits(b[i + 1], 8)
      <3>1. i + 1 \in 1..Len(b)
        BY <1>1, <2>2
      <3> QED BY <3>1, <1>1, <1>2, <2>2, ElementOfSeq
    <2>5. Fits(b[i + 1], 8)
      BY <2>4, ByteFits
    <2> HIDE DEF byte
    <2>6. /\ At(r, w, byte, FlatTo(s, i + 1))
          /\ ~byte.threw => ~a.r.threw /\ byte.value = b[i + 1]
      <3> DEFINE d == FlatTo(s, i)
                 v == b[i + 1]
      <3>1. At(r, w, a.r, d) /\ Fits(v, 8) /\ Starts(d \o Bits(v, 8), w)
        BY <1>3, <1>5, <2>3, <2>4, <2>5
      <3> HIDE DEF d, v
      <3>2. /\ At(r, w, byte, d \o Bits(v, 8))
            /\ ~byte.threw => ~a.r.threw /\ byte.value = v
        BY <3>1, FieldNext DEF byte
      <3> QED BY <3>2, <2>3, <2>4 DEF d, v
    <2>7. CASE byte.threw
      <3>1. byte.value = 0
        BY <2>7, ByteThrewZero DEF byte
      <3>2. next.over = TRUE /\ next.r = byte
        BY <3>1
      <3>3. At(r, w, byte, w)
        <4>1. Reads(r, byte, w, byte.value)
          BY <2>6, <2>7, AtThrew
        <4>2. w \in BitStrings
          BY <2>6 DEF At
        <4>3. Starts(w, w)
          BY <4>2, StartsAtOnce
        <4> QED BY <4>1, <4>2, <4>3, <2>6 DEF At
      <3> HIDE DEF next
      <3>4. next = [r |-> next.r, text |-> next.text, over |-> next.over]
        BY DEF next
      <3>5. TextProgress(r, text, next, i + 1)
        BY <2>7, <3>2, <3>3, <3>4, Zenon DEF TextProgress, w, s, b, n
      <3> QED BY <2>1, <3>5 DEF next
    <2>8. CASE ~byte.threw /\ i = n
      <3>1. byte.value = 0 /\ a.text = SubSeq(text, 1, n)
        BY <1>1, <1>3, <1>5, <2>6, <2>8
      <3>2. SubSeq(text, 1, n) = text
        BY DEF n
      <3>3. next.over = TRUE /\ next.r = byte /\ next.text = text
        BY <3>1, <3>2
      <3>4. At(r, w, byte, w)
        BY <1>2, <2>6, <2>8
      <3> HIDE DEF next
      <3>5. next = [r |-> next.r, text |-> next.text, over |-> next.over]
        BY DEF next
      <3>6. TextProgress(r, text, next, i + 1)
        BY <3>3, <3>4, <3>5, Zenon DEF TextProgress, w, s, b, n
      <3> QED BY <2>1, <3>6 DEF next
    <2>9. CASE ~byte.threw /\ i # n
      <3>1. i + 1 \in 1..n /\ i \in 0..n - 1
        BY <1>1, <2>2, <2>9
      <3>2. byte.value = text[i + 1] /\ byte.value # 0 /\ a.text = SubSeq(text, 1, i)
        <4>1. b[i + 1] = text[i + 1] /\ text[i + 1] \in 1..255
          BY <1>1, <3>1
        <4>2. byte.value = text[i + 1] /\ a.text = SubSeq(text, 1, i)
          <5>1. ~a.r.threw /\ byte.value = b[i + 1]
            BY <2>6, <2>9
          <5>2. a.text = SubSeq(text, 1, i)
            BY <1>3, <1>5, <5>1
          <5> QED BY <4>1, <5>1, <5>2
        <4> DEFINE x == text[i + 1]
        <4>3. x \in 1..255
          BY <4>1
        <4> HIDE DEF x
        <4>4. x # 0
          BY <4>3
        <4> QED BY <4>2, <4>4, Zenon DEF x
      <3>3. Append(SubSeq(text, 1, i), text[i + 1]) = SubSeq(text, 1, i + 1)
        BY <3>1, OneMore DEF n
      <3>4. next.over = FALSE /\ next.r = byte /\ next.text = SubSeq(text, 1, i + 1)
        BY <3>2, <3>3
      <3>5. i + 1 <= n
        BY <3>1
      <3> HIDE DEF next
      <3>6. next = [r |-> next.r, text |-> next.text, over |-> next.over]
        BY DEF next
      <3>7. TextProgress(r, text, next, i + 1)
        BY <2>6, <3>4, <3>5, <3>6, Zenon DEF TextProgress, w, s, b, n
      <3> QED BY <2>1, <3>7 DEF next
    <2> QED BY <2>7, <2>8, <2>9
  <1> QED BY <1>3, <1>4, <1>5

LEMMA TextReads ==
  ASSUME NEW r, IsReader(r), NEW text, FitsKey(text), Carries(r, Bytes(EncodeText(text)))
  PROVE  /\ Bytes(EncodeText(text)) \in BitStrings
         /\ Reads(r, ReadText(r), Bytes(EncodeText(text)), text)
  <1> DEFINE b == EncodeText(text)
             s == ByteBits(b)
             w == Bytes(b)
             m == MaxStringLength
             out == ReadText(r)
  <1>1. text \in Seq(1..255) /\ Len(text) < m /\ m \in Nat /\ Len(text) \in Nat
    <2>1. text \in Seq(1..255) /\ Len(text) < m
      BY DEF FitsKey
    <2> QED BY <2>1, StringLengths
  <1>2. w \in BitStrings /\ FlatTo(s, 0) = <<>>
    <2>1. b \in Seq(0..255) /\ w = FlattenSeq(s) /\ Len(b) \in Nat
      <3> DEFINE n == Len(text)
      <3> HIDE DEF b, n
      <3>1. b \in Seq(0..255) /\ Len(b) = n + 1 /\ n \in Nat /\ Bytes(b) = FlattenSeq(ByteBits(b))
        BY <1>1, TextBytes DEF b, n
      <3> QED BY <3>1
    <2>2. /\ \A i \in 1..Len(b) : s[i] \in BitStrings
          /\ \A k \in 0..Len(b) : FlatTo(s, k) \in BitStrings
          /\ FlatTo(s, Len(b)) = w
      BY <2>1, BytesLength
    <2> HIDE DEF b, s, w
    <2>3. FlatTo(s, 0) = <<>>
      BY <2>1, <2>2, FlatToStep
    <2>4. Len(b) \in 0..Len(b)
      BY <2>1
    <2> QED BY <2>2, <2>3, <2>4
  <1>3. PICK g : TextsRead(g, r, m) /\ out = TextRead(g[m])
    BY ReadTextIs
  <1> HIDE DEF out
  <1> DEFINE G == {i \in 0..m : TextProgress(r, text, g[i], i)}
             begins == [r |-> r, text |-> <<>>, over |-> FALSE]
  <1>4. 0 \in G
    <2>1. 0 \in 0..m
      BY <1>1
    <2> HIDE DEF b, s, w, m
    <2>2. g[0] = begins
      BY <1>3, <2>1, Zenon DEF TextsRead
    <2>3. At(r, w, r, FlatTo(s, 0))
      <3>1. Carries(r, w)
        BY DEF w, b
      <3> QED BY <1>2, <3>1, AtFirst
    <2>4. SubSeq(text, 1, 0) = <<>> /\ 0 <= Len(text)
      BY <1>1
    <2>5. begins.r = r /\ begins.text = <<>> /\ begins.over = FALSE
      OBVIOUS
    <2> HIDE DEF begins
    <2>6. begins = [r |-> begins.r, text |-> begins.text, over |-> begins.over]
      BY DEF begins
    <2>7. TextProgress(r, text, begins, 0)
      BY <2>3, <2>4, <2>5, <2>6, Zenon DEF TextProgress, w, s, b
    <2> QED BY <2>1, <2>2, <2>7
  <1>5. ASSUME NEW i \in 0..m - 1, i \in G PROVE i + 1 \in G
    <2>1. i \in Nat /\ i + 1 \in 0..m /\ i + 1 # 0 /\ (i + 1) - 1 = i
      BY <1>1
    <2>2. g[i + 1] = NextByte(g[i])
      BY <1>3, <2>1, Zenon DEF TextsRead
    <2>3. TextProgress(r, text, NextByte(g[i]), i + 1)
      BY <1>1, <1>5, <2>1, TextProgressStep
    <2> QED BY <2>1, <2>2, <2>3
  <1>6. TextProgress(r, text, g[m], m)
    <2> HIDE DEF G, m
    <2>1. \A i \in 0..m : i \in G
      BY <1>1, <1>4, <1>5, IntervalInduction
    <2>2. m \in 0..m
      BY <1>1
    <2> QED BY <2>1, <2>2 DEF G
  <1> DEFINE a == g[m]
  <1>7. a.over \in BOOLEAN /\ (a.over => At(r, w, a.r, w) /\ (~a.r.threw => a.text = text)) /\ (~a.over => m <= Len(text))
    BY <1>6, Zenon DEF TextProgress
  <1>8. a.over
    BY <1>1, <1>7
  <1>9. out = Returning(a.r, a.text)
    BY <1>3, Zenon DEF TextRead
  <1> HIDE DEF a, w, b, s
  <1>10. Reads(r, a.r, w, a.r.value)
    BY <1>7, <1>8 DEF At
  <1>11. Reads(r, Returning(a.r, a.text), w, text)
    BY <1>7, <1>8, <1>10, ReturningReads
  <1> QED BY <1>2, <1>9, <1>11 DEF w, b, out

\* Texts and bytes after what was read before them.
LEMMA TextNext ==
  ASSUME NEW start, NEW w, NEW rd, NEW d, At(start, w, rd, d), NEW text, FitsKey(text),
         Starts(d \o Bytes(EncodeText(text)), w), Bytes(EncodeText(text)) \in BitStrings,
         NEW out, out = ReadText(rd)
  PROVE  /\ At(start, w, out, d \o Bytes(EncodeText(text)))
         /\ ~out.threw => ~rd.threw /\ out.value = text
  <1> DEFINE e == Bytes(EncodeText(text))
  <1>1. e \in BitStrings /\ Starts(d \o e, w)
    OBVIOUS
  <1> HIDE DEF e
  <1>2. Carries(rd, e) /\ IsReader(rd)
    BY <1>1, AtNext
  <1>3. Reads(rd, out, e, text)
    BY <1>2, TextReads DEF e
  <1>4. /\ At(start, w, out, d \o e)
        /\ ~out.threw => ~rd.threw /\ out.value = text
    BY <1>1, <1>3, AtThen
  <1> QED BY <1>4 DEF e

LEMMA BytesBits ==
  ASSUME NEW v \in Seq(0..255)
  PROVE  Bytes(v) \in BitStrings /\ Bytes(v) = FlattenSeq(ByteBits(v)) /\ Len(Bytes(v)) = 8 * Len(v)
  <1>1. Bytes(v) = FlattenSeq(ByteBits(v))
    BY Zenon DEF Bytes, ByteBits
  <1>2. /\ Len(v) \in Nat
        /\ \A k \in 0..Len(v) : FlatTo(ByteBits(v), k) \in BitStrings /\ Len(FlatTo(ByteBits(v), k)) = 8 * k
        /\ FlatTo(ByteBits(v), Len(v)) = FlattenSeq(ByteBits(v))
    BY BytesLength
  <1>3. Len(v) \in 0..Len(v)
    BY <1>2
  <1> QED BY <1>1, <1>2, <1>3

LEMMA BytesNext ==
  ASSUME NEW start, NEW w, NEW rd, NEW d, At(start, w, rd, d), NEW v \in Seq(0..255), Starts(d \o Bytes(v), w),
         NEW m, ~rd.threw => m = Len(v), NEW out, out = ReadBytes(rd, m)
  PROVE  /\ At(start, w, out, d \o Bytes(v))
         /\ ~out.threw => ~rd.threw /\ out.value = v
  <1>1. Bytes(v) \in BitStrings /\ Bytes(v) = FlattenSeq(ByteBits(v))
    BY BytesBits
  <1>2. Carries(rd, Bytes(v)) /\ IsReader(rd)
    BY <1>1, AtNext
  <1>3. Reads(rd, out, Bytes(v), v)
    BY <1>1, <1>2, BytesRead
  <1> QED BY <1>1, <1>3, AtThen

LEMMA KeyBits ==
  ASSUME NEW text, FitsKey(text)
  PROVE  Bytes(EncodeText(text)) \in BitStrings
  <1> DEFINE b == EncodeText(text)
  <1>1. text \in Seq(1..255)
    BY DEF FitsKey
  <1> HIDE DEF b
  <1>2. b \in Seq(0..255)
    BY <1>1, TextBytes DEF b
  <1> QED BY <1>2, BytesBits DEF b

\* Two parts of an encoding, and where they start.
LEMMA TwoParts ==
  ASSUME NEW a \in BitStrings, NEW b \in BitStrings
  PROVE  a \o b \in BitStrings /\ Starts(<<>> \o a, a \o b) /\ Starts(a \o b, a \o b) /\ <<>> \o a = a
  <1>1. a \o b \in BitStrings
    BY Joined
  <1>2. <<>> \o a = a
    BY JoinEmpty
  <1> QED BY <1>1, <1>2, StartsAtOnce DEF Starts

-----------------------------------------------------------------------------
(* The index of an entry. *)

LEMMA IndexReads ==
  ASSUME NEW r, IsReader(r), NEW place, NEW last, NEW max, place = last + 1 \/ Fits(place, BitsForMaxEntries(max)),
         Carries(r, EncodeIndex(place, last, max))
  PROVE  /\ EncodeIndex(place, last, max) \in BitStrings
         /\ Reads(r, ReadEntryIndex(r, last, max), EncodeIndex(place, last, max), place)
  <1> DEFINE w == EncodeIndex(place, last, max)
             n == BitsForMaxEntries(max)
             next == ReadBit(r)
             out == ReadEntryIndex(r, last, max)
  <1>1. out = IF next.value = 1 THEN Returning(next, last + 1) ELSE ReadBits(next, n)
    BY Zenon DEF ReadEntryIndex
  <1>2. CASE place = last + 1
    <2>1. w = <<1>>
      BY <1>2 DEF EncodeIndex
    <2>2. <<1>> \in BitStrings
      BY SingleBit
    <2>3. Carries(r, <<1>>)
      BY <2>1
    <2> HIDE DEF next, out
    <2>4. Reads(r, next, <<1>>, 1)
      BY <2>3, BitReads DEF next
    <2>5. CASE next.threw
      <3>1. next.value = 0
        BY <2>5, BitThrewZero DEF next
      <3>2. out = Throwing(next)
        BY <1>1, <2>5, <3>1 DEF ReadBits
      <3>3. Reads(r, Throwing(next), <<1>>, place)
        BY <2>2, <2>4, <2>5, Thrown
      <3> QED BY <2>1, <2>2, <3>2, <3>3 DEF out
    <2>6. CASE ~next.threw
      <3>1. next.value = 1
        BY <2>4, <2>6, ReadsValue
      <3>2. out = Returning(next, place)
        BY <1>1, <1>2, <3>1
      <3>3. Reads(r, Returning(next, place), <<1>>, place)
        BY <2>4, ReturningReads
      <3> QED BY <2>1, <2>2, <3>2, <3>3 DEF out
    <2> QED BY <2>5, <2>6
  <1>3. CASE place # last + 1
    <2>1. w = <<0>> \o Bits(place, n) /\ Fits(place, n)
      BY <1>3, Zenon DEF EncodeIndex
    <2>2. <<0>> \in BitStrings /\ Bits(place, n) \in BitStrings
      BY <2>1, SingleBit, FitsBits
    <2>3. Carries(r, w)
      OBVIOUS
    <2> HIDE DEF w, n, next, out
    <2>4. w \in BitStrings /\ Starts(<<>> \o <<0>>, w) /\ Starts(<<0>> \o Bits(place, n), w) /\ <<>> \o <<0>> = <<0>>
      BY <2>1, <2>2, TwoParts
    <2>5. At(r, w, r, <<>>)
      BY <2>3, <2>4, AtFirst
    <2>6. At(r, w, next, <<0>>) /\ next.value = 0
      <3>1. /\ At(r, w, next, <<>> \o <<0>>)
            /\ next.threw => next.value = 0
            /\ ~next.threw => next.value = 0
        BY <2>4, <2>5, BitNext DEF next
      <3>2. next.threw \in BOOLEAN
        BY <3>1 DEF At, Reads, Takes, IsReader
      <3> QED BY <3>1, <3>2, <2>4
    <2>7. out = ReadBits(next, n)
      BY <1>1, <2>6
    <2>8. At(r, w, out, w) /\ (~out.threw => out.value = place)
      BY <2>1, <2>4, <2>6, <2>7, FieldNext
    <2>9. Reads(r, out, w, place)
      BY <2>8, AtEnd
    <2> QED BY <2>4, <2>9 DEF out, w
  <1> QED BY <1>2, <1>3

-----------------------------------------------------------------------------
(* The userdata of an entry. *)

LEMMA FixedReads ==
  ASSUME NEW r, IsReader(r), NEW data, NEW fixed, fixed # NoValue, FitsData(data, fixed),
         ~r.threw => Carries(r, EncodeFixed(data, fixed))
  PROVE  /\ EncodeFixed(data, fixed) \in BitStrings
         /\ Reads(r, ReadFixedUserData(r, fixed), EncodeFixed(data, fixed), data)
  <1> DEFINE head == ReadBytes(r, fixed \div 8)
             rest == ReadBits(head, fixed % 8)
             out == ReadFixedUserData(r, fixed)
             w == EncodeFixed(data, fixed)
             n == fixed \div 8
             k == fixed % 8
  <1>0. Carries(r, w)
    BY DEF Carries
  <1>1. /\ data \in Seq(0..255) /\ fixed \in Nat /\ Len(data) = (fixed + 7) \div 8
        /\ fixed % 8 # 0 => Last(data) < 2 ^ (fixed % 8)
    BY DEF FitsData
  <1>2. /\ n \in Nat /\ k \in 0..7 /\ fixed = 8 * n + k
        /\ k = 0 => (fixed + 7) \div 8 = n
        /\ k # 0 => (fixed + 7) \div 8 = n + 1
    BY <1>1
  <1>3. CASE fixed = 0
    <2>1. out = Returning(r, <<>>)
      BY <1>3 DEF ReadFixedUserData
    <2>2. Len(data) = 0 /\ fixed % 8 = 0
      BY <1>1, <1>2, <1>3
    <2>3. data = <<>>
      BY <1>1, <2>2, EmptySeq
    <2>4. w = Bytes(data)
      BY <2>2 DEF EncodeFixed
    <2>5. Bytes(data) \in BitStrings /\ Len(Bytes(data)) = 8 * Len(data)
      BY <1>1, BytesBits
    <2>6. Len(Bytes(data)) = 0
      BY <2>2, <2>5
    <2>7. Takes(r, r, 0, r.value)
      BY NothingTaken
    <2>8. Takes(r, Returning(r, <<>>), 0, <<>>)
      BY <2>7, ReturningTakes
    <2> QED BY <2>1, <2>3, <2>4, <2>5, <2>6, <2>8, Zenon DEF Reads
  <1>4. CASE fixed # 0 /\ k = 0
    <2>1. out = head
      <3>1. ~(fixed <= 0) /\ fixed % 8 = 0
        BY <1>1, <1>4
      <3> QED BY <3>1, Zenon DEF ReadFixedUserData
    <2>2. w = Bytes(data)
      BY <1>4 DEF EncodeFixed
    <2>3. Bytes(data) \in BitStrings /\ Bytes(data) = FlattenSeq(ByteBits(data))
      BY <1>1, BytesBits
    <2>4. Len(data) = n
      BY <1>1, <1>2, <1>4
    <2>5. Reads(r, head, Bytes(data), data)
      <3>1. Carries(r, Bytes(data))
        BY <1>0, <2>2
      <3> DEFINE e == Bytes(data)
      <3> HIDE DEF e
      <3>2. Reads(r, ReadBytes(r, n), e, data)
        BY <1>1, <2>3, <2>4, <3>1, BytesRead DEF e
      <3> QED BY <3>2 DEF e
    <2> QED BY <2>1, <2>2, <2>3, <2>5
  <1>5. CASE fixed # 0 /\ k # 0
    <2> DEFINE a == Front(data)
               x == Last(data)
               value == IF rest.threw THEN <<>> ELSE Append(head.value, rest.value)
    <2>1. out = Returning(rest, value)
      <3>1. ~(fixed <= 0) /\ ~(fixed % 8 = 0)
        BY <1>1, <1>5
      <3> QED BY <3>1, Zenon DEF ReadFixedUserData
    <2>2. Len(data) = n + 1
      BY <1>1, <1>2, <1>5
    <2>3. a = SubSeq(data, 1, n) /\ x = data[n + 1]
      <3> HIDE DEF n
      <3>1. Len(data) - 1 = n
        BY <1>2, <2>2
      <3>2. Front(data) = SubSeq(data, 1, Len(data) - 1) /\ Last(data) = data[Len(data)]
        BY Zenon DEF Front, Last
      <3> QED BY <2>2, <3>1, <3>2
    <2>4. a \in Seq(0..255) /\ Len(a) = n /\ x \in 0..255 /\ Append(a, x) = data
      <3> DEFINE S == 0..255
      <3> HIDE DEF S, n, a, x
      <3>1. data \in Seq(S) /\ n \in 0..Len(data) - 1 /\ n \in Nat /\ n + 1 \in 1..Len(data)
        <4>1. data \in Seq(S)
          BY <1>1 DEF S
        <4>2. n \in 0..Len(data) - 1 /\ n \in Nat /\ n + 1 \in 1..Len(data)
          BY <1>2, <2>2
        <4> QED BY <4>1, <4>2
      <3>2. Append(SubSeq(data, 1, n), data[n + 1]) = SubSeq(data, 1, n + 1)
        BY <3>1, OneMore
      <3>3. SubSeq(data, 1, n + 1) = data
        BY <3>1, <2>2
      <3>4. SubSeq(data, 1, n) \in Seq(S) /\ Len(SubSeq(data, 1, n)) = n /\ data[n + 1] \in S
        BY <3>1, <2>2, ElementOfSeq
      <3> QED BY <2>3, <3>2, <3>3, <3>4 DEF S
    <2>5. Fits(x, k)
      <3>1. x < Pow2(k) /\ x \in Nat /\ k \in 0..30
        <4>1. x < Pow2(k)
          BY <1>1, <1>5, Zenon DEF Pow2
        <4>2. x \in Nat /\ k \in 0..30
          <5> HIDE DEF x, k
          <5>1. x \in 0..255
            BY <2>4, Zenon
          <5> QED BY <5>1, <1>2
        <4> QED BY <4>1, <4>2
      <3> HIDE DEF x, k
      <3> QED BY <3>1, SmallFits
    <2>6. w = Bytes(a) \o Bits(x, k)
      BY <1>5, Zenon DEF EncodeFixed
    <2>7. Bytes(a) \in BitStrings /\ Bits(x, k) \in BitStrings
      BY <2>4, <2>5, BytesBits, FitsBits
    <2> HIDE DEF w, a, x, n, k
    <2>8. /\ w \in BitStrings /\ Starts(<<>> \o Bytes(a), w) /\ Starts(Bytes(a) \o Bits(x, k), w)
          /\ <<>> \o Bytes(a) = Bytes(a)
      BY <2>6, <2>7, TwoParts
    <2>9. At(r, w, r, <<>>)
      BY <1>0, <2>8, AtFirst
    <2> HIDE DEF head
    <2>10. At(r, w, head, Bytes(a)) /\ (~head.threw => head.value = a)
      <3>1. head = ReadBytes(r, n)
        BY Zenon DEF head, n
      <3> DEFINE z == <<>>
      <3>2. a \in Seq(0..255) /\ n = Len(a) /\ At(r, w, r, z) /\ Starts(z \o Bytes(a), w)
        BY <2>4, <2>8, <2>9
      <3> HIDE DEF z
      <3>3. /\ At(r, w, head, z \o Bytes(a))
            /\ ~head.threw => ~r.threw /\ head.value = a
        BY <3>1, <3>2, BytesNext
      <3> QED BY <2>8, <3>3 DEF z
    <2> HIDE DEF rest
    <2>11. At(r, w, rest, w) /\ (~rest.threw => ~head.threw /\ rest.value = x)
      <3>1. rest = ReadBits(head, k)
        BY Zenon DEF rest, k
      <3> QED BY <2>5, <2>6, <2>8, <2>10, <3>1, FieldNext
    <2>12. Reads(r, rest, w, rest.value) /\ (~rest.threw => value = data)
      BY <2>4, <2>10, <2>11 DEF At
    <2> HIDE DEF value
    <2>13. Reads(r, Returning(rest, value), w, data)
      BY <2>12, ReturningReads
    <2> QED BY <2>1, <2>8, <2>13 DEF w
  <1> QED BY <1>3, <1>4, <1>5

LEMMA SizeFits ==
  ASSUME NEW n \in Nat, n < 2 ^ 14
  PROVE  Fits(n, 14)
  <1>1. n < Pow2(14)
    BY Zenon DEF Pow2
  <1>2. 14 \in 0..30
    OBVIOUS
  <1> QED BY <1>1, <1>2, SmallFits

LEMMA DataReads ==
  ASSUME NEW r, IsReader(r), NEW data, NEW fixed, data = NoValue \/ FitsData(data, fixed),
         Carries(r, EncodeData(data, fixed))
  PROVE  /\ EncodeData(data, fixed) \in BitStrings
         /\ Reads(r, ReadUserData(r, fixed), EncodeData(data, fixed), data)
  <1> DEFINE w == EncodeData(data, fixed)
             has == ReadBit(r)
             out == ReadUserData(r, fixed)
             z == <<>>
  <1>0. Carries(r, w) /\ <<1>> \in BitStrings /\ <<0>> \in BitStrings
    BY SingleBit
  <1>1. CASE data = NoValue
    <2>1. w = <<0>>
      BY <1>1 DEF EncodeData
    <2> HIDE DEF has, w
    <2>2. Reads(r, has, <<0>>, 0)
      BY <1>0, <2>1, BitReads DEF has
    <2>3. has.value = 0
      BY <2>2, ReadsValue, BitThrewZero DEF has
    <2>4. out = Returning(has, NoValue)
      BY <2>3, Zenon DEF ReadUserData, has
    <2>5. Reads(r, Returning(has, NoValue), <<0>>, NoValue)
      BY <2>2, ReturningReads
    <2> QED BY <1>0, <1>1, <2>1, <2>4, <2>5 DEF w
  <1>2. CASE data # NoValue
    <2> DEFINE e == IF fixed = NoValue THEN Bits(Len(data), 14) \o Bytes(data) ELSE EncodeFixed(data, fixed)
               length == ReadBits(has, 14)
               out1 == IF fixed # NoValue THEN ReadFixedUserData(has, fixed) ELSE ReadBytes(length, length.value)
    <2>1. w = <<1>> \o e
      BY <1>2, Zenon DEF EncodeData
    <2>2. FitsData(data, fixed)
      BY <1>2
    <2>3. e \in BitStrings
      <3>1. CASE fixed = NoValue
        <4>1. data \in Seq(0..255) /\ Len(data) < 2 ^ 14 /\ Len(data) \in Nat
          BY <2>2, <3>1 DEF FitsData
        <4>2. Bits(Len(data), 14) \in BitStrings
          BY <4>1, SizeFits, FitsBits
        <4>3. Bytes(data) \in BitStrings
          BY <4>1, BytesBits
        <4>4. Bits(Len(data), 14) \o Bytes(data) \in BitStrings
          BY <4>2, <4>3, Joined
        <4> QED BY <3>1, <4>4
      <3>2. CASE fixed # NoValue
        <4>1. PICK q : IsReader(q) /\ \A x : Carries(q, x)
          BY SomeReader, Zenon
        <4>2. EncodeFixed(data, fixed) \in BitStrings
          BY <2>2, <3>2, <4>1, FixedReads
        <4> QED BY <3>2, <4>2
      <3> QED BY <3>1, <3>2
    <2> HIDE DEF w, e, has, out, out1, z
    <2>4. w \in BitStrings /\ Starts(z \o <<1>>, w) /\ Starts(<<1>> \o e, w) /\ z \o <<1>> = <<1>>
      BY <1>0, <2>1, <2>3, TwoParts DEF z
    <2>5. At(r, w, r, z)
      BY <1>0, <2>4, AtFirst DEF z
    <2>6. /\ At(r, w, has, <<1>>)
          /\ has.threw => has.value = 0
          /\ ~has.threw => has.value = 1
      <3>1. /\ At(r, w, has, z \o <<1>>)
            /\ has.threw => has.value = 0
            /\ ~has.threw => ~r.threw /\ has.value = 1
        BY <2>4, <2>5, BitNext DEF has
      <3> QED BY <2>4, <3>1
    <2>7. CASE has.threw
      <3>1. out = Returning(has, NoValue)
        BY <2>6, <2>7, Zenon DEF ReadUserData, has, out
      <3>2. At(r, w, out, <<1>>) /\ out.threw
        BY <2>6, <2>7, <3>1, AtReturning
      <3>3. Reads(r, out, w, data)
        BY <3>2, AtThrew
      <3> QED BY <2>4, <3>3 DEF out, w
    <2>8. CASE ~has.threw
      <3>1. out = out1
        <4>1. ~(has.value = 0)
          BY <2>6, <2>8
        <4> QED BY <4>1, Zenon DEF ReadUserData, has, out, out1
      <3>2. Carries(has, e) /\ IsReader(has)
        BY <2>3, <2>4, <2>6, AtNext
      <3>3. Reads(has, out1, e, data)
        <4>1. CASE fixed = NoValue
          <5>1. data \in Seq(0..255) /\ Len(data) < 2 ^ 14 /\ Len(data) \in Nat
            BY <2>2, <4>1 DEF FitsData
          <5> DEFINE a == Bits(Len(data), 14)
                     b == Bytes(data)
          <5>2. e = a \o b
            BY <4>1 DEF e
          <5>3. Fits(Len(data), 14) /\ a \in BitStrings /\ b \in BitStrings
            BY <5>1, SizeFits, FitsBits, BytesBits
          <5>4. out1 = ReadBytes(length, length.value)
            BY <4>1 DEF out1
          <5> HIDE DEF length, a, b
          <5>5. /\ Starts(z \o a, e) /\ Starts(a \o b, e) /\ z \o a = a
            BY <5>2, <5>3, TwoParts DEF z
          <5>6. At(has, e, has, z)
            BY <2>3, <3>2, AtFirst DEF z
          <5>7. At(has, e, length, a) /\ (~length.threw => length.value = Len(data))
            <6>1. /\ At(has, e, length, z \o a)
                  /\ ~length.threw => ~has.threw /\ length.value = Len(data)
              BY <5>3, <5>5, <5>6, FieldNext DEF length, a
            <6> QED BY <5>5, <6>1
          <5>8. At(has, e, out1, e) /\ (~out1.threw => out1.value = data)
            <6> DEFINE m == length.value
            <6>1. out1 = ReadBytes(length, m) /\ (~length.threw => m = Len(data))
              BY <5>4, <5>7
            <6> HIDE DEF m
            <6>2. /\ At(has, e, out1, a \o b)
                  /\ ~out1.threw => ~length.threw /\ out1.value = data
              BY <5>1, <5>5, <5>7, <6>1, BytesNext DEF b
            <6> QED BY <5>2, <6>2
          <5> QED BY <5>8, AtEnd
        <4>2. CASE fixed # NoValue
          <5>1. e = EncodeFixed(data, fixed) /\ out1 = ReadFixedUserData(has, fixed)
            BY <4>2 DEF e, out1
          <5> QED BY <2>2, <3>2, <4>2, <5>1, FixedReads
        <4> QED BY <4>1, <4>2
      <3>4. At(r, w, out, w) /\ (~out.threw => out.value = data)
        <4>1. /\ At(r, w, out, <<1>> \o e)
              /\ ~out.threw => ~has.threw /\ out.value = data
          BY <2>3, <2>4, <2>6, <3>1, <3>3, AtThen
        <4> QED BY <2>1, <4>1
      <3>5. Reads(r, out, w, data)
        BY <3>4, AtEnd
      <3> QED BY <2>4, <3>5 DEF out, w
    <2>9. has.threw \in BOOLEAN
      BY <2>6 DEF At, Reads, Takes, IsReader
    <2> QED BY <2>7, <2>8, <2>9
  <1> QED BY <1>1, <1>2

-----------------------------------------------------------------------------
(* The key of an entry. *)

\* A set of small numbers has a largest.
LEMMA SmallMax ==
  ASSUME NEW S \in SUBSET (0..31), S # {}
  PROVE  Max(S) \in S /\ \A y \in S : Max(S) >= y
  <1> DEFINE G == {k \in 0..31 : \A T \in SUBSET (0..k) : T # {} => \E x \in T : \A y \in T : x >= y}
  <1>1. 0 \in G
    <2>1. ASSUME NEW T \in SUBSET (0..0), T # {}
          PROVE  \E x \in T : \A y \in T : x >= y
      <3>1. PICK x \in T : TRUE
        BY <2>1
      <3>2. x = 0 /\ \A y \in T : y = 0
        OBVIOUS
      <3> QED BY <3>2
    <2> QED BY <2>1
  <1>2. ASSUME NEW k \in 0..31 - 1, k \in G PROVE k + 1 \in G
    <2>1. ASSUME NEW T \in SUBSET (0..k + 1), T # {}
          PROVE  \E x \in T : \A y \in T : x >= y
      <3>1. CASE k + 1 \in T
        BY <3>1
      <3>2. CASE k + 1 \notin T
        <4>1. T \in SUBSET (0..k)
          BY <3>2
        <4> QED BY <1>2, <2>1, <4>1
      <3> QED BY <3>1, <3>2
    <2> QED BY <2>1
  <1> HIDE DEF G
  <1>3. \A k \in 0..31 : k \in G
    BY <1>1, <1>2, IntervalInduction
  <1>4. \E x \in S : \A y \in S : x >= y
    <2>1. 31 \in G
      BY <1>3
    <2>2. \A T \in SUBSET (0..31) : T # {} => \E x \in T : \A y \in T : x >= y
      BY <2>1, Zenon DEF G
    <2> QED BY <2>2, Zenon
  <1> QED BY <1>4, Zenon DEF Max

LEMMA SharedIs ==
  ASSUME NEW key, NEW earlier, Len(key) \in Nat, Len(earlier) \in Nat,
         SubSeq(key, 1, 0) = SubSeq(earlier, 1, 0)
  PROVE  /\ Shared(key, earlier) \in 0..31 /\ Shared(key, earlier) <= Len(key) /\ Shared(key, earlier) <= Len(earlier)
         /\ SubSeq(key, 1, Shared(key, earlier)) = SubSeq(earlier, 1, Shared(key, earlier))
  <1> DEFINE S == {n \in 0..31 : n <= Len(key) /\ n <= Len(earlier) /\ SubSeq(key, 1, n) = SubSeq(earlier, 1, n)}
  <1>1. 0 \in S /\ S \in SUBSET (0..31)
    OBVIOUS
  <1>2. Shared(key, earlier) = Max(S)
    BY Zenon DEF Shared
  <1> HIDE DEF S
  <1>3. Shared(key, earlier) \in S
    BY <1>1, <1>2, SmallMax
  <1> QED BY <1>3 DEF S

LEMMA SplitSeq ==
  ASSUME NEW S, NEW k \in Seq(S), NEW m \in Nat, m <= Len(k)
  PROVE  SubSeq(k, 1, m) \o SubSeq(k, m + 1, Len(k)) = k
  <1> DEFINE a == SubSeq(k, 1, m)
             b == SubSeq(k, m + 1, Len(k))
  <1>1. Len(k) \in Nat
    BY LenProperties
  <1>2. a \in Seq(S) /\ Len(a) = m /\ \A i \in 1..m : a[i] = k[i]
    BY <1>1
  <1>3. b \in Seq(S) /\ Len(b) = Len(k) - m /\ \A i \in 1..Len(k) - m : b[i] = k[m + i]
    BY <1>1
  <1> HIDE DEF a, b
  <1>4. a \o b \in Seq(S) /\ Len(a \o b) = Len(k)
    BY <1>1, <1>2, <1>3
  <1>5. ASSUME NEW i \in 1..Len(k) PROVE (a \o b)[i] = k[i]
    <2>1. CASE i <= m
      BY <1>1, <1>2, <1>3, <2>1
    <2>2. CASE i > m
      <3> DEFINE j == i - m
      <3>1. j \in 1..Len(k) - m /\ i = m + j
        BY <1>1, <2>2
      <3> HIDE DEF j
      <3>2. (a \o b)[m + j] = b[j]
        BY <1>1, <1>2, <1>3, <3>1
      <3> QED BY <1>3, <3>1, <3>2
    <2>3. i <= m \/ i > m
      BY <1>1
    <2> QED BY <2>1, <2>2, <2>3
  <1>6. a \o b = k
    BY <1>4, <1>5, SeqEqual
  <1> QED BY <1>6 DEF a, b

\* The keys a ring holds; five bits name one of them.
Ring(ring) == ring \in Seq(Seq(1..255)) /\ Len(ring) <= 32

LEMMA ThrewText ==
  ASSUME NEW start, NEW w, NEW rd, NEW d, At(start, w, rd, d), rd.threw, NEW key, FitsKey(key), NEW x
  PROVE  Reads(start, ReadText(rd), w, x)
  <1> DEFINE e == Bytes(EncodeText(key))
             z == <<>>
  <1>1. IsReader(rd) /\ Carries(rd, e)
    BY DEF At, Reads, Takes, Carries
  <1>2. e \in BitStrings /\ Reads(rd, ReadText(rd), e, key)
    BY <1>1, TextReads
  <1> HIDE DEF e
  <1>3. IsReader(ReadText(rd)) /\ ReadText(rd).bits = rd.bits /\ ReadText(rd).threw
    BY <1>2 DEF Reads, Takes
  <1>4. Reads(start, rd, w, x)
    BY AtThrew
  <1> QED BY <1>3, <1>4 DEF Reads, Takes

LEMMA KeyReads ==
  ASSUME NEW r, IsReader(r), NEW ring, Ring(ring), NEW e, e.key = NoValue \/ FitsKey(e.key),
         Carries(r, EncodeKey(e, ring))
  PROVE  /\ EncodeKey(e, ring) \in BitStrings
         /\ Reads(r, ReadKey(r, ring), EncodeKey(e, ring), e.key)
  <1> DEFINE w == EncodeKey(e, ring)
             z == <<>>
             has == ReadBit(r)
             prefix == ReadBitIf(has, has.value = 1)
             slot == ReadBitsIf(prefix, prefix.value = 1, 5)
             length == ReadBitsIf(slot, prefix.value = 1, 5)
             text == ReadText(length)
             source == IF slot.value + 1 \in DOMAIN ring THEN ring[slot.value + 1] ELSE <<>>
             whole == StartOf(source, length.value) \o text.value
             out == ReadKey(r, ring)
  <1>0. Carries(r, w) /\ <<1>> \in BitStrings /\ <<0>> \in BitStrings
    BY SingleBit
  <1>1. out = IF has.value = 0 THEN Returning(prefix, NoValue)
              ELSE IF prefix.value = 0 THEN text ELSE Returning(text, whole)
    BY Zenon DEF ReadKey
  <1>2. /\ prefix = IF has.value = 1 THEN ReadBit(has) ELSE Returning(has, 0)
        /\ slot = IF prefix.value = 1 THEN ReadBits(prefix, 5) ELSE Returning(prefix, 0)
        /\ length = IF prefix.value = 1 THEN ReadBits(slot, 5) ELSE Returning(slot, 0)
    BY Zenon DEF ReadBitIf, ReadBitsIf
  <1>3. CASE e.key = NoValue
    <2>1. w = <<0>>
      BY <1>3 DEF EncodeKey
    <2> HIDE DEF w, has, prefix, slot, length, text, whole, out
    <2>2. Reads(r, has, <<0>>, 0)
      BY <1>0, <2>1, BitReads DEF has
    <2>3. has.value = 0
      BY <2>2, ReadsValue, BitThrewZero DEF has
    <2>4. out = Returning(prefix, NoValue) /\ prefix = Returning(has, 0)
      <3>1. ~(has.value = 1)
        BY <2>3
      <3> QED BY <1>1, <1>2, <2>3, <3>1, Zenon
    <2>5. Reads(r, prefix, <<0>>, 0)
      BY <2>2, <2>4, ReturningReads
    <2>6. Reads(r, out, <<0>>, NoValue)
      BY <2>4, <2>5, ReturningReads
    <2> QED BY <1>0, <1>3, <2>1, <2>6 DEF w, out
  <1>4. CASE e.key # NoValue
    <2> DEFINE key == e.key
               direct == e.from \notin DOMAIN ring
               n == Shared(key, ring[e.from])
               rest == IF direct THEN key ELSE SubSeq(key, n + 1, Len(key))
               tail == Bytes(EncodeText(rest))
               b == IF direct THEN <<0>> ELSE <<1>>
               code == IF direct THEN <<0>> \o tail
                       ELSE (<<1>> \o Bits(e.from - 1, 5)) \o (Bits(n, 5) \o tail)
    <2>1. FitsKey(key) /\ key \in Seq(1..255) /\ Len(key) \in Nat /\ Len(key) < MaxStringLength
      <3>1. FitsKey(key) /\ key \in Seq(1..255) /\ Len(key) < MaxStringLength
        BY <1>4 DEF FitsKey
      <3> DEFINE k == key
      <3> HIDE DEF k
      <3>2. k \in Seq(1..255)
        BY <3>1 DEF k
      <3>3. Len(k) \in Nat
        BY <3>2, LenProperties
      <3> QED BY <3>1, <3>3 DEF k
    <2>2. ~direct => /\ e.from \in 1..Len(ring) /\ Len(ring) \in Nat /\ Len(ring) <= 32
                     /\ ring[e.from] \in Seq(1..255) /\ Len(ring[e.from]) \in Nat
      <3> DEFINE S == Seq(1..255)
      <3> HIDE DEF S
      <3>1. ring \in Seq(S) /\ Len(ring) <= 32
        BY DEF Ring, S
      <3>2. Len(ring) \in Nat /\ DOMAIN ring = 1..Len(ring)
        BY <3>1, LenProperties
      <3>3. ~direct => e.from \in 1..Len(ring)
        BY <3>2
      <3>4. ~direct => ring[e.from] \in S
        BY <3>1, <3>3, ElementOfSeq
      <3>5. \A x \in S : Len(x) \in Nat
        BY LenProperties DEF S
      <3> QED BY <3>1, <3>2, <3>3, <3>4, <3>5 DEF S
    <2>3. ~direct => /\ n \in 0..31 /\ n <= Len(key) /\ n <= Len(ring[e.from])
                     /\ SubSeq(key, 1, n) = SubSeq(ring[e.from], 1, n)
      <3> SUFFICES ASSUME ~direct
                   PROVE  /\ n \in 0..31 /\ n <= Len(key) /\ n <= Len(ring[e.from])
                          /\ SubSeq(key, 1, n) = SubSeq(ring[e.from], 1, n)
        OBVIOUS
      <3> DEFINE h == ring[e.from]
                 k == key
      <3>1. Len(k) \in Nat /\ Len(h) \in Nat
        BY <2>1, <2>2
      <3> HIDE DEF h, k
      <3>2. SubSeq(k, 1, 0) = SubSeq(h, 1, 0)
        OBVIOUS
      <3> QED BY <3>1, <3>2, SharedIs DEF h, k
    <2>12. ~direct => /\ e.from \in Nat /\ e.from - 1 \in Nat /\ e.from - 1 <= 31 /\ e.from - 1 + 1 = e.from
                      /\ n \in Nat /\ n <= 31 /\ n <= Len(key)
      <3> DEFINE p == e.from
                 l == Len(ring)
                 k == Len(key)
                 h == Len(ring[e.from])
      <3>1. ~direct => p \in 1..l /\ l \in Nat /\ l <= 32
        BY <2>2, Zenon
      <3>2. ~direct => n \in 0..31 /\ n <= k
        BY <2>3, Zenon
      <3> HIDE DEF direct, p, l, n, k
      <3>3. ~direct => p \in Nat /\ p - 1 \in Nat /\ p - 1 <= 31 /\ p - 1 + 1 = p
        BY <3>1
      <3>4. ~direct => n \in Nat /\ n <= 31
        BY <3>2
      <3> QED BY <3>2, <3>3, <3>4, Zenon DEF p, k
    <2>4. FitsKey(rest) /\ tail \in BitStrings
      <3>1. FitsKey(rest)
        <4>1. CASE direct
          BY <2>1, <4>1
        <4>2. CASE ~direct
          <5> DEFINE k == key
                     S == 1..255
                     m == n
          <5> HIDE DEF k, S, m
          <5>1. k \in Seq(S) /\ Len(k) \in Nat /\ Len(k) < MaxStringLength /\ m \in Nat /\ m <= Len(k)
            <6>1. k \in Seq(S) /\ Len(k) \in Nat /\ Len(k) < MaxStringLength
              BY <2>1, Zenon DEF k, S
            <6>2. m \in Nat /\ m <= Len(k)
              BY <2>12, <4>2, Zenon DEF k, m
            <6> QED BY <6>1, <6>2
          <5>2. SubSeq(k, m + 1, Len(k)) \in Seq(S) /\ Len(SubSeq(k, m + 1, Len(k))) = Len(k) - m
            BY <5>1
          <5>3. Len(SubSeq(k, m + 1, Len(k))) < MaxStringLength
            BY <5>1, <5>2, StringLengths
          <5>4. rest = SubSeq(k, m + 1, Len(k))
            BY <4>2 DEF k, m
          <5> HIDE DEF rest
          <5> QED BY <5>2, <5>3, <5>4 DEF FitsKey, S
        <4> QED BY <4>1, <4>2
      <3> HIDE DEF rest
      <3> QED BY <3>1, KeyBits
    <2>5. w = <<1>> \o code /\ code \in BitStrings
      <3>1. CASE direct
        <4>1. w = <<1, 0>> \o tail
          BY <1>4, <3>1, Zenon DEF EncodeKey
        <4>2. code = <<0>> \o tail
          BY <3>1
        <4> HIDE DEF tail, w, code
        <4>3. <<1, 0>> = <<1>> \o <<0>>
          OBVIOUS
        <4>4. (<<1>> \o <<0>>) \o tail = <<1>> \o (<<0>> \o tail)
          BY <1>0, <2>4, JoinAssoc, Zenon
        <4>5. <<0>> \o tail \in BitStrings
          BY <1>0, <2>4, Joined, Zenon
        <4> QED BY <4>1, <4>2, <4>3, <4>4, <4>5, Zenon
      <3>2. CASE ~direct
        <4> DEFINE c == Bits(e.from - 1, 5)
                   m == Bits(n, 5) \o tail
        <4>1. w = (<<1, 1>> \o c) \o m
          BY <1>4, <3>2, Zenon DEF EncodeKey
        <4>2. code = (<<1>> \o c) \o m
          BY <3>2
        <4>3. c \in BitStrings /\ m \in BitStrings
          <5>1. e.from - 1 \in Nat /\ n \in Nat
            BY <2>12, <3>2, Zenon
          <5>2. c \in BitStrings /\ Bits(n, 5) \in BitStrings
            <6> DEFINE p == e.from - 1
                       q == n
            <6>1. p \in Nat /\ q \in Nat
              BY <5>1
            <6> HIDE DEF p, q
            <6>2. Bits(p, 5) \in BitStrings /\ Bits(q, 5) \in BitStrings
              BY <6>1, BitsAreDigits DEF BitStrings
            <6> QED BY <6>2 DEF p, q
          <5> DEFINE f == Bits(n, 5)
          <5> HIDE DEF tail, f
          <5> QED BY <5>2, <2>4, Joined DEF f
        <4> HIDE DEF tail, w, code, c, m
        <4>4. <<1, 1>> = <<1>> \o <<1>>
          OBVIOUS
        <4>5. <<1, 1>> \o c = <<1>> \o (<<1>> \o c)
          BY <1>0, <4>3, <4>4, JoinAssoc
        <4>6. <<1>> \o c \in BitStrings /\ (<<1>> \o c) \o m \in BitStrings
          BY <1>0, <4>3, Joined
        <4>7. w = <<1>> \o ((<<1>> \o c) \o m)
          BY <1>0, <4>1, <4>3, <4>5, <4>6, JoinAssoc
        <4> QED BY <4>2, <4>6, <4>7
      <3> QED BY <3>1, <3>2
    <2> HIDE DEF w, code, z
    <2>6. w \in BitStrings /\ Starts(z \o <<1>>, w) /\ Starts(<<1>> \o code, w) /\ z \o <<1>> = <<1>>
      BY <1>0, <2>5, TwoParts DEF z
    <2>7. At(r, w, r, z)
      BY <1>0, <2>6, AtFirst DEF z
    <2> HIDE DEF has, prefix, slot, length, text, whole, out, source
    <2>8. /\ At(r, w, has, <<1>>)
          /\ has.threw => has.value = 0
          /\ ~has.threw => has.value = 1
      <3>1. /\ At(r, w, has, z \o <<1>>)
            /\ has.threw => has.value = 0
            /\ ~has.threw => ~r.threw /\ has.value = 1
        BY <2>6, <2>7, BitNext DEF has
      <3> QED BY <2>6, <3>1
    <2>9. CASE has.threw
      <3>1. out = Returning(prefix, NoValue) /\ prefix = Returning(has, 0)
        <4>1. has.value = 0 /\ ~(has.value = 1)
          BY <2>8, <2>9
        <4> QED BY <1>1, <1>2, <4>1, Zenon
      <3>2. At(r, w, prefix, <<1>>) /\ prefix.threw
        BY <2>8, <2>9, <3>1, AtReturning
      <3>3. At(r, w, out, <<1>>) /\ out.threw
        BY <3>1, <3>2, AtReturning
      <3>4. Reads(r, out, w, e.key)
        BY <3>3, AtThrew
      <3> QED BY <2>6, <3>4 DEF out, w
    <2>10. CASE ~has.threw
      <3>1. prefix = ReadBit(has) /\ out = IF prefix.value = 0 THEN text ELSE Returning(text, whole)
        <4>1. ~(has.value = 0) /\ has.value = 1
          BY <2>8, <2>10
        <4> QED BY <1>1, <1>2, <4>1, Zenon
      <3>2. Carries(has, code) /\ IsReader(has)
        BY <2>5, <2>6, <2>8, AtNext
      <3>3. Reads(has, out, code, e.key)
        <4>1. At(has, code, has, z)
          BY <2>5, <3>2, AtFirst DEF z
        <4>2. CASE direct
          <5>1. code = <<0>> \o tail /\ rest = key
            BY <4>2 DEF code
          <5> HIDE DEF tail, rest
          <5>2. Starts(z \o <<0>>, code) /\ Starts(<<0>> \o tail, code) /\ z \o <<0>> = <<0>>
            BY <1>0, <2>4, <5>1, TwoParts DEF z
          <5>3. At(has, code, prefix, <<0>>) /\ prefix.value = 0
            <6>1. /\ At(has, code, prefix, z \o <<0>>)
                  /\ prefix.threw => prefix.value = 0
                  /\ ~prefix.threw => ~has.threw /\ prefix.value = 0
              BY <3>1, <4>1, <5>2, BitNext
            <6>2. prefix.threw \in BOOLEAN
              BY <6>1 DEF At, Reads, Takes, IsReader
            <6> QED BY <5>2, <6>1, <6>2
          <5>4. slot = Returning(prefix, 0) /\ length = Returning(slot, 0) /\ out = text
            <6>1. ~(prefix.value = 1)
              BY <5>3
            <6> QED BY <1>2, <3>1, <5>3, <6>1, Zenon
          <5>5. At(has, code, length, <<0>>)
            BY <5>3, <5>4, AtReturning
          <5>6. At(has, code, out, code) /\ (~out.threw => out.value = e.key)
            <6>1. /\ At(has, code, out, <<0>> \o tail)
                  /\ ~out.threw => ~length.threw /\ out.value = rest
              <7>1. out = ReadText(length)
                BY <5>4 DEF text
              <7> QED BY <2>4, <5>2, <5>5, <7>1, TextNext DEF tail
            <6> QED BY <5>1, <6>1
          <5> QED BY <5>6, AtEnd
        <4>3. CASE ~direct
          <5> DEFINE c == Bits(e.from - 1, 5)
                     f == Bits(n, 5)
                     a1 == <<1>>
                     a2 == a1 \o c
                     a3 == a2 \o f
          <5>1. code = (a1 \o c) \o (f \o tail) /\ rest = SubSeq(key, n + 1, Len(key))
            BY <4>3 DEF code
          <5>2. Fits(e.from - 1, 5) /\ Fits(n, 5)
            <6>1. e.from - 1 \in Nat /\ e.from - 1 <= 31 /\ n \in Nat /\ n <= 31
              BY <2>12, <4>3, Zenon
            <6>2. 5 \in 0..30 /\ Pow2(5) = 32
              BY PowerValues
            <6> DEFINE m == n
                       p == e.from - 1
            <6> HIDE DEF m, p
            <6>3. m \in Nat /\ m < Pow2(5) /\ p \in Nat /\ p < Pow2(5)
              BY <6>1, <6>2 DEF m, p
            <6>4. Fits(m, 5) /\ Fits(p, 5)
              BY <6>2, <6>3, SmallFits
            <6> QED BY <6>4 DEF m, p
          <5>3. c \in BitStrings /\ f \in BitStrings /\ a1 \in BitStrings
            BY <5>2, <1>0, FitsBits
          <5> HIDE DEF tail, rest, c, f, n
          <5>4. a2 \in BitStrings /\ a3 \in BitStrings /\ a3 \o tail \in BitStrings
            BY <2>4, <5>3, Joined
          <5>5. code = a3 \o tail
            <6>1. f \o tail \in BitStrings
              BY <2>4, <5>3, Joined
            <6> HIDE DEF a1, a2
            <6>2. (a2 \o f) \o tail = a2 \o (f \o tail)
              <7>1. a2 \in BitStrings /\ f \in BitStrings /\ tail \in BitStrings
                BY <2>4, <5>3, <5>4, Zenon
              <7> QED BY <7>1, JoinAssoc
            <6> QED BY <5>1, <6>2 DEF a2
          <5> HIDE DEF a1, a2, a3
          <5>6. Starts(a3 \o tail, code) /\ Starts(a3, code)
            BY <2>4, <5>4, <5>5, StartsAtOnce DEF Starts
          <5>7. Starts(a2, code) /\ Starts(a1, code)
            <6>1. Starts(a2, a3) /\ Starts(a1, a2)
              BY <5>3 DEF Starts, a3, a2
            <6>2. code \in BitStrings
              BY <5>4, <5>5
            <6>3. Starts(a2, code)
              BY <5>3, <5>4, <5>6, <6>1, <6>2, StartsThen
            <6>4. Starts(a1, code)
              BY <5>3, <5>4, <6>1, <6>2, <6>3, StartsThen
            <6> QED BY <6>3, <6>4
          <5>8. /\ At(has, code, prefix, a1)
                /\ prefix.threw => prefix.value = 0
                /\ ~prefix.threw => prefix.value = 1
            <6>1. z \o <<1>> = a1
              BY <2>6 DEF a1
            <6>2. /\ At(has, code, prefix, z \o <<1>>)
                  /\ prefix.threw => prefix.value = 0
                  /\ ~prefix.threw => ~has.threw /\ prefix.value = 1
              BY <3>1, <4>1, <5>7, <6>1, BitNext
            <6> QED BY <6>1, <6>2
          <5>9. CASE prefix.threw
            <6>1. slot = Returning(prefix, 0) /\ length = Returning(slot, 0) /\ out = text
              <7>1. prefix.value = 0 /\ ~(prefix.value = 1)
                BY <5>8, <5>9
              <7> QED BY <1>2, <3>1, <7>1, Zenon
            <6>2. At(has, code, slot, a1) /\ slot.threw
              BY <5>8, <5>9, <6>1, AtReturning
            <6>3. At(has, code, length, a1) /\ length.threw
              BY <6>1, <6>2, AtReturning
            <6> QED BY <6>1, <6>3, <2>1, ThrewText DEF text
          <5>10. CASE ~prefix.threw
            <6>1. slot = ReadBits(prefix, 5) /\ length = ReadBits(slot, 5) /\ out = Returning(text, whole)
              <7>1. ~(prefix.value = 0) /\ prefix.value = 1
                BY <5>8, <5>10
              <7> QED BY <1>2, <3>1, <7>1, Zenon
            <6>2. At(has, code, slot, a2) /\ (~slot.threw => slot.value = e.from - 1)
              <7>1. Starts(a1 \o Bits(e.from - 1, 5), code)
                BY <5>7 DEF a2, c
              <7>2. /\ At(has, code, slot, a1 \o Bits(e.from - 1, 5))
                    /\ ~slot.threw => ~prefix.threw /\ slot.value = e.from - 1
                BY <5>2, <5>8, <6>1, <7>1, FieldNext
              <7> QED BY <7>2 DEF a2, c
            <6>3. At(has, code, length, a3) /\ (~length.threw => ~slot.threw /\ length.value = n)
              <7>1. Starts(a2 \o Bits(n, 5), code)
                BY <5>6 DEF a3, f
              <7>2. /\ At(has, code, length, a2 \o Bits(n, 5))
                    /\ ~length.threw => ~slot.threw /\ length.value = n
                BY <5>2, <6>1, <6>2, <7>1, FieldNext
              <7> QED BY <7>2 DEF a3, f
            <6>4. At(has, code, text, code) /\ (~text.threw => ~length.threw /\ text.value = rest)
              <7>1. /\ At(has, code, text, a3 \o tail)
                    /\ ~text.threw => ~length.threw /\ text.value = rest
                BY <2>4, <5>6, <6>3, TextNext DEF tail, text
              <7> QED BY <5>5, <7>1
            <6>5. ~text.threw => whole = e.key
              <7> SUFFICES ASSUME ~text.threw PROVE whole = e.key
                OBVIOUS
              <7>1. slot.value = e.from - 1 /\ length.value = n /\ text.value = rest
                BY <6>2, <6>3, <6>4
              <7> DEFINE h == ring[e.from]
                         k == key
                         m == n
              <7>2. slot.value + 1 = e.from /\ e.from \in DOMAIN ring
                BY <2>2, <4>3, <7>1
              <7>3. source = h
                BY <7>2 DEF source
              <7>4. m \in Nat /\ m <= Len(h) /\ m <= Len(k) /\ Len(h) \in Nat /\ SubSeq(k, 1, m) = SubSeq(h, 1, m)
                <8>1. m \in Nat /\ m <= Len(k)
                  BY <2>12, <4>3, Zenon
                <8>2. m <= Len(h) /\ SubSeq(k, 1, m) = SubSeq(h, 1, m)
                  BY <2>3, <4>3, Zenon
                <8>3. Len(h) \in Nat
                  BY <2>2, <4>3, Zenon
                <8> QED BY <8>1, <8>2, <8>3, Zenon
              <7>5. whole = StartOf(h, m) \o SubSeq(k, m + 1, Len(k))
                BY <5>1, <7>1, <7>3, Zenon DEF whole
              <7> HIDE DEF h, m, k
              <7>6. StartOf(h, m) = SubSeq(h, 1, m)
                <8>1. (IF m < Len(h) THEN m ELSE Len(h)) = m
                  BY <7>4
                <8> QED BY <8>1 DEF StartOf
              <7>7. SubSeq(k, 1, m) \o SubSeq(k, m + 1, Len(k)) = k
                <8> DEFINE S == 1..255
                <8>1. k \in Seq(S)
                  BY <2>1 DEF k
                <8> HIDE DEF S
                <8>2. m \in Nat /\ m <= Len(k) /\ Len(k) \in Nat
                  BY <7>4, <8>1, LenProperties
                <8> QED BY <8>1, <8>2, SplitSeq
              <7> QED BY <7>4, <7>5, <7>6, <7>7 DEF k
            <6>6. Reads(has, text, code, text.value)
              BY <6>4 DEF At
            <6>7. Reads(has, Returning(text, whole), code, e.key)
              BY <6>5, <6>6, ReturningReads
            <6> QED BY <6>1, <6>7
          <5>11. prefix.threw \in BOOLEAN
            BY <5>8 DEF At, Reads, Takes, IsReader
          <5> QED BY <5>9, <5>10, <5>11
        <4> QED BY <4>2, <4>3
      <3>4. At(r, w, out, w) /\ (~out.threw => out.value = e.key)
        <4>1. /\ At(r, w, out, <<1>> \o code)
              /\ ~out.threw => ~has.threw /\ out.value = e.key
          BY <2>5, <2>6, <2>8, <3>3, AtThen
        <4> QED BY <2>5, <4>1
      <3>5. Reads(r, out, w, e.key)
        BY <3>4, AtEnd
      <3> QED BY <2>6, <3>5 DEF out, w
    <2>11. has.threw \in BOOLEAN
      BY <2>8 DEF At, Reads, Takes, IsReader
    <2> QED BY <2>9, <2>10, <2>11
  <1> QED BY <1>3, <1>4

-----------------------------------------------------------------------------
(* An entry: its index, its key and its userdata. *)

EntryFits(e, last, max, fixed) ==
  /\ e.index = last + 1 \/ Fits(e.index, BitsForMaxEntries(max))
  /\ e.key = NoValue \/ FitsKey(e.key)
  /\ e.data = NoValue \/ FitsData(e.data, fixed)

LEMMA EntryReads ==
  ASSUME NEW r, IsReader(r), NEW side, Ring(side.history), NEW e, NEW last, NEW max, NEW fixed,
         EntryFits(e, last, max, fixed), NEW w, w = EncodeEntry(side, e, last, max, fixed), Carries(r, w),
         NEW place, place = ReadEntryIndex(r, last, max), NEW key, key = ReadKey(place, side.history),
         NEW data, data = ReadUserData(key, fixed)
  PROVE  /\ w \in BitStrings /\ Reads(r, data, w, e.data)
         /\ ~data.threw => place.value = e.index /\ key.value = e.key /\ data.value = e.data
  <1> DEFINE a == EncodeIndex(e.index, last, max)
             b == EncodeKey(e, side.history)
             c == EncodeData(e.data, fixed)
  <1>1. w = (a \o b) \o c
    BY Zenon DEF EncodeEntry
  <1>2. PICK q : IsReader(q) /\ \A x : Carries(q, x)
    BY SomeReader, Zenon
  <1>3. /\ e.index = last + 1 \/ Fits(e.index, BitsForMaxEntries(max))
        /\ e.key = NoValue \/ FitsKey(e.key)
        /\ e.data = NoValue \/ FitsData(e.data, fixed)
    BY Zenon DEF EntryFits
  <1>4. a \in BitStrings
    BY <1>2, <1>3, IndexReads
  <1>5. b \in BitStrings
    BY <1>2, <1>3, KeyReads
  <1>6. c \in BitStrings
    BY <1>2, <1>3, DataReads
  <1> HIDE DEF a, b, c
  <1>7. a \o b \in BitStrings /\ w \in BitStrings
    BY <1>1, <1>4, <1>5, <1>6, Joined
  <1>8. Carries(r, a \o b) /\ Carries(r, a)
    BY <1>1, <1>4, <1>5, <1>6, <1>7, CarriesFirst
  <1>9. Reads(r, place, a, e.index)
    BY <1>3, <1>8, IndexReads DEF a
  <1>10. Carries(place, b) /\ IsReader(place)
    BY <1>4, <1>5, <1>8, <1>9, CarriesOn
  <1>11. Reads(place, key, b, e.key)
    BY <1>3, <1>10, KeyReads DEF b
  <1>12. Reads(r, key, a \o b, e.key) /\ Carries(key, c) /\ IsReader(key)
    BY <1>1, <1>4, <1>5, <1>6, <1>9, <1>11, Onward
  <1>13. Reads(key, data, c, e.data)
    BY <1>3, <1>12, DataReads DEF c
  <1>14. Reads(r, data, w, e.data)
    BY <1>1, <1>6, <1>7, <1>12, <1>13, ReadsOn
  <1>15. ~data.threw => ~key.threw /\ data.value = e.data
    BY <1>13, ReadsValue
  <1>16. ~key.threw => ~place.threw /\ key.value = e.key
    BY <1>11, ReadsValue
  <1>17. ~place.threw => place.value = e.index
    BY <1>9, ReadsValue
  <1> QED BY <1>7, <1>14, <1>15, <1>16, <1>17

LEMMA EntryBits ==
  ASSUME NEW side, Ring(side.history), NEW e, NEW last, NEW max, NEW fixed, EntryFits(e, last, max, fixed)
  PROVE  EncodeEntry(side, e, last, max, fixed) \in BitStrings
  <1>1. PICK q : IsReader(q) /\ \A x : Carries(q, x)
    BY SomeReader, Zenon
  <1> DEFINE w == EncodeEntry(side, e, last, max, fixed)
  <1>2. Carries(q, w)
    BY <1>1
  <1> HIDE DEF w
  <1>3. w \in BitStrings
    BY <1>1, <1>2, EntryReads DEF w
  <1> QED BY <1>3 DEF w

-----------------------------------------------------------------------------
(* The server's side, entry by entry. *)

SidesTo(g, side, list, n) ==
  g = [i \in 0..n |-> IF i = 0 THEN side ELSE Wrote(g[i - 1], list[i])]

LEMMA SidesExist ==
  ASSUME NEW side, NEW list, NEW n \in Nat
  PROVE  \E g : SidesTo(g, side, list, n)
  <1> DEFINE G == {k \in 0..n : \E g : SidesTo(g, side, list, k)}
  <1>1. 0 \in G
    <2> DEFINE g == [i \in 0..0 |-> side]
    <2>1. g = [i \in 0..0 |-> IF i = 0 THEN side ELSE Wrote(g[i - 1], list[i])]
      OBVIOUS
    <2>2. SidesTo(g, side, list, 0)
      BY <2>1, Zenon DEF SidesTo
    <2> QED BY <2>2
  <1>2. ASSUME NEW k \in 0..n - 1, k \in G PROVE k + 1 \in G
    <2>1. PICK g : SidesTo(g, side, list, k)
      BY <1>2
    <2> DEFINE next == Wrote(g[k], list[k + 1])
               h == [i \in 0..k + 1 |-> IF i = k + 1 THEN next ELSE g[i]]
    <2> HIDE DEF next
    <2>2. ASSUME NEW i \in 0..k + 1
          PROVE  h[i] = IF i = 0 THEN side ELSE Wrote(h[i - 1], list[i])
      <3>1. CASE i = k + 1
        <4>1. h[i] = next /\ h[k] = g[k] /\ i # 0 /\ i - 1 = k
          BY <3>1
        <4> HIDE DEF h
        <4> QED BY <3>1, <4>1, Zenon DEF next
      <3>2. CASE i # k + 1
        <4>1. i \in 0..k /\ h[i] = g[i]
          BY <3>2
        <4>2. g[i] = IF i = 0 THEN side ELSE Wrote(g[i - 1], list[i])
          BY <2>1, <4>1, Zenon DEF SidesTo
        <4>3. i # 0 => h[i - 1] = g[i - 1]
          BY <4>1
        <4> HIDE DEF h
        <4> QED BY <4>1, <4>2, <4>3, Zenon
      <3> QED BY <3>1, <3>2
    <2>3. SidesTo(h, side, list, k + 1)
      <3>1. h = [i \in 0..k + 1 |-> h[i]]
        OBVIOUS
      <3> HIDE DEF h
      <3>2. h = [i \in 0..k + 1 |-> IF i = 0 THEN side ELSE Wrote(h[i - 1], list[i])]
        BY <2>2, <3>1
      <3> QED BY <3>2, Zenon DEF SidesTo
    <2> QED BY <2>3
  <1> HIDE DEF G
  <1>3. \A k \in 0..n : k \in G
    BY <1>1, <1>2, IntervalInduction
  <1>4. n \in 0..n
    OBVIOUS
  <1> QED BY <1>3, <1>4 DEF G

LEMMA SidesStep ==
  ASSUME NEW side, NEW list, Len(list) \in Nat
  PROVE  /\ Sides(side, list)[0] = side
         /\ \A i \in 1..Len(list) : Sides(side, list)[i] = Wrote(Sides(side, list)[i - 1], list[i])
  <1> DEFINE g == CHOOSE f : SidesTo(f, side, list, Len(list))
             n == Len(list)
  <1>1. SidesTo(g, side, list, n)
    <2>1. \E f : SidesTo(f, side, list, n)
      BY SidesExist
    <2> QED BY <2>1, Zenon
  <1>2. Sides(side, list) = g
    BY Zenon DEF Sides, SidesTo
  <1> HIDE DEF g, n
  <1>3. n \in Nat /\ 0 \in 0..n /\ \A i \in 1..n : i \in 0..n /\ i # 0
    BY DEF n
  <1>4. g[0] = side
    BY <1>1, <1>3, Zenon DEF SidesTo
  <1>5. \A i \in 1..n : g[i] = Wrote(g[i - 1], list[i])
    BY <1>1, <1>3, Zenon DEF SidesTo
  <1> QED BY <1>2, <1>4, <1>5 DEF n

-----------------------------------------------------------------------------
(* The entries of a side, and what writing one leaves. *)

RingOf(ring) == ring \in Seq(Seq(1..255)) /\ Len(ring) <= ServerHistory

SoundEntries(f, n) ==
  /\ n \in 0..MaxCount /\ DOMAIN f = 0..n - 1
  /\ \A i \in 0..n - 1 : FitsRecord([key |-> f[i].key, data |-> SomeData(f[i].data)])

SoundSide(side) == RingOf(side.history) /\ \E n \in 0..MaxCount : SoundEntries(side.entries, n)

HasPut(f, e, g) ==
  /\ DOMAIN g = DOMAIN f \cup {e.index}
  /\ g[e.index].key = e.key /\ g[e.index].data = e.data
  /\ \A i \in DOMAIN f : i # e.index => g[i] = f[i]

LEMMA PutIs ==
  ASSUME NEW f, NEW e
  PROVE  HasPut(f, e, Put(f, e))
  <1> DEFINE g == Put(f, e)
  <1> DEFINE D == DOMAIN f \cup {e.index}
             x == [key |-> e.key, data |-> e.data]
  <1>1. g = [i \in D |-> IF i = e.index THEN x ELSE f[i]]
    BY DEF Put
  <1>2. x.key = e.key /\ x.data = e.data
    OBVIOUS
  <1> HIDE DEF x, g
  <1>3. HasPut(f, e, g)
    BY <1>1, <1>2 DEF HasPut
  <1> QED BY <1>3 DEF g

\* Pushing a key: the ring keeps its size, and its elements are keys.
LEMMA PushedRing ==
  ASSUME NEW ring, RingOf(ring), NEW key \in Seq(1..255)
  PROVE  RingOf(Pushed(ring, key))
  <1> DEFINE K == Seq(1..255)
  <1>1. ring \in Seq(K) /\ Len(ring) <= ServerHistory /\ key \in K
    BY DEF RingOf
  <1> HIDE DEF K
  <1>2. Len(ring) \in Nat /\ ServerHistory \in Nat /\ ServerHistory > 0
    BY <1>1, LenProperties, HistorySizes
  <1>3. CASE Len(ring) < ServerHistory
    <2>1. Append(ring, key) \in Seq(K) /\ Len(Append(ring, key)) = Len(ring) + 1
      BY <1>1, AppendProperties
    <2>2. Pushed(ring, key) = Append(ring, key)
      BY <1>3 DEF Pushed
    <2> QED BY <2>1, <2>2, <1>2, <1>3 DEF RingOf, K
  <1>4. CASE ~(Len(ring) < ServerHistory)
    <2>1. ring # <<>>
      BY <1>1, <1>2, <1>4
    <2>2. Tail(ring) \in Seq(K) /\ Len(Tail(ring)) = Len(ring) - 1
      BY <1>1, <2>1
    <2>3. Append(Tail(ring), key) \in Seq(K) /\ Len(Append(Tail(ring), key)) = Len(Tail(ring)) + 1
      BY <1>1, <2>2, AppendProperties
    <2>4. Pushed(ring, key) = Append(Tail(ring), key)
      BY <1>4 DEF Pushed
    <2> QED BY <2>2, <2>3, <2>4, <1>1, <1>2 DEF RingOf, K
  <1> QED BY <1>3, <1>4

LEMMA NextIndex ==
  ASSUME NEW n \in Nat
  PROVE  Cardinality(0..n - 1) = n
  <1>1. Cardinality(0..n - 1) = IF 0 > n - 1 THEN 0 ELSE n - 1 - 0 + 1
    BY FS_Interval
  <1> QED BY <1>1

\* The key and the userdata of an entry that fits are those of a record that fits.
Turns(side, n, e, x) ==
  /\ x.index = e.index /\ x.data = e.data /\ x.key \in Seq(1..255)
  /\ e.index \in 0..MaxCount - 1 /\ (e.index \in 0..n - 1 \/ e.index = n)
  /\ e.key = NoValue => e.index \in 0..n - 1 /\ x.key = side.entries[e.index].key
  /\ e.key # NoValue => x.key = e.key
  /\ FitsRecord([key |-> x.key, data |-> SomeData(x.data)])

LEMMA ResolvedFits ==
  ASSUME NEW side, NEW n \in 0..MaxCount, SoundEntries(side.entries, n), NEW e, NEW last, NEW max, NEW fixed,
         FitsEntry(side.entries, e, last, max, fixed)
  PROVE  EntryFits(e, last, max, fixed) /\ Turns(side, n, e, Resolved(side, e))
  <1> DEFINE x == Resolved(side, e)
  <1> DEFINE key == IF e.key = NoValue THEN side.entries[e.index].key ELSE e.key
  <1>1. x.index = e.index /\ x.data = e.data /\ x.key = key
    BY DEF Resolved
  <1> HIDE DEF x
  <1>2. /\ e.index \in 0..MaxCount - 1 /\ (e.index = last + 1 \/ Fits(e.index, BitsForMaxEntries(max)))
        /\ e.index \in DOMAIN side.entries \/ (e.index = Cardinality(DOMAIN side.entries) /\ e.key # NoValue)
        /\ e.key = NoValue \/ FitsKey(e.key)
        /\ e.data = NoValue \/ FitsData(e.data, fixed)
    BY Zenon DEF FitsEntry
  <1>3. EntryFits(e, last, max, fixed)
    BY <1>2, Zenon DEF EntryFits
  <1>4. DOMAIN side.entries = 0..n - 1 /\ Cardinality(0..n - 1) = n
    BY NextIndex DEF SoundEntries
  <1>5. (e.index \in 0..n - 1 \/ e.index = n) /\ (e.key = NoValue => e.index \in 0..n - 1)
    BY <1>2, <1>4, Zenon
  <1>6. key \in Seq(1..255)
    <2>1. CASE e.key = NoValue
      <3> DEFINE y == side.entries[e.index].key
                 z == [key |-> y, data |-> SomeData(side.entries[e.index].data)]
      <3>1. FitsRecord(z)
        BY <2>1, <1>5 DEF SoundEntries
      <3>2. z.key = y
        OBVIOUS
      <3> HIDE DEF z, y
      <3>3. z.key \in Seq(1..255)
        BY <3>1 DEF FitsRecord
      <3> QED BY <2>1, <3>2, <3>3 DEF y
    <2>2. CASE e.key # NoValue
      BY <2>2, <1>2 DEF FitsKey
    <2> QED BY <2>1, <2>2
  <1>7. FitsRecord([key |-> x.key, data |-> SomeData(x.data)])
    <2> DEFINE d == SomeData(e.data)
    <2>1. d \in Seq(0..255) /\ Len(d) <= MaxCount
      <3>1. CASE e.data = NoValue
        <4>1. d = <<>>
          BY <3>1 DEF SomeData
        <4> HIDE DEF d
        <4> QED BY <4>1 DEF MaxCount
      <3>2. CASE e.data # NoValue
        <4>1. d = e.data /\ FitsData(e.data, fixed)
          BY <3>2, <1>2 DEF SomeData
        <4> HIDE DEF d
        <4>2. d \in Seq(0..255) /\ Len(d) < 2 ^ 14
          BY <4>1, Zenon DEF FitsData
        <4> DEFINE l == Len(d)
        <4>3. l \in Nat /\ l < 2 ^ 14
          BY <4>2, LenProperties
        <4> HIDE DEF l
        <4>4. Fits(l, 14)
          BY <4>3, SizeFits
        <4>5. l < Pow2(14)
          BY <4>4, FitsRange
        <4>6. l <= MaxCount
          BY <4>3, <4>5, PowerValues DEF MaxCount
        <4> QED BY <4>2, <4>6 DEF l
      <3> QED BY <3>1, <3>2
    <2>2. x.key \in Seq(1..255) /\ SomeData(x.data) = d
      BY <1>1, <1>6, Zenon
    <2> HIDE DEF d
    <2> DEFINE z == [key |-> x.key, data |-> SomeData(x.data)]
    <2>3. z.key = x.key /\ z.data = d
      BY <2>2
    <2> HIDE DEF z
    <2> QED BY <2>1, <2>2, <2>3, Zenon DEF FitsRecord, z
  <1> HIDE DEF key
  <1>8. Turns(side, n, e, x)
    BY <1>1, <1>2, <1>5, <1>6, <1>7, Zenon DEF key, Turns
  <1> QED BY <1>3, <1>8 DEF x

LEMMA WroteSound ==
  ASSUME NEW side, SoundSide(side), NEW e, NEW last, NEW max, NEW fixed,
         FitsEntry(side.entries, e, last, max, fixed)
  PROVE  SoundSide(Wrote(side, e))
  <1>1. PICK n \in 0..MaxCount : SoundEntries(side.entries, n)
    BY DEF SoundSide
  <1> DEFINE x == Resolved(side, e)
             f == side.entries
             g == Put(f, x)
             i0 == e.index
             new == Wrote(side, e)
  <1>0. new.entries = g /\ new.history = Pushed(side.history, x.key)
    BY DEF Wrote
  <1>11. Turns(side, n, e, x)
    BY <1>1, ResolvedFits
  <1>12. HasPut(f, x, g)
    BY PutIs
  <1> HIDE DEF new, x
  <1>2. /\ x.index = e.index /\ x.key \in Seq(1..255)
        /\ i0 \in 0..MaxCount - 1 /\ (i0 \in 0..n - 1 \/ i0 = n)
        /\ FitsRecord([key |-> x.key, data |-> SomeData(x.data)])
    BY <1>11, Zenon DEF Turns, i0
  <1>3. new.entries = g /\ new.history = Pushed(side.history, x.key)
    BY <1>0
  <1>4. RingOf(new.history)
    BY <1>2, <1>3, PushedRing DEF SoundSide
  <1>5. /\ DOMAIN g = DOMAIN f \cup {i0}
        /\ g[i0].key = x.key /\ g[i0].data = x.data
        /\ \A i \in DOMAIN f : i # i0 => g[i] = f[i]
    <2> HIDE DEF f, i0, g
    <2>1. /\ DOMAIN g = DOMAIN f \cup {x.index}
          /\ g[x.index].key = x.key /\ g[x.index].data = x.data
          /\ \A i \in DOMAIN f : i # x.index => g[i] = f[i]
      BY <1>12, Zenon DEF HasPut
    <2>2. x.index = i0
      BY <1>2 DEF i0
    <2> QED BY <2>1, <2>2
  <1> DEFINE m == IF i0 = n THEN n + 1 ELSE n
             Good(y) == FitsRecord([key |-> y.key, data |-> SomeData(y.data)])
  <1> HIDE DEF g, f
  <1>6. DOMAIN f = 0..n - 1 /\ \A i \in 0..n - 1 : Good(f[i])
    BY <1>1 DEF SoundEntries, f
  <1>7. Good(g[i0])
    BY <1>2, <1>5
  <1> HIDE DEF Good, i0
  <1>8. m \in 0..MaxCount
    <2>1. MaxCount \in Nat
      BY DEF MaxCount
    <2> QED BY <1>2, <2>1
  <1>9. DOMAIN g = 0..m - 1 /\ \A i \in 0..m - 1 : Good(g[i])
    <2> DEFINE N == n
    <2>1. N \in Nat /\ (i0 \in 0..N - 1 \/ i0 = N) /\ i0 \in Nat
      BY <1>2
    <2> HIDE DEF N
    <2>2. 0..m - 1 = (0..N - 1) \cup {i0}
      <3>1. CASE i0 = N
        BY <2>1, <3>1 DEF N
      <3>2. CASE i0 # N
        BY <2>1, <3>2 DEF N
      <3> QED BY <3>1, <3>2
    <2> QED BY <2>2, <1>5, <1>6, <1>7 DEF N
  <1>10. SoundEntries(g, m)
    BY <1>8, <1>9 DEF SoundEntries, Good
  <1> HIDE DEF m
  <1> QED BY <1>3, <1>4, <1>8, <1>10 DEF SoundSide, new

\* What a server that is sound writes with entries that fit.
Fitting(side, es, max, fixed) ==
  /\ SoundSide(side) /\ es \in Seq(Range(es)) /\ max \in Nat
  /\ \A i \in DOMAIN es :
       FitsEntry(Sides(side, es)[i - 1].entries, es[i], LastBefore(es, i), max, fixed)

Codes(side, es, max, fixed) ==
  [i \in DOMAIN es |-> EncodeEntry(Sides(side, es)[i - 1], es[i], LastBefore(es, i), max, fixed)]

LEMMA FittingLength ==
  ASSUME NEW side, NEW es, NEW max, NEW fixed, Fitting(side, es, max, fixed)
  PROVE  Len(es) \in Nat /\ DOMAIN es = 1..Len(es) /\ es \in Seq(Range(es))
  <1>1. es \in Seq(Range(es))
    BY Zenon DEF Fitting
  <1> QED BY <1>1, LenProperties

LEMMA SidesSound ==
  ASSUME NEW side, NEW es, NEW max, NEW fixed, Fitting(side, es, max, fixed)
  PROVE  \A i \in 0..Len(es) : SoundSide(Sides(side, es)[i])
  <1> DEFINE n == Len(es)
             s == Sides(side, es)
             G == {i \in 0..n : SoundSide(s[i])}
  <1>1. n \in Nat /\ DOMAIN es = 1..n
    BY FittingLength
  <1>2. s[0] = side /\ \A i \in 1..n : s[i] = Wrote(s[i - 1], es[i])
    BY <1>1, SidesStep
  <1>3. SoundSide(side) /\ \A i \in 1..n : FitsEntry(s[i - 1].entries, es[i], LastBefore(es, i), max, fixed)
    BY <1>1, Zenon DEF Fitting
  <1> HIDE DEF s, n
  <1>4. 0 \in G
    BY <1>1, <1>2, <1>3
  <1>5. ASSUME NEW i \in 0..n - 1, i \in G PROVE i + 1 \in G
    <2>1. i + 1 \in 1..n /\ (i + 1) - 1 = i /\ i + 1 \in 0..n
      BY <1>1
    <2>2. SoundSide(s[i]) /\ FitsEntry(s[i].entries, es[i + 1], LastBefore(es, i + 1), max, fixed)
      <3>1. FitsEntry(s[(i + 1) - 1].entries, es[i + 1], LastBefore(es, i + 1), max, fixed)
        BY <1>3, <2>1, Zenon
      <3> QED BY <1>5, <2>1, <3>1
    <2>3. s[i + 1] = Wrote(s[i], es[i + 1])
      <3>1. s[i + 1] = Wrote(s[(i + 1) - 1], es[i + 1])
        BY <1>2, <2>1, Zenon
      <3> QED BY <2>1, <3>1
    <2>4. SoundSide(s[i + 1])
      BY <2>2, <2>3, WroteSound
    <2> QED BY <2>1, <2>4
  <1> HIDE DEF G
  <1>6. \A i \in 0..n : i \in G
    BY <1>1, <1>4, <1>5, IntervalInduction
  <1> QED BY <1>6 DEF G, s, n

LEMMA SoundRing ==
  ASSUME NEW side, SoundSide(side)
  PROVE  Ring(side.history)
  <1> DEFINE K == Seq(1..255)
             h == side.history
  <1>1. h \in Seq(K) /\ Len(h) <= ServerHistory
    BY Zenon DEF SoundSide, RingOf
  <1> HIDE DEF K, h
  <1>2. Len(h) \in Nat /\ ServerHistory <= 32 /\ ServerHistory \in Nat
    BY <1>1, LenProperties, HistorySizes
  <1>3. Len(h) <= 32
    BY <1>1, <1>2
  <1> QED BY <1>1, <1>3, Zenon DEF Ring, K, h

LEMMA CodesBits ==
  ASSUME NEW side, NEW es, NEW max, NEW fixed, Fitting(side, es, max, fixed),
         NEW s, s = Codes(side, es, max, fixed), NEW n, n = Len(es)
  PROVE  /\ n \in Nat
         /\ \A i \in 1..n : s[i] \in BitStrings
         /\ FlatTo(s, n) = EncodeEntries(side, es, max, fixed)
         /\ FlatTo(s, n) \in BitStrings /\ FlatTo(s, 0) = <<>>
  <1> DEFINE a == Sides(side, es)
  <1>1. n \in Nat /\ DOMAIN es = 1..n
    BY FittingLength
  <1>2. \A i \in 0..n : SoundSide(a[i])
    BY SidesSound
  <1>3. \A i \in 1..n : s[i] = EncodeEntry(a[i - 1], es[i], LastBefore(es, i), max, fixed)
    BY <1>1, Zenon DEF Codes
  <1>4. \A i \in 1..n : FitsEntry(a[i - 1].entries, es[i], LastBefore(es, i), max, fixed)
    BY <1>1, Zenon DEF Fitting
  <1>5. s = [i \in 1..n |-> s[i]]
    BY <1>1 DEF Codes
  <1>6. FlattenSeq(s) = EncodeEntries(side, es, max, fixed)
    BY Zenon DEF EncodeEntries, Codes
  <1> HIDE DEF a
  <1>7. ASSUME NEW i \in 1..n PROVE s[i] \in BitStrings
    <2>1. i - 1 \in 0..n
      BY <1>1
    <2>2. SoundSide(a[i - 1])
      BY <1>2, <2>1
    <2>3. PICK m \in 0..MaxCount : SoundEntries(a[i - 1].entries, m)
      BY <2>2, Zenon DEF SoundSide
    <2>4. FitsEntry(a[i - 1].entries, es[i], LastBefore(es, i), max, fixed)
      BY <1>4
    <2>5. EntryFits(es[i], LastBefore(es, i), max, fixed)
      BY <2>3, <2>4, ResolvedFits
    <2>6. Ring(a[i - 1].history)
      BY <2>2, SoundRing
    <2>7. EncodeEntry(a[i - 1], es[i], LastBefore(es, i), max, fixed) \in BitStrings
      BY <2>5, <2>6, EntryBits
    <2> QED BY <1>3, <2>7
  <1>8. FlatTo(s, n) = FlattenSeq(s)
    BY <1>1, <1>5, FlatToAll
  <1>9. FlatTo(s, 0) = <<>> /\ \A k \in 0..n : FlatTo(s, k) \in BitStrings
    BY <1>1, <1>7, FlatToStep
  <1> QED BY <1>1, <1>6, <1>7, <1>8, <1>9

-----------------------------------------------------------------------------
(* Entries put one after the other. *)

Same(f, g) == DOMAIN f = DOMAIN g /\ \A i \in DOMAIN f : f[i].key = g[i].key /\ f[i].data = g[i].data

LEMMA SamePut ==
  ASSUME NEW f, NEW g, Same(f, g), NEW e, NEW x, HasPut(f, e, x), NEW y, HasPut(g, e, y)
  PROVE  Same(x, y)
  <1>1. DOMAIN f = DOMAIN g /\ \A i \in DOMAIN f : f[i].key = g[i].key /\ f[i].data = g[i].data
    BY Zenon DEF Same
  <1>2. /\ DOMAIN x = DOMAIN f \cup {e.index} /\ x[e.index].key = e.key /\ x[e.index].data = e.data
        /\ \A i \in DOMAIN f : i # e.index => x[i] = f[i]
    BY Zenon DEF HasPut
  <1>3. /\ DOMAIN y = DOMAIN g \cup {e.index} /\ y[e.index].key = e.key /\ y[e.index].data = e.data
        /\ \A i \in DOMAIN g : i # e.index => y[i] = g[i]
    BY Zenon DEF HasPut
  <1>4. DOMAIN x = DOMAIN y
    BY <1>1, <1>2, <1>3
  <1>5. ASSUME NEW i \in DOMAIN x PROVE x[i].key = y[i].key /\ x[i].data = y[i].data
    <2>1. CASE i = e.index
      BY <1>2, <1>3, <2>1
    <2>2. CASE i # e.index
      <3>1. i \in DOMAIN f /\ i \in DOMAIN g
        BY <1>1, <1>2, <2>2
      <3>2. x[i] = f[i] /\ y[i] = g[i]
        BY <1>2, <1>3, <2>2, <3>1
      <3> QED BY <1>1, <3>1, <3>2
    <2> QED BY <2>1, <2>2
  <1> QED BY <1>4, <1>5, Zenon DEF Same

\* The last places of an index in a list, of which there is one at most.
LastAt(list, i) ==
  {k \in DOMAIN list : list[k].index = i /\ \A l \in DOMAIN list : l > k => list[l].index # i}

PutAt(b, list, i) ==
  IF LastAt(list, i) = {} THEN b[i]
  ELSE LET e == list[CHOOSE k \in LastAt(list, i) : TRUE] IN [key |-> e.key, data |-> e.data]

LEMMA PutAllIs ==
  ASSUME NEW b, NEW list
  PROVE  /\ DOMAIN PutAll(b, list) = DOMAIN b \cup {list[k].index : k \in DOMAIN list}
         /\ \A i \in DOMAIN b \cup {list[k].index : k \in DOMAIN list} : PutAll(b, list)[i] = PutAt(b, list, i)
  <1> DEFINE D == DOMAIN b \cup {list[k].index : k \in DOMAIN list}
  <1>1. PutAll(b, list) = [i \in D |-> PutAt(b, list, i)]
    BY Zenon DEF PutAll, PutAt, LastAt
  <1> HIDE DEF D
  <1>2. DOMAIN PutAll(b, list) = D /\ \A i \in D : PutAll(b, list)[i] = PutAt(b, list, i)
    BY <1>1, Zenon
  <1> QED BY <1>2 DEF D

LEMMA PutAllNone ==
  ASSUME NEW b, NEW list, DOMAIN list = {}
  PROVE  Same(PutAll(b, list), b)
  <1> DEFINE f == PutAll(b, list)
  <1>1. {list[k].index : k \in DOMAIN list} = {}
    OBVIOUS
  <1>2. DOMAIN f = DOMAIN b /\ \A i \in DOMAIN b : f[i] = PutAt(b, list, i)
    BY <1>1, PutAllIs
  <1> HIDE DEF f
  <1>3. ASSUME NEW i \in DOMAIN b PROVE f[i] = b[i]
    <2>1. LastAt(list, i) = {}
      BY DEF LastAt
    <2> QED BY <1>2, <2>1, Zenon DEF PutAt
  <1>4. Same(f, b)
    BY <1>2, <1>3, Zenon DEF Same
  <1> QED BY <1>4 DEF f

LEMMA PutAllMore ==
  ASSUME NEW b, NEW S, NEW l \in Seq(S), NEW k \in 0..Len(l) - 1
  PROVE  HasPut(PutAll(b, SubSeq(l, 1, k)), l[k + 1], PutAll(b, SubSeq(l, 1, k + 1)))
  <1> DEFINE a == SubSeq(l, 1, k)
             c == SubSeq(l, 1, k + 1)
             e == l[k + 1]
             f == PutAll(b, a)
             g == PutAll(b, c)
  <1>1. /\ DOMAIN a = 1..k /\ DOMAIN c = 1..k + 1 /\ k \in Nat
        /\ \A j \in 1..k : a[j] = l[j] /\ c[j] = l[j]
        /\ c[k + 1] = e
    OBVIOUS
  <1> DEFINE A == {a[j].index : j \in DOMAIN a}
             C == {c[j].index : j \in DOMAIN c}
  <1>2. DOMAIN f = DOMAIN b \cup A /\ \A i \in DOMAIN b \cup A : f[i] = PutAt(b, a, i)
    BY PutAllIs
  <1>3. DOMAIN g = DOMAIN b \cup C /\ \A i \in DOMAIN b \cup C : g[i] = PutAt(b, c, i)
    BY PutAllIs
  <1> HIDE DEF f, g, a, c, e
  <1>4. C = A \cup {e.index}
    <2>1. 1..k + 1 = (1..k) \cup {k + 1}
      BY <1>1
    <2> QED BY <2>1, <1>1
  <1>5. DOMAIN g = DOMAIN f \cup {e.index}
    BY <1>2, <1>3, <1>4
  <1>6. g[e.index].key = e.key /\ g[e.index].data = e.data
    <2>1. LastAt(c, e.index) = {k + 1}
      <3>1. ASSUME NEW q \in 1..k + 1, c[q].index = e.index, \A p \in 1..k + 1 : p > q => c[p].index # e.index
            PROVE  q = k + 1
        BY <3>1, <1>1
      <3>2. \A p \in 1..k + 1 : ~(p > k + 1)
        BY <1>1
      <3>3. k + 1 \in 1..k + 1
        BY <1>1
      <3> QED BY <1>1, <3>1, <3>2, <3>3 DEF LastAt
    <2>2. (CHOOSE q \in LastAt(c, e.index) : TRUE) = k + 1
      BY <2>1
    <2>3. PutAt(b, c, e.index) = [key |-> e.key, data |-> e.data]
      <3>1. LastAt(c, e.index) # {}
        BY <2>1
      <3> QED BY <2>2, <3>1, <1>1, Zenon DEF PutAt
    <2>4. e.index \in C
      BY <1>4
    <2>5. g[e.index] = [key |-> e.key, data |-> e.data]
      BY <1>3, <2>3, <2>4
    <2> QED BY <2>5
  <1>7. ASSUME NEW i \in DOMAIN f, i # e.index PROVE g[i] = f[i]
    <2>1. LastAt(c, i) = LastAt(a, i)
      <3>1. ASSUME NEW q \in LastAt(c, i) PROVE q \in LastAt(a, i)
        <4>1. q \in 1..k + 1 /\ c[q].index = i /\ \A p \in 1..k + 1 : p > q => c[p].index # i
          BY <1>1 DEF LastAt
        <4>2. q # k + 1
          BY <4>1, <1>1, <1>7
        <4>3. q \in 1..k
          BY <4>1, <4>2, <1>1
        <4>4. \A p \in 1..k : p \in 1..k + 1
          BY <1>1
        <4> QED BY <4>1, <4>3, <4>4, <1>1 DEF LastAt
      <3>2. ASSUME NEW q \in LastAt(a, i) PROVE q \in LastAt(c, i)
        <4>1. q \in 1..k /\ a[q].index = i /\ \A p \in 1..k : p > q => a[p].index # i
          BY <1>1 DEF LastAt
        <4>2. q \in 1..k + 1
          BY <4>1, <1>1
        <4>3. ASSUME NEW p \in 1..k + 1, p > q PROVE c[p].index # i
          <5>1. CASE p = k + 1
            BY <5>1, <1>1, <1>7
          <5>2. CASE p # k + 1
            <6>1. p \in 1..k
              BY <5>2, <1>1
            <6> QED BY <6>1, <4>1, <4>3, <1>1
          <5> QED BY <5>1, <5>2
        <4> QED BY <4>1, <4>2, <4>3, <1>1 DEF LastAt
      <3> QED BY <3>1, <3>2
    <2>2. PutAt(b, c, i) = PutAt(b, a, i)
      <3>1. CASE LastAt(a, i) = {}
        BY <2>1, <3>1, Zenon DEF PutAt
      <3>2. CASE LastAt(a, i) # {}
        <4> DEFINE q == CHOOSE q \in LastAt(a, i) : TRUE
        <4>1. q \in LastAt(a, i)
          BY <3>2
        <4>2. q = CHOOSE p \in LastAt(c, i) : TRUE
          BY <2>1
        <4>3. PutAt(b, a, i) = [key |-> a[q].key, data |-> a[q].data]
          BY <3>2, Zenon DEF PutAt
        <4>4. PutAt(b, c, i) = [key |-> c[q].key, data |-> c[q].data]
          <5> HIDE DEF q
          <5>1. LastAt(c, i) # {}
            BY <2>1, <3>2
          <5> QED BY <4>2, <5>1, Zenon DEF PutAt
        <4> HIDE DEF q
        <4>5. a[q] = c[q]
          BY <4>1, <1>1 DEF LastAt
        <4> QED BY <4>3, <4>4, <4>5
      <3> QED BY <3>1, <3>2
    <2>3. i \in DOMAIN b \cup A /\ i \in DOMAIN b \cup C
      BY <1>2, <1>4
    <2> QED BY <2>2, <2>3, <1>2, <1>3
  <1>8. HasPut(f, e, g)
    BY <1>5, <1>6, <1>7, Zenon DEF HasPut
  <1> QED BY <1>8 DEF f, g, e, a, c

\* The entries the server resolved, as a list, and what they leave of its side.
ResolvedAll(side, es) == [i \in DOMAIN es |-> Resolved(Sides(side, es)[i - 1], es[i])]

LEMMA ResolvedList ==
  ASSUME NEW side, NEW es, Len(es) \in Nat, DOMAIN es = 1..Len(es), NEW l, l = ResolvedAll(side, es)
  PROVE  /\ l \in Seq(Range(l)) /\ Len(l) = Len(es)
         /\ \A i \in 1..Len(es) : l[i] = Resolved(Sides(side, es)[i - 1], es[i])
  <1> DEFINE n == Len(es)
             F(i) == Resolved(Sides(side, es)[i - 1], es[i])
  <1>1. l = [i \in 1..n |-> F(i)] /\ n \in Nat
    BY Zenon DEF ResolvedAll
  <1> HIDE DEF F, n
  <1>2. \A i \in 1..n : l[i] = F(i)
    BY <1>1
  <1>3. l \in [1..n -> Range(l)]
    BY <1>1 DEF Range
  <1>4. l \in Seq(Range(l)) /\ Len(l) = n
    BY <1>1, <1>3
  <1> QED BY <1>2, <1>4 DEF F, n

LEMMA PutAllSides ==
  ASSUME NEW side, NEW es, Len(es) \in Nat, DOMAIN es = 1..Len(es), NEW l, l = ResolvedAll(side, es),
         NEW k \in 0..Len(es)
  PROVE  Same(PutAll(side.entries, SubSeq(l, 1, k)), Sides(side, es)[k].entries)
  <1> DEFINE n == Len(es)
             s == Sides(side, es)
             b == side.entries
             G == {i \in 0..n : Same(PutAll(b, SubSeq(l, 1, i)), s[i].entries)}
  <1>1. l \in Seq(Range(l)) /\ Len(l) = n /\ \A i \in 1..n : l[i] = Resolved(s[i - 1], es[i])
    BY ResolvedList
  <1>2. s[0] = side /\ \A i \in 1..n : s[i] = Wrote(s[i - 1], es[i])
    BY SidesStep
  <1>3. n \in Nat
    OBVIOUS
  <1> HIDE DEF n, s
  <1>4. 0 \in G
    <2> DEFINE z == SubSeq(l, 1, 0)
    <2>1. DOMAIN z = {}
      BY <1>1
    <2> HIDE DEF z
    <2>2. Same(PutAll(b, z), b)
      BY <2>1, PutAllNone
    <2>3. s[0].entries = b /\ 0 \in 0..n
      BY <1>2, <1>3
    <2> QED BY <2>2, <2>3 DEF z
  <1>5. ASSUME NEW i \in 0..n - 1, i \in G PROVE i + 1 \in G
    <2>1. i + 1 \in 1..n /\ (i + 1) - 1 = i /\ i + 1 \in 0..n /\ i \in 0..Len(l) - 1
      BY <1>1, <1>3
    <2> DEFINE f == PutAll(b, SubSeq(l, 1, i))
               g == PutAll(b, SubSeq(l, 1, i + 1))
               x == Resolved(s[i], es[i + 1])
    <2>2. l[i + 1] = x /\ s[i + 1] = Wrote(s[i], es[i + 1])
      <3>1. l[i + 1] = Resolved(s[(i + 1) - 1], es[i + 1]) /\ s[i + 1] = Wrote(s[(i + 1) - 1], es[i + 1])
        BY <1>1, <1>2, <2>1, Zenon
      <3> QED BY <2>1, <3>1
    <2>3. HasPut(f, l[i + 1], g)
      BY <1>1, <2>1, PutAllMore
    <2>4. s[i + 1].entries = Put(s[i].entries, x)
      BY <2>2 DEF Wrote
    <2>5. Same(f, s[i].entries)
      BY <1>5
    <2> HIDE DEF f, g, x
    <2>6. HasPut(s[i].entries, x, s[i + 1].entries)
      BY <2>4, PutIs
    <2>7. Same(g, s[i + 1].entries)
      BY <2>2, <2>3, <2>5, <2>6, SamePut
    <2> QED BY <2>1, <2>7 DEF g
  <1> HIDE DEF G
  <1>6. \A i \in 0..n : i \in G
    BY <1>3, <1>4, <1>5, IntervalInduction
  <1> QED BY <1>6 DEF G, n, s

-----------------------------------------------------------------------------
(* Where a table stands in a message. *)

\* The table has what the server has, up to its capacity.
ShowsEntries(tab, f, max) ==
  \A i \in DOMAIN f : i < max =>
    i \in DOMAIN tab /\ tab[i].key = f[i].key /\ SomeData(tab[i].data) = SomeData(f[i].data)

LEMMA ShowsSame ==
  ASSUME NEW tab, NEW f, NEW g, NEW max, ShowsEntries(tab, f, max), Same(g, f)
  PROVE  ShowsEntries(tab, g, max)
  <1>1. DOMAIN g = DOMAIN f /\ \A i \in DOMAIN g : g[i].key = f[i].key /\ g[i].data = f[i].data
    BY Zenon DEF Same
  <1>2. ASSUME NEW i \in DOMAIN g, i < max
        PROVE  i \in DOMAIN tab /\ tab[i].key = g[i].key /\ SomeData(tab[i].data) = SomeData(g[i].data)
    <2>1. i \in DOMAIN f /\ g[i].key = f[i].key /\ g[i].data = f[i].data
      BY <1>1
    <2>2. i \in DOMAIN tab /\ tab[i].key = f[i].key /\ SomeData(tab[i].data) = SomeData(f[i].data)
      BY <1>2, <2>1, Zenon DEF ShowsEntries
    <2> QED BY <2>1, <2>2, Zenon
  <1> QED BY <1>2, Zenon DEF ShowsEntries

LEMMA ShowsPut ==
  ASSUME NEW tab, NEW f, NEW max, ShowsEntries(tab, f, max), NEW e, NEW t, HasPut(tab, e, t),
         NEW x, x.index = e.index, x.key = e.key, x.data = e.data, NEW g, HasPut(f, x, g)
  PROVE  ShowsEntries(t, g, max)
  <1>1. /\ DOMAIN t = DOMAIN tab \cup {e.index} /\ t[e.index].key = e.key /\ t[e.index].data = e.data
        /\ \A i \in DOMAIN tab : i # e.index => t[i] = tab[i]
    BY Zenon DEF HasPut
  <1>2. /\ DOMAIN g = DOMAIN f \cup {e.index} /\ g[e.index].key = e.key /\ g[e.index].data = e.data
        /\ \A i \in DOMAIN f : i # e.index => g[i] = f[i]
    <2>1. /\ DOMAIN g = DOMAIN f \cup {x.index} /\ g[x.index].key = x.key /\ g[x.index].data = x.data
          /\ \A i \in DOMAIN f : i # x.index => g[i] = f[i]
      BY Zenon DEF HasPut
    <2> QED BY <2>1
  <1>3. ASSUME NEW i \in DOMAIN g, i < max
        PROVE  i \in DOMAIN t /\ t[i].key = g[i].key /\ SomeData(t[i].data) = SomeData(g[i].data)
    <2>1. CASE i = e.index
      <3>1. i \in DOMAIN t /\ t[i].key = g[i].key /\ t[i].data = g[i].data
        BY <2>1, <1>1, <1>2
      <3> QED BY <3>1
    <2>2. CASE i # e.index
      <3>1. i \in DOMAIN f
        BY <1>2, <2>2
      <3>2. i \in DOMAIN tab /\ tab[i].key = f[i].key /\ SomeData(tab[i].data) = SomeData(f[i].data)
        BY <1>3, <3>1, Zenon DEF ShowsEntries
      <3>3. t[i] = tab[i] /\ g[i] = f[i] /\ i \in DOMAIN t
        BY <1>1, <1>2, <2>2, <3>1, <3>2
      <3> QED BY <3>2, <3>3, Zenon
    <2> QED BY <2>1, <2>2
  <1> QED BY <1>3, Zenon DEF ShowsEntries

\* The bits of a message, and of its first k entries: a zero bit comes first.
BitsOf(side, es, max, fixed, k) == <<0>> \o FlatTo(Codes(side, es, max, fixed), k)

IsNext(side, es, max, fixed, k, code) ==
  /\ code \in BitStrings
  /\ BitsOf(side, es, max, fixed, k + 1) = BitsOf(side, es, max, fixed, k) \o code
  /\ Starts(BitsOf(side, es, max, fixed, k) \o code, BitsOf(side, es, max, fixed, Len(es)))

LEMMA BitsOfNext ==
  ASSUME NEW side, NEW es, NEW max, NEW fixed, Fitting(side, es, max, fixed),
         NEW k \in 0..Len(es) - 1
  PROVE  IsNext(side, es, max, fixed, k, Codes(side, es, max, fixed)[k + 1])
  <1> DEFINE s == Codes(side, es, max, fixed)
             n == Len(es)
             z == <<0>>
             code == s[k + 1]
  <1>1. n \in Nat /\ \A i \in 1..n : s[i] \in BitStrings
    BY CodesBits
  <1> HIDE DEF s, n
  <1>2. /\ FlatTo(s, k + 1) = FlatTo(s, k) \o s[k + 1]
        /\ FlatTo(s, k) \in BitStrings /\ s[k + 1] \in BitStrings /\ FlatTo(s, n) \in BitStrings
        /\ Starts(FlatTo(s, k) \o s[k + 1], FlatTo(s, n))
    BY <1>1, NextStarts DEF n
  <1>3. z \in BitStrings
    BY SingleBit
  <1>4. code = s[k + 1]
    OBVIOUS
  <1> HIDE DEF code
  <1> DEFINE a == FlatTo(s, k)
             w == FlatTo(s, n)
  <1>5. a \in BitStrings /\ w \in BitStrings /\ code \in BitStrings /\ FlatTo(s, k + 1) = a \o code /\ Starts(a \o code, w)
    BY <1>2, <1>4
  <1> HIDE DEF a, w, z
  <1>6. (z \o a) \o code = z \o (a \o code)
    BY <1>3, <1>5, JoinAssoc
  <1>7. a \o code \in BitStrings
    BY <1>5, Joined
  <1>8. Starts(z \o (a \o code), z \o w)
    BY <1>3, <1>5, <1>7, StartsBehind
  <1>9. BitsOf(side, es, max, fixed, k) = z \o a
    BY Zenon DEF BitsOf, z, a, s
  <1>10. BitsOf(side, es, max, fixed, k + 1) = z \o (a \o code)
    BY <1>5, Zenon DEF BitsOf, z, s
  <1>11. BitsOf(side, es, max, fixed, Len(es)) = z \o w
    BY Zenon DEF BitsOf, z, w, s, n
  <1>12. IsNext(side, es, max, fixed, k, code)
    BY <1>5, <1>6, <1>8, <1>9, <1>10, <1>11 DEF IsNext
  <1> QED BY <1>4, <1>12 DEF s

\* A message of `es` behind which `side` was, h.read entries of which are in the table.
InStep(side, es, max, fixed, tab, ring, rd, last, srv, h) ==
  /\ Fitting(side, es, max, fixed)
  /\ h.before = side.entries /\ h.entries = ResolvedAll(side, es) /\ h.read \in 0..Len(es)
  /\ srv = Sides(side, es)[Len(es)]
  /\ ring = Sides(side, es)[h.read].history
  /\ ShowsEntries(tab, Sides(side, es)[h.read].entries, max)
  /\ h.read < Len(es) /\ ~rd.threw =>
       /\ last = LastBefore(es, h.read + 1)
       /\ \E start : At(start, BitsOf(side, es, max, fixed, Len(es)), rd, BitsOf(side, es, max, fixed, h.read))

\* The bit before the entries: they are not coded with dictionaries.
NoDictionary == <<0>>

\* The handlers up to the loop.
LEMMA WritesInStep ==
  ASSUME NEW side, NEW es, NEW max, NEW fixed, Fitting(side, es, max, fixed),
         NEW tab, ShowsEntries(tab, side.entries, max),
         NEW cut \in Nat, NEW bits, bits = Whole(NoDictionary \o EncodeEntries(side, es, max, fixed), cut),
         NEW rd, rd = Throwing(Reader(<<>>)) \/ (bits # <<>> /\ rd = ReadBit(Reader(bits))),
         NEW h, h.before = side.entries, h.entries = ResolvedAll(side, es), h.read = 0,
         NEW srv, srv = Sides(side, es)[Len(es)]
  PROVE  InStep(side, es, max, fixed, tab, side.history, rd, -1, srv, h)
  <1> DEFINE n == Len(es)
             s == Codes(side, es, max, fixed)
             w == <<0>> \o FlatTo(s, n)
  <1>1. /\ n \in Nat /\ FlatTo(s, n) = EncodeEntries(side, es, max, fixed)
        /\ FlatTo(s, n) \in BitStrings /\ FlatTo(s, 0) = <<>>
    BY CodesBits
  <1>2. Sides(side, es)[0] = side
    BY <1>1, SidesStep
  <1>3. LastBefore(es, 1) = -1
    BY DEF LastBefore
  <1>4. ASSUME ~rd.threw
        PROVE  \E start : At(start, w, rd, <<0>> \o FlatTo(s, 0))
    <2>1. bits # <<>> /\ rd = ReadBit(Reader(bits))
      BY <1>4 DEF Throwing
    <2> DEFINE z == <<>>
               a == <<0>>
               b == FlatTo(s, n)
    <2>2. a \in BitStrings /\ b \in BitStrings
      BY <1>1, SingleBit
    <2>3. bits = Padded(w, cut)
      BY <1>1, Zenon DEF Whole, Padded, ByteCount, NoDictionary
    <2> HIDE DEF a, b
    <2>4. w = a \o b
      BY DEF a, b
    <2> HIDE DEF w
    <2>5. w \in BitStrings /\ Starts(z \o a, w) /\ z \o a = a
      BY <2>2, <2>4, TwoParts
    <2> DEFINE start == Reader(bits)
    <2>6. At(start, w, start, z)
      BY <2>1, <2>3, <2>5, AtStart
    <2> HIDE DEF z, start
    <2>7. rd = ReadBit(start) /\ Starts(z \o <<0>>, w)
      BY <2>1, <2>5 DEF start, a
    <2>8. At(start, w, rd, z \o <<0>>)
      BY <2>6, <2>7, BitNext
    <2>9. z \o <<0>> = a /\ a \o <<>> = a
      <3>1. a \o <<>> = a
        BY <2>2, JoinEmpty
      <3> QED BY <2>5, <3>1 DEF a
    <2>10. <<0>> \o FlatTo(s, 0) = a
      BY <1>1, <2>9 DEF a
    <2>11. At(start, w, rd, <<0>> \o FlatTo(s, 0))
      BY <2>8, <2>9, <2>10
    <2> QED BY <2>11
  <1>5. w = BitsOf(side, es, max, fixed, Len(es)) /\ <<0>> \o FlatTo(s, 0) = BitsOf(side, es, max, fixed, 0)
    BY Zenon DEF BitsOf
  <1>6. h.read \in 0..Len(es) /\ h.read + 1 = 1
    BY <1>1
  <1>7. ~rd.threw => \E start : At(start, BitsOf(side, es, max, fixed, Len(es)), rd, BitsOf(side, es, max, fixed, h.read))
    <2> HIDE DEF w, s
    <2> QED BY <1>4, <1>5, Zenon
  <1> QED BY <1>2, <1>3, <1>6, <1>7, Zenon DEF InStep

\* A turn of the loop: it throws, or the table gets the entry, and the ring its key.
LEMMA ThrowsInStep ==
  ASSUME NEW side, NEW es, NEW max, NEW fixed, NEW tab, NEW ring, NEW rd, NEW last, NEW srv, NEW h,
         InStep(side, es, max, fixed, tab, ring, rd, last, srv, h), NEW out, out.threw
  PROVE  InStep(side, es, max, fixed, tab, ring, out, last, srv, h)
  BY Zenon DEF InStep

\* Neither ring has dropped a key, or both drop the same.
AlikeAt(ring) ==
  \/ ServerHistory = HistorySize
  \/ Len(ring) < ServerHistory /\ Len(ring) <= HistorySize

LEMMA KeyedRing ==
  ASSUME NEW ring, NEW key, Len(ring) \in Nat,
         ServerHistory = HistorySize \/ (Len(ring) < ServerHistory /\ Len(ring) < HistorySize)
  PROVE  Remember(ring, key) = Pushed(ring, key)
  BY DEF Remember, Pushed

\* A ring that takes a key gets no shorter, and longer as long as there is room.
LEMMA PushedLonger ==
  ASSUME NEW ring, RingOf(ring), NEW key
  PROVE  /\ Len(ring) \in Nat /\ Len(Pushed(ring, key)) \in Nat
         /\ Len(Pushed(ring, key)) = IF Len(ring) < ServerHistory THEN Len(ring) + 1 ELSE Len(ring)
  <1> DEFINE K == Seq(1..255)
             E == K \cup {key}
  <1>1. ring \in Seq(K)
    BY DEF RingOf
  <1> HIDE DEF K
  <1>2. ring \in Seq(E) /\ key \in E
    BY <1>1
  <1> HIDE DEF E
  <1>3. Len(ring) \in Nat /\ ServerHistory \in Nat /\ ServerHistory > 0
    BY <1>2, LenProperties, HistorySizes
  <1>4. CASE Len(ring) < ServerHistory
    <2>1. Len(Append(ring, key)) = Len(ring) + 1
      BY <1>2, AppendProperties
    <2> QED BY <1>3, <1>4, <2>1 DEF Pushed
  <1>5. CASE ~(Len(ring) < ServerHistory)
    <2>1. ring # <<>>
      BY <1>3, <1>5
    <2>2. Tail(ring) \in Seq(E) /\ Len(Tail(ring)) = Len(ring) - 1
      BY <1>2, <2>1
    <2>3. Len(Append(Tail(ring), key)) = Len(Tail(ring)) + 1
      BY <1>2, <2>2, AppendProperties
    <2> QED BY <1>3, <1>5, <2>2, <2>3 DEF Pushed
  <1> QED BY <1>4, <1>5

\* So the server's ring only grows over a message.
LEMMA SidesLonger ==
  ASSUME NEW side, NEW es, NEW max, NEW fixed, Fitting(side, es, max, fixed),
         NEW a, a = Sides(side, es), NEW k \in 0..Len(es)
  PROVE  /\ Len(a[k].history) \in Nat /\ Len(a[Len(es)].history) \in Nat
         /\ Len(a[k].history) <= Len(a[Len(es)].history)
  <1> DEFINE n == Len(es)
             L(i) == Len(a[i].history)
             G == {i \in 0..n : i >= k => L(k) <= L(i)}
  <1>1. n \in Nat
    BY FittingLength
  <1>2. ASSUME NEW i \in 0..n PROVE L(i) \in Nat /\ RingOf(a[i].history)
    <2>1. SoundSide(a[i])
      BY SidesSound
    <2>2. RingOf(a[i].history)
      BY <2>1, Zenon DEF SoundSide
    <2> QED BY <2>2, PushedLonger
  <1>3. ASSUME NEW i \in 0..n - 1 PROVE L(i) <= L(i + 1)
    <2>1. i \in 0..n /\ i + 1 \in 1..n /\ (i + 1) - 1 = i
      BY <1>1
    <2>2. a[i + 1] = Wrote(a[i], es[i + 1])
      <3>1. a[i + 1] = Wrote(a[(i + 1) - 1], es[i + 1])
        BY <1>1, <2>1, SidesStep
      <3> QED BY <2>1, <3>1
    <2> DEFINE h == a[i].history
               key == Resolved(a[i], es[i + 1]).key
    <2>3. a[i + 1].history = Pushed(h, key)
      BY <2>2 DEF Wrote
    <2>4. RingOf(h)
      BY <1>2, <2>1
    <2> HIDE DEF h, key
    <2>5. Len(h) \in Nat /\ Len(Pushed(h, key)) >= Len(h)
      BY <2>4, PushedLonger
    <2> QED BY <2>3, <2>5 DEF h
  <1> HIDE DEF L, n
  <1>4. 0 \in G
    BY <1>1, <1>2 DEF n
  <1>5. ASSUME NEW i \in 0..n - 1, i \in G PROVE i + 1 \in G
    <2>1. i \in 0..n /\ i + 1 \in 0..n /\ k \in 0..n
      BY <1>1 DEF n
    <2>2. L(i) \in Nat /\ L(i + 1) \in Nat /\ L(k) \in Nat /\ L(i) <= L(i + 1)
      BY <1>2, <1>3, <2>1
    <2>3. i + 1 >= k => L(k) <= L(i + 1)
      BY <1>5, <2>1, <2>2
    <2> QED BY <2>1, <2>3
  <1>6. n \in G
    <2>1. n \in 0..n
      BY <1>1
    <2> HIDE DEF G
    <2> QED BY <1>1, <1>4, <1>5, <2>1, IntervalInduction
  <1>7. k \in 0..n /\ n \in 0..n
    BY <1>1 DEF n
  <1>8. L(k) \in Nat /\ L(n) \in Nat /\ L(k) <= L(n)
    BY <1>2, <1>6, <1>7
  <1> QED BY <1>8 DEF L, n

\* Of a ring that a key turns into another: the parser's does the same.
DropsAlike(ring, next) == \A name : next = Pushed(ring, name) => Remember(ring, name) = Pushed(ring, name)

\* Where the rings end up alike, they were alike at each entry, and drop alike.
LEMMA SidesAlike ==
  ASSUME NEW side, NEW es, NEW max, NEW fixed, Fitting(side, es, max, fixed),
         NEW a, a = Sides(side, es), AlikeAt(a[Len(es)].history), NEW k \in 0..Len(es) - 1
  PROVE  DropsAlike(a[k].history, a[k + 1].history)
  <1> SUFFICES ASSUME NEW name, a[k + 1].history = Pushed(a[k].history, name)
               PROVE  Remember(a[k].history, name) = Pushed(a[k].history, name)
    BY Zenon DEF DropsAlike
  <1> DEFINE h == a[k].history
             t == a[k + 1].history
             w == a[Len(es)].history
  <1>1. Len(es) \in Nat
    BY FittingLength
  <1>2. k \in 0..Len(es) /\ k + 1 \in 0..Len(es)
    BY <1>1
  <1>3. RingOf(h)
    <2>1. SoundSide(a[k])
      BY <1>2, SidesSound
    <2> QED BY <2>1, Zenon DEF SoundSide, h
  <1>4. Len(t) \in Nat /\ Len(w) \in Nat /\ Len(t) <= Len(w)
    BY <1>2, SidesLonger
  <1>5. t = Pushed(h, name) /\ AlikeAt(w)
    OBVIOUS
  <1> HIDE DEF h, t, w
  <1>6. Len(h) \in Nat /\ Len(t) = IF Len(h) < ServerHistory THEN Len(h) + 1 ELSE Len(h)
    BY <1>3, <1>5, PushedLonger
  <1>7. ServerHistory \in Nat /\ HistorySize \in Nat
    BY HistorySizes
  <1>8. ServerHistory = HistorySize \/ (Len(h) < ServerHistory /\ Len(h) < HistorySize)
    BY <1>4, <1>5, <1>6, <1>7 DEF AlikeAt
  <1>9. Remember(h, name) = Pushed(h, name)
    BY <1>6, <1>8, KeyedRing
  <1> QED BY <1>9 DEF h

LEMMA EntryTaken ==
  ASSUME NEW side, NEW es, NEW max, NEW fixed, NEW tab, NEW ring, NEW rd, NEW last, NEW srv, NEW h,
         InStep(side, es, max, fixed, tab, ring, rd, last, srv, h), h.read < Len(es), ~rd.threw,
         NEW place, place = ReadEntryIndex(rd, last, max), NEW key, key = ReadKey(place, ring),
         NEW data, data = ReadUserData(key, fixed), NEW k, k = h.read, NEW e, e = es[k + 1]
  PROVE  /\ ~data.threw => place.value = e.index /\ key.value = e.key /\ data.value = e.data
         /\ \E start : At(start, BitsOf(side, es, max, fixed, Len(es)), data, BitsOf(side, es, max, fixed, k + 1))
  <1> DEFINE n == Len(es)
             a == Sides(side, es)
             b == LastBefore(es, k + 1)
             code == EncodeEntry(a[k], e, b, max, fixed)
             w == BitsOf(side, es, max, fixed, Len(es))
             d == BitsOf(side, es, max, fixed, k)
  <1>1. /\ Fitting(side, es, max, fixed) /\ k \in 0..n /\ ring = a[k].history
        /\ last = b /\ \E start : At(start, w, rd, d)
    BY Zenon DEF InStep
  <1>2. n \in Nat /\ DOMAIN es = 1..n
    BY <1>1, FittingLength
  <1>3. k \in 0..n - 1 /\ k + 1 \in 1..n /\ (k + 1) - 1 = k
    BY <1>1, <1>2
  <1>4. SoundSide(a[k])
    BY <1>1, SidesSound
  <1>5. FitsEntry(a[k].entries, e, b, max, fixed)
    <2>1. FitsEntry(a[(k + 1) - 1].entries, e, b, max, fixed)
      BY <1>1, <1>2, <1>3, Zenon DEF Fitting
    <2> QED BY <1>3, <2>1
  <1>6. Codes(side, es, max, fixed)[k + 1] = code
    <2>1. Codes(side, es, max, fixed)[k + 1] = EncodeEntry(a[(k + 1) - 1], e, b, max, fixed)
      BY <1>2, <1>3, Zenon DEF Codes
    <2> QED BY <1>3, <2>1
  <1> HIDE DEF a, b, code, n
  <1>7. EntryFits(e, b, max, fixed) /\ Ring(a[k].history)
    <2>1. PICK m \in 0..MaxCount : SoundEntries(a[k].entries, m)
      BY <1>4, Zenon DEF SoundSide
    <2>2. Ring(a[k].history)
      BY <1>4, SoundRing
    <2> QED BY <1>5, <2>1, <2>2, ResolvedFits
  <1>8. /\ code \in BitStrings
        /\ BitsOf(side, es, max, fixed, k + 1) = d \o code
        /\ Starts(d \o code, w)
    <2>1. k \in 0..Len(es) - 1
      BY <1>3 DEF n
    <2>2. IsNext(side, es, max, fixed, k, Codes(side, es, max, fixed)[k + 1])
      BY <1>1, <2>1, BitsOfNext
    <2> QED BY <1>6, <2>2, Zenon DEF IsNext
  <1> HIDE DEF d, w
  <1>9. PICK start : At(start, w, rd, d)
    BY <1>1
  <1>10. Carries(rd, code) /\ IsReader(rd)
    BY <1>8, <1>9, AtNext
  <1>11. /\ Reads(rd, data, code, e.data)
         /\ ~data.threw => place.value = e.index /\ key.value = e.key /\ data.value = e.data
    <2> DEFINE q == a[k]
    <2>1. ring = q.history /\ Ring(q.history) /\ code = EncodeEntry(q, e, b, max, fixed) /\ last = b
      BY <1>1, <1>7 DEF code
    <2>2. place = ReadEntryIndex(rd, b, max) /\ key = ReadKey(place, q.history)
      BY <2>1
    <2> HIDE DEF q
    <2> QED BY <1>7, <1>10, <2>1, <2>2, EntryReads
  <1>12. At(start, w, data, d \o code)
    BY <1>8, <1>9, <1>11, AtThen
  <1> QED BY <1>8, <1>11, <1>12 DEF w

LEMMA ReadInStep ==
  ASSUME NEW side, NEW es, NEW max, NEW fixed, NEW tab, NEW ring, NEW rd, NEW last, NEW srv, NEW h,
         InStep(side, es, max, fixed, tab, ring, rd, last, srv, h), h.read < Len(es), ~rd.threw,
         AlikeAt(srv.history),
         NEW place, place = ReadEntryIndex(rd, last, max), NEW key, key = ReadKey(place, ring),
         NEW data, data = ReadUserData(key, fixed), ~data.threw, place.value < max,
         NEW name, name = IF key.value = NoValue THEN KeyAt(tab, place.value) ELSE key.value,
         NEW t, t = Put(tab, [index |-> place.value, key |-> name, data |-> data.value]),
         NEW g, g.before = h.before, g.entries = h.entries, g.read = h.read + 1
  PROVE  InStep(side, es, max, fixed, t, Remember(ring, name), data, place.value, srv, g)
  <1> DEFINE n == Len(es)
             k == h.read
             a == Sides(side, es)
             e == es[k + 1]
             b == LastBefore(es, k + 1)
             x == Resolved(a[k], e)
  <1>1. /\ Fitting(side, es, max, fixed) /\ h.before = side.entries /\ h.entries = ResolvedAll(side, es) /\ k \in 0..n
        /\ srv = a[n] /\ ring = a[k].history /\ ShowsEntries(tab, a[k].entries, max)
    BY Zenon DEF InStep
  <1>2. n \in Nat /\ DOMAIN es = 1..n
    BY <1>1, FittingLength
  <1>3. k \in 0..n - 1 /\ k + 1 \in 1..n /\ (k + 1) - 1 = k /\ k + 1 \in 0..n
    BY <1>1, <1>2
  <1>4. /\ place.value = e.index /\ key.value = e.key /\ data.value = e.data
        /\ \E start : At(start, BitsOf(side, es, max, fixed, Len(es)), data, BitsOf(side, es, max, fixed, k + 1))
    BY EntryTaken
  <1>5. a[k + 1] = Wrote(a[k], e)
    <2>1. a[k + 1] = Wrote(a[(k + 1) - 1], e)
      BY <1>2, <1>3, SidesStep
    <2> QED BY <1>3, <2>1
  <1>6. SoundSide(a[k])
    BY <1>1, SidesSound
  <1>7. FitsEntry(a[k].entries, e, b, max, fixed)
    <2>1. FitsEntry(a[(k + 1) - 1].entries, e, b, max, fixed)
      BY <1>1, <1>2, <1>3, Zenon DEF Fitting
    <2> QED BY <1>3, <2>1
  <1>8. PICK m \in 0..MaxCount : SoundEntries(a[k].entries, m)
    BY <1>6, Zenon DEF SoundSide
  <1>9. Turns(a[k], m, e, x) /\ DOMAIN a[k].entries = 0..m - 1
    BY <1>7, <1>8, ResolvedFits DEF SoundEntries
  <1> DEFINE q == a[k]
             f == q.entries
             put == [index |-> place.value, key |-> name, data |-> data.value]
  <1>10. a[k + 1].entries = Put(f, x) /\ a[k + 1].history = Pushed(ring, x.key)
    BY <1>1, <1>5 DEF Wrote
  <1> HIDE DEF a, b, x, e, q
  <1>11. x.index = e.index /\ x.data = e.data /\ (e.key # NoValue => x.key = e.key)
         /\ (e.key = NoValue => e.index \in DOMAIN f /\ x.key = f[e.index].key)
    BY <1>9, Zenon DEF Turns, q
  <1>12. name = x.key
    <2>1. CASE e.key # NoValue
      BY <2>1, <1>4, <1>11
    <2>2. CASE e.key = NoValue
      <3>1. e.index \in DOMAIN f /\ x.key = f[e.index].key /\ e.index < max
        BY <2>2, <1>4, <1>11
      <3>2. e.index \in DOMAIN tab /\ tab[e.index].key = f[e.index].key
        BY <1>1, <3>1, Zenon DEF ShowsEntries, q
      <3>3. KeyAt(tab, e.index) = tab[e.index].key
        BY <3>2, Zenon DEF KeyAt
      <3> QED BY <1>4, <2>2, <3>1, <3>2, <3>3
    <2> QED BY <2>1, <2>2
  <1>13. ShowsEntries(t, a[k + 1].entries, max)
    <2>1. x.index = put.index /\ x.key = put.key /\ x.data = put.data
      BY <1>4, <1>11, <1>12
    <2>2. t = Put(tab, put)
      OBVIOUS
    <2> HIDE DEF put, f
    <2>3. HasPut(tab, put, t)
      BY <2>2, PutIs
    <2>4. HasPut(f, x, a[k + 1].entries)
      BY <1>10, PutIs
    <2>5. ShowsEntries(tab, f, max)
      BY <1>1 DEF f, q
    <2> QED BY <2>1, <2>3, <2>4, <2>5, ShowsPut
  <1>14. Remember(ring, name) = a[k + 1].history
    <2>1. a = Sides(side, es) /\ AlikeAt(a[Len(es)].history) /\ k \in 0..Len(es) - 1
      BY <1>1, <1>3 DEF a
    <2>2. a[k + 1].history = Pushed(a[k].history, name) /\ ring = a[k].history
      BY <1>1, <1>10, <1>12
    <2> HIDE DEF k
    <2>3. DropsAlike(a[k].history, a[k + 1].history)
      BY <1>1, <2>1, SidesAlike, Zenon
    <2>4. Remember(a[k].history, name) = Pushed(a[k].history, name)
      BY <2>2, <2>3, Zenon DEF DropsAlike
    <2> QED BY <2>2, <2>4
  <1>15. g.read = k + 1 /\ g.before = side.entries /\ g.entries = ResolvedAll(side, es)
    BY <1>1
  <1>16. k + 1 < n => place.value = LastBefore(es, (k + 1) + 1)
    <2>1. (k + 1) + 1 # 1 /\ ((k + 1) + 1) - 1 = k + 1
      BY <1>3
    <2> QED BY <2>1, <1>4 DEF LastBefore, e
  <1> HIDE DEF k, put, f
  <1> QED BY <1>1, <1>3, <1>4, <1>13, <1>14, <1>15, <1>16, Zenon DEF InStep, a

-----------------------------------------------------------------------------
(* The bytes of a snapshot. *)

ByteStrings == Seq(0..255)

\* `d` is what `w` has behind its first k bytes; a reader is there, or threw.
Lying(d, w, k) ==
  /\ k \in Nat /\ d \in ByteStrings /\ w \in ByteStrings /\ k + Len(d) <= Len(w)
  /\ \A i \in 1..Len(d) : w[k + i] = d[i]

Into(r, w, k) ==
  ~r.threw => /\ r.rest \in ByteStrings /\ k + Len(r.rest) <= Len(w)
              /\ \A i \in 1..Len(r.rest) : r.rest[i] = w[k + i]

Gets(r, out, d, w, k) == Into(out, w, k + Len(d)) /\ (~out.threw => ~r.threw)

LEMMA LyingParts ==
  ASSUME NEW d \in ByteStrings, NEW e \in ByteStrings, NEW w, NEW k, Lying(d \o e, w, k)
  PROVE  Lying(d, w, k) /\ Lying(e, w, k + Len(d))
  <1> DEFINE S == 0..255
             x == d \o e
  <1>1. d \in Seq(S) /\ e \in Seq(S) /\ w \in Seq(S) /\ k \in Nat
    BY Zenon DEF ByteStrings, Lying
  <1> HIDE DEF S
  <1>2. /\ Len(d) \in Nat /\ Len(e) \in Nat /\ Len(w) \in Nat /\ Len(x) = Len(d) + Len(e)
        /\ \A i \in 1..Len(d) : x[i] = d[i]
        /\ \A i \in 1..Len(e) : x[Len(d) + i] = e[i]
    BY <1>1
  <1>3. k + Len(x) <= Len(w) /\ \A i \in 1..Len(x) : w[k + i] = x[i]
    BY Zenon DEF Lying
  <1> HIDE DEF x
  <1>4. Lying(d, w, k)
    <2>1. k + Len(d) <= Len(w)
      BY <1>1, <1>2, <1>3
    <2>2. ASSUME NEW i \in 1..Len(d) PROVE w[k + i] = d[i]
      <3>1. i \in 1..Len(x)
        BY <1>2
      <3> QED BY <3>1, <1>2, <1>3
    <2> QED BY <1>1, <2>1, <2>2, Zenon DEF Lying, ByteStrings, S
  <1>5. Lying(e, w, k + Len(d))
    <2>1. (k + Len(d)) + Len(e) <= Len(w) /\ k + Len(d) \in Nat
      BY <1>1, <1>2, <1>3
    <2>2. ASSUME NEW i \in 1..Len(e) PROVE w[(k + Len(d)) + i] = e[i]
      <3>1. Len(d) + i \in 1..Len(x) /\ (k + Len(d)) + i = k + (Len(d) + i)
        BY <1>1, <1>2
      <3>2. w[k + (Len(d) + i)] = x[Len(d) + i]
        BY <1>3, <3>1
      <3> QED BY <3>1, <3>2, <1>2
    <2> QED BY <1>1, <2>1, <2>2, Zenon DEF Lying, ByteStrings, S
  <1> QED BY <1>4, <1>5

LEMMA RestOf ==
  ASSUME NEW S, NEW q \in Seq(S), NEW p \in Nat, p <= Len(q), NEW m, m = Len(q)
  PROVE  /\ SubSeq(q, p + 1, m) \in Seq(S) /\ Len(SubSeq(q, p + 1, m)) = m - p
         /\ \A i \in 1..m - p : SubSeq(q, p + 1, m)[i] = q[p + i]
  OBVIOUS

LEMMA TakeGets ==
  ASSUME NEW w, NEW k, NEW r, r.threw \in BOOLEAN, Into(r, w, k), NEW d, Lying(d, w, k), NEW n, ~r.threw => n = Len(d)
  PROVE  /\ Gets(r, Take(r, n), d, w, k) /\ Take(r, n).threw \in BOOLEAN
         /\ ~Take(r, n).threw => Take(r, n).got = d
  <1> DEFINE S == 0..255
             out == Take(r, n)
             l == Len(d)
             q == r.rest
             m == Len(q)
  <1>1. d \in Seq(S) /\ w \in Seq(S) /\ k \in Nat /\ k + l <= Len(w) /\ \A i \in 1..l : w[k + i] = d[i]
    BY Zenon DEF ByteStrings, Lying
  <1>2. CASE r.threw \/ m < n
    <2>1. out.threw = TRUE
      BY <1>2 DEF Take, Short
    <2> HIDE DEF out
    <2> QED BY <2>1, Zenon DEF Gets, Into, out
  <1>3. CASE ~(r.threw \/ m < n)
    <2>1. out = [rest |-> SubSeq(q, n + 1, m), got |-> SubSeq(q, 1, n), threw |-> FALSE]
      BY <1>3, Zenon DEF Take, Took
    <2>3. q \in Seq(S) /\ k + m <= Len(w) /\ (\A i \in 1..m : q[i] = w[k + i]) /\ n = l
      BY <1>3, Zenon DEF Into, ByteStrings
    <2> HIDE DEF out, q, S, m
    <2>2. out.threw = FALSE /\ out.rest = SubSeq(q, n + 1, m) /\ out.got = SubSeq(q, 1, n)
      BY <2>1
    <2>4. m \in Nat /\ l \in Nat /\ n <= m /\ Len(w) \in Nat
      BY <1>1, <1>3, <2>3 DEF m
    <2> DEFINE rest == SubSeq(q, l + 1, m)
               got == SubSeq(q, 1, l)
    <2>5. /\ got \in Seq(S) /\ Len(got) = l /\ \A i \in 1..l : got[i] = q[i]
          /\ rest \in Seq(S) /\ Len(rest) = m - l /\ \A i \in 1..m - l : rest[i] = q[l + i]
      BY <2>3, <2>4 DEF m
    <2> HIDE DEF rest, got
    <2>6. got = d
      <3>1. Len(got) = Len(d) /\ got \in Seq(S) /\ d \in Seq(S)
        BY <1>1, <2>5
      <3>2. ASSUME NEW i \in 1..Len(d) PROVE got[i] = d[i]
        <4>1. i \in 1..l /\ i \in 1..m
          BY <2>3, <2>4
        <4> QED BY <4>1, <1>1, <2>3, <2>5
      <3> HIDE DEF l
      <3> QED BY <3>1, <3>2
    <2>7. Into(out, w, k + l)
      <3>1. (k + l) + Len(rest) <= Len(w)
        BY <1>1, <2>3, <2>4, <2>5
      <3>2. ASSUME NEW i \in 1..Len(rest) PROVE rest[i] = w[(k + l) + i]
        <4>1. l + i \in 1..m /\ k + (l + i) = (k + l) + i /\ i \in 1..m - l
          BY <1>1, <2>4, <2>5
        <4> QED BY <4>1, <2>3, <2>5
      <3>3. out.rest = rest
        BY <2>2, <2>3 DEF rest
      <3> QED BY <2>5, <3>1, <3>2, <3>3, Zenon DEF Into, ByteStrings, S
    <2>8. out.got = d
      BY <2>2, <2>3, <2>6 DEF got
    <2> QED BY <1>3, <2>2, <2>7, <2>8 DEF Gets, out
  <1> QED BY <1>2, <1>3

LEMMA SmallMin ==
  ASSUME NEW S, NEW m \in Nat, m \in S, \A y \in S : y \in Nat /\ m <= y
  PROVE  Min(S) = m
  <1>1. Min(S) \in S /\ \A y \in S : Min(S) <= y
    BY Zenon DEF Min
  <1> DEFINE x == Min(S)
  <1>2. x \in S /\ x <= m
    BY <1>1
  <1> HIDE DEF x
  <1>3. x = m
    BY <1>2
  <1> QED BY <1>3 DEF x

LEMMA TextTaken ==
  ASSUME NEW w, NEW k, NEW r, r.threw \in BOOLEAN, Into(r, w, k), NEW text \in Seq(1..255),
         Lying(EncodeText(text), w, k)
  PROVE  /\ Gets(r, TakeText(r), EncodeText(text), w, k) /\ TakeText(r).threw \in BOOLEAN
         /\ ~TakeText(r).threw => TakeText(r).got = text
  <1> DEFINE S == 0..255
             d == EncodeText(text)
             out == TakeText(r)
             l == Len(text)
             q == r.rest
             m == Len(q)
             ends == {i \in DOMAIN q : q[i] = 0}
  <1>1. /\ l \in Nat /\ Len(d) = l + 1 /\ text \in Seq(S)
        /\ \A i \in 1..l : d[i] = text[i] /\ text[i] \in 1..255
        /\ d[l + 1] = 0
    <2>1. /\ l \in Nat /\ d \in Seq(0..255) /\ Len(d) = l + 1
          /\ \A i \in 1..l : d[i] = text[i] /\ text[i] \in 1..255
          /\ d[l + 1] = 0
      BY TextBytes, Zenon
    <2>2. text \in Seq(0..255)
      BY SMT
    <2> HIDE DEF l, d
    <2> QED BY <2>1, <2>2, Zenon
  <1>2. w \in Seq(S) /\ k \in Nat /\ k + (l + 1) <= Len(w) /\ \A i \in 1..l + 1 : w[k + i] = d[i]
    <2>1. w \in Seq(S) /\ k \in Nat /\ k + Len(d) <= Len(w) /\ \A i \in 1..Len(d) : w[k + i] = d[i]
      BY Zenon DEF ByteStrings, Lying
    <2> QED BY <1>1, <2>1
  <1>3. \A i \in 1..l : d[i] # 0
    <2> SUFFICES ASSUME NEW i \in 1..l PROVE d[i] # 0
      OBVIOUS
    <2> DEFINE b == d[i]
    <2>1. b \in 1..255
      BY <1>1
    <2> HIDE DEF b
    <2>2. b # 0
      BY <2>1
    <2> QED BY <2>2 DEF b
  <1>4. CASE r.threw \/ ends = {}
    <2>1. out.threw = TRUE
      BY <1>4 DEF TakeText, Short
    <2> HIDE DEF out
    <2> QED BY <2>1, Zenon DEF Gets, Into, out
  <1>5. CASE ~(r.threw \/ ends = {})
    <2>1. out = [rest |-> SubSeq(q, Min(ends) + 1, m), got |-> SubSeq(q, 1, Min(ends) - 1), threw |-> FALSE]
      BY <1>5, Zenon DEF TakeText, Took
    <2>2. q \in Seq(S) /\ k + m <= Len(w) /\ \A i \in 1..m : q[i] = w[k + i]
      BY <1>5, Zenon DEF Into, ByteStrings
    <2> HIDE DEF out, q, S, m, l, d
    <2>3. m \in Nat /\ DOMAIN q = 1..m /\ Len(w) \in Nat
      BY <1>2, <2>2 DEF m
    <2>4. \A i \in 1..m : i <= l + 1 => q[i] = d[i]
      <3> SUFFICES ASSUME NEW i \in 1..m, i <= l + 1 PROVE q[i] = d[i]
        OBVIOUS
      <3>1. i \in 1..l + 1
        BY <1>1, <2>3
      <3> QED BY <3>1, <1>2, <2>2
    <2>5. \A y \in ends : y \in Nat /\ l + 1 <= y
      <3> SUFFICES ASSUME NEW y \in ends PROVE y \in Nat /\ l + 1 <= y
        OBVIOUS
      <3>1. y \in 1..m /\ q[y] = 0
        BY <2>3
      <3>2. ~(y \in 1..l)
        <4> SUFFICES ASSUME y \in 1..l PROVE FALSE
          OBVIOUS
        <4>1. y <= l + 1
          BY <1>1
        <4> QED BY <4>1, <1>3, <2>4, <3>1
      <3> QED BY <3>1, <3>2, <1>1, <2>3
    <2>6. l + 1 \in ends
      <3>1. PICK y \in ends : TRUE
        BY <1>5
      <3>2. y \in 1..m /\ l + 1 <= y
        BY <3>1, <2>3, <2>5
      <3>3. l + 1 \in 1..m
        BY <3>2, <1>1, <2>3
      <3>4. q[l + 1] = 0
        BY <3>3, <2>4, <1>1
      <3> QED BY <3>3, <3>4, <2>3
    <2>7. Min(ends) = l + 1
      <3> HIDE DEF ends
      <3>1. l + 1 \in Nat
        BY <1>1
      <3> QED BY <2>5, <2>6, <3>1, SmallMin
    <2>8. l + 1 <= m
      BY <2>3, <2>6
    <2> HIDE DEF ends
    <2>9. out.threw = FALSE /\ out.rest = SubSeq(q, (l + 1) + 1, m) /\ out.got = SubSeq(q, 1, l)
      <3>1. Min(ends) - 1 = l
        BY <1>1, <2>7
      <3>2. out = [rest |-> SubSeq(q, (l + 1) + 1, m), got |-> SubSeq(q, 1, l), threw |-> FALSE]
        BY <2>1, <2>7, <3>1, Zenon
      <3> QED BY <3>2
    <2> DEFINE rest == SubSeq(q, (l + 1) + 1, m)
               got == SubSeq(q, 1, l)
    <2>10. /\ got \in Seq(S) /\ Len(got) = l /\ \A i \in 1..l : got[i] = q[i]
           /\ rest \in Seq(S) /\ Len(rest) = m - (l + 1) /\ \A i \in 1..m - (l + 1) : rest[i] = q[(l + 1) + i]
      <3> DEFINE p == l + 1
      <3>1. p \in Nat /\ p <= m /\ l \in Nat /\ l <= m /\ q \in Seq(S) /\ m = Len(q) /\ m \in Nat
        BY <1>1, <2>2, <2>3, <2>8 DEF m
      <3>2. got \in Seq(S) /\ Len(got) = l /\ \A i \in 1..l : got[i] = q[i]
        <4> HIDE DEF p
        <4> QED BY <3>1
      <3> HIDE DEF p, got
      <3>3. /\ SubSeq(q, p + 1, m) \in Seq(S) /\ Len(SubSeq(q, p + 1, m)) = m - p
            /\ \A i \in 1..m - p : SubSeq(q, p + 1, m)[i] = q[p + i]
        BY <3>1, RestOf
      <3> QED BY <3>2, <3>3, Zenon DEF p
    <2> HIDE DEF rest, got
    <2>11. got = text
      <3>1. ASSUME NEW i \in 1..l PROVE got[i] = text[i]
        <4>1. i \in 1..m /\ i <= l + 1
          BY <1>1, <2>3, <2>8
        <4> QED BY <4>1, <1>1, <2>4, <2>10
      <3>2. Len(text) = l
        BY DEF l
      <3> QED BY <1>1, <2>10, <3>1, <3>2
    <2>12. Into(out, w, k + (l + 1))
      <3>1. (k + (l + 1)) + Len(rest) <= Len(w)
        BY <1>1, <1>2, <2>2, <2>3, <2>8, <2>10
      <3>2. ASSUME NEW i \in 1..Len(rest) PROVE rest[i] = w[(k + (l + 1)) + i]
        <4>1. (l + 1) + i \in 1..m /\ k + ((l + 1) + i) = (k + (l + 1)) + i /\ i \in 1..m - (l + 1)
          BY <1>1, <1>2, <2>3, <2>8, <2>10
        <4> QED BY <4>1, <2>2, <2>10
      <3> QED BY <2>9, <2>10, <3>1, <3>2, Zenon DEF Into, ByteStrings, S, rest
    <2>13. out.got = text
      BY <2>9, <2>11 DEF got
    <2> QED BY <1>1, <1>5, <2>9, <2>12, <2>13 DEF Gets, out, d
  <1> QED BY <1>4, <1>5

LEMMA BytesJoined ==
  ASSUME NEW d \in ByteStrings, NEW e \in ByteStrings
  PROVE  d \o e \in ByteStrings /\ Len(d) \in Nat /\ Len(e) \in Nat /\ Len(d \o e) = Len(d) + Len(e)
  <1> DEFINE S == 0..255
  <1>1. d \in Seq(S) /\ e \in Seq(S)
    BY DEF ByteStrings
  <1> HIDE DEF S
  <1>2. d \o e \in Seq(S) /\ Len(d) \in Nat /\ Len(e) \in Nat /\ Len(d \o e) = Len(d) + Len(e)
    BY <1>1
  <1> QED BY <1>2, Zenon DEF ByteStrings, S

LEMMA GetsOn ==
  ASSUME NEW r, NEW a, NEW d \in ByteStrings, NEW w, NEW k \in Nat, Gets(r, a, d, w, k),
         NEW b, NEW e \in ByteStrings, Gets(a, b, e, w, k + Len(d))
  PROVE  Gets(r, b, d \o e, w, k)
  <1>1. Len(d) \in Nat /\ Len(e) \in Nat /\ Len(d \o e) = Len(d) + Len(e)
    BY BytesJoined
  <1>2. (k + Len(d)) + Len(e) = k + Len(d \o e)
    BY <1>1
  <1>3. Into(b, w, (k + Len(d)) + Len(e)) /\ (~b.threw => ~a.threw) /\ (~a.threw => ~r.threw)
    BY Zenon DEF Gets
  <1>4. Into(b, w, k + Len(d \o e))
    BY <1>2, <1>3
  <1> QED BY <1>3, <1>4, Zenon DEF Gets

LEMMA WordBytes ==
  ASSUME NEW n \in 0..MaxCount
  PROVE  EncodeWord(n) \in ByteStrings /\ Len(EncodeWord(n)) = 2 /\ Number(EncodeWord(n)) = n
  <1> DEFINE a == n % 256
             b == n \div 256
             u == <<a, b>>
  <1>1. n \in Nat /\ n <= 65535
    BY DEF MaxCount
  <1>2. a \in 0..255 /\ b \in 0..255 /\ a + 256 * b = n
    BY <1>1
  <1> HIDE DEF a, b
  <1>3. u \in Seq(0..255) /\ Len(u) = 2 /\ u[1] = a /\ u[2] = b
    BY <1>2
  <1>4. EncodeWord(n) = u
    BY DEF EncodeWord, a, b
  <1> HIDE DEF u
  <1>5. Number(u) = n
    BY <1>2, <1>3 DEF Number
  <1> QED BY <1>3, <1>4, <1>5 DEF ByteStrings

LEMMA RecordBytes ==
  ASSUME NEW record, FitsRecord(record)
  PROVE  /\ EncodeText(record.key) \in ByteStrings /\ record.key \in Seq(1..255)
         /\ EncodeWord(Len(record.data)) \in ByteStrings /\ record.data \in ByteStrings
         /\ Len(record.data) \in 0..MaxCount /\ EncodeRecord(record) \in ByteStrings
  <1>1. record.key \in Seq(1..255) /\ record.data \in ByteStrings /\ Len(record.data) <= MaxCount
    BY Zenon DEF FitsRecord, ByteStrings
  <1>2. EncodeText(record.key) \in ByteStrings
    <2> DEFINE t == record.key
    <2>1. t \in Seq(1..255)
      BY <1>1
    <2> HIDE DEF t
    <2>2. EncodeText(t) \in Seq(0..255)
      BY <2>1, TextBytes, Zenon
    <2> QED BY <2>2, Zenon DEF t, ByteStrings
  <1>3. Len(record.data) \in 0..MaxCount
    <2>1. Len(record.data) \in Nat
      BY <1>1, BytesJoined, Zenon
    <2> DEFINE n == Len(record.data)
    <2>2. n \in Nat /\ n <= MaxCount /\ MaxCount \in Nat
      BY <1>1, <2>1 DEF MaxCount
    <2> HIDE DEF n
    <2> QED BY <2>2 DEF n
  <1>4. EncodeWord(Len(record.data)) \in ByteStrings
    BY <1>3, WordBytes
  <1>5. EncodeRecord(record) \in ByteStrings
    <2> DEFINE a == EncodeText(record.key)
               b == EncodeWord(Len(record.data))
               c == record.data
    <2>1. a \in ByteStrings /\ b \in ByteStrings /\ c \in ByteStrings /\ EncodeRecord(record) = (a \o b) \o c
      BY <1>1, <1>2, <1>4 DEF EncodeRecord
    <2> HIDE DEF a, b, c
    <2> QED BY <2>1, BytesJoined
  <1> QED BY <1>1, <1>2, <1>3, <1>4, <1>5

\* A reader and the records it took; one more.
Copy(record) == [key |-> record.key, data |-> record.data]

TakesRecord(a, out, record, w, k) ==
  /\ Gets(a.r, out.r, EncodeRecord(record), w, k) /\ out.r.threw \in BOOLEAN
  /\ ~out.r.threw => out.list = Append(a.list, Copy(record))

LEMMA RecordTaken ==
  ASSUME NEW w, NEW k \in Nat, NEW a, a.r.threw \in BOOLEAN, Into(a.r, w, k),
         NEW record, FitsRecord(record), Lying(EncodeRecord(record), w, k)
  PROVE  TakesRecord(a, NextRecord(a), record, w, k)
  <1> DEFINE out == NextRecord(a)
             t == EncodeText(record.key)
             n == Len(record.data)
             u == EncodeWord(n)
             c == record.data
             key == TakeText(a.r)
             size == TakeWord(key)
             data == Take(size, Number(size.got))
  <1>1. t \in ByteStrings /\ u \in ByteStrings /\ c \in ByteStrings /\ record.key \in Seq(1..255) /\ n \in 0..MaxCount
    BY RecordBytes
  <1>2. EncodeRecord(record) = (t \o u) \o c
    BY Zenon DEF EncodeRecord
  <1>3. out = [r |-> data, list |-> Append(a.list, [key |-> key.got, data |-> data.got])]
    BY Zenon DEF NextRecord, WithKey, WithData, WithRecord
  <1> HIDE DEF out
  <1>4. out.r = data /\ out.list = Append(a.list, [key |-> key.got, data |-> data.got])
    <2> HIDE DEF data, key
    <2> QED BY <1>3
  <1>5. Len(u) = 2 /\ Number(u) = n
    BY <1>1, WordBytes
  <1> HIDE DEF t, u, c, n
  <1>6. t \o u \in ByteStrings
    BY <1>1, BytesJoined
  <1>7. Lying(t \o u, w, k) /\ Lying(c, w, k + Len(t \o u))
    BY <1>1, <1>2, <1>6, LyingParts
  <1>8. Lying(t, w, k) /\ Lying(u, w, k + Len(t))
    BY <1>1, <1>7, LyingParts
  <1>9. Gets(a.r, key, t, w, k) /\ key.threw \in BOOLEAN /\ (~key.threw => key.got = record.key)
    BY <1>1, <1>8, TextTaken DEF t
  <1>10. size = Take(key, 2)
    BY DEF TakeWord
  <1> HIDE DEF key, size
  <1>11. Gets(key, size, u, w, k + Len(t)) /\ size.threw \in BOOLEAN /\ (~size.threw => size.got = u)
    <2>1. Into(key, w, k + Len(t))
      BY <1>9 DEF Gets
    <2>2. ~key.threw => 2 = Len(u)
      BY <1>5
    <2> DEFINE k1 == k + Len(t)
               two == 2
    <2>3. Lying(u, w, k1) /\ Into(key, w, k1) /\ key.threw \in BOOLEAN /\ (~key.threw => two = Len(u))
      BY <1>8, <1>9, <2>1, <2>2
    <2> HIDE DEF k1, two
    <2>4. /\ Gets(key, Take(key, two), u, w, k1) /\ Take(key, two).threw \in BOOLEAN
          /\ ~Take(key, two).threw => Take(key, two).got = u
      BY <2>3, TakeGets
    <2> QED BY <1>10, <2>4, Zenon DEF k1, two
  <1>12. Gets(a.r, size, t \o u, w, k)
    BY <1>1, <1>9, <1>11, GetsOn
  <1>13. Gets(size, data, c, w, k + Len(t \o u)) /\ data.threw \in BOOLEAN /\ (~data.threw => data.got = c)
    <2>1. Into(size, w, k + Len(t \o u))
      BY <1>12 DEF Gets
    <2>2. ~size.threw => Number(size.got) = Len(c)
      BY <1>5, <1>11 DEF n, c
    <2> QED BY <1>7, <1>11, <2>1, <2>2, TakeGets
  <1> HIDE DEF data
  <1>14. Gets(a.r, data, (t \o u) \o c, w, k)
    BY <1>1, <1>6, <1>12, <1>13, GetsOn
  <1>15. ~data.threw => key.got = record.key /\ data.got = record.data
    <2>1. ~data.threw => ~size.threw /\ ~key.threw
      BY <1>11, <1>13, Zenon DEF Gets
    <2> QED BY <2>1, <1>9, <1>13 DEF c
  <1>16. TakesRecord(a, out, record, w, k)
    BY <1>2, <1>4, <1>13, <1>14, <1>15, Zenon DEF Copy, TakesRecord
  <1> QED BY <1>16 DEF out

RecordsTo(g, count, n) ==
  g = [i \in 0..n |-> IF i = 0 THEN [r |-> count, list |-> <<>>] ELSE NextRecord(g[i - 1])]

LEMMA RecordsExist ==
  ASSUME NEW count, NEW n \in Nat
  PROVE  \E g : RecordsTo(g, count, n)
  <1> DEFINE G == {k \in 0..n : \E g : RecordsTo(g, count, k)}
             begins == [r |-> count, list |-> <<>>]
  <1>1. 0 \in G
    <2> DEFINE g == [i \in 0..0 |-> begins]
    <2> HIDE DEF begins
    <2>1. g = [i \in 0..0 |-> IF i = 0 THEN begins ELSE NextRecord(g[i - 1])]
      OBVIOUS
    <2>2. RecordsTo(g, count, 0)
      BY <2>1, Zenon DEF RecordsTo, begins
    <2> QED BY <2>2
  <1>2. ASSUME NEW k \in 0..n - 1, k \in G PROVE k + 1 \in G
    <2>1. PICK g : RecordsTo(g, count, k)
      BY <1>2
    <2> DEFINE next == NextRecord(g[k])
               h == [i \in 0..k + 1 |-> IF i = k + 1 THEN next ELSE g[i]]
    <2> HIDE DEF next, begins
    <2>2. ASSUME NEW i \in 0..k + 1
          PROVE  h[i] = IF i = 0 THEN begins ELSE NextRecord(h[i - 1])
      <3>1. CASE i = k + 1
        <4>1. h[i] = next /\ h[k] = g[k] /\ i # 0 /\ i - 1 = k
          BY <3>1
        <4> HIDE DEF h
        <4> QED BY <4>1, Zenon DEF next
      <3>2. CASE i # k + 1
        <4>1. i \in 0..k /\ h[i] = g[i]
          BY <3>2
        <4>2. g[i] = IF i = 0 THEN begins ELSE NextRecord(g[i - 1])
          BY <2>1, <4>1, Zenon DEF RecordsTo, begins
        <4>3. i # 0 => h[i - 1] = g[i - 1]
          BY <4>1
        <4> HIDE DEF h
        <4> QED BY <4>1, <4>2, <4>3, Zenon
      <3> QED BY <3>1, <3>2
    <2>3. RecordsTo(h, count, k + 1)
      <3>1. h = [i \in 0..k + 1 |-> h[i]]
        OBVIOUS
      <3> HIDE DEF h
      <3>2. h = [i \in 0..k + 1 |-> IF i = 0 THEN begins ELSE NextRecord(h[i - 1])]
        BY <2>2, <3>1
      <3> QED BY <3>2, Zenon DEF RecordsTo, begins
    <2> QED BY <2>3
  <1> HIDE DEF G
  <1>3. \A k \in 0..n : k \in G
    BY <1>1, <1>2, IntervalInduction
  <1>4. n \in 0..n
    OBVIOUS
  <1> QED BY <1>3, <1>4 DEF G

LEMMA RecordsFromIs ==
  ASSUME NEW count, Number(count.got) \in Nat
  PROVE  \E g : RecordsTo(g, count, Number(count.got)) /\ RecordsFrom(count) = g[Number(count.got)]
  <1> DEFINE n == Number(count.got)
             a == CHOOSE g : RecordsTo(g, count, n)
  <1>1. RecordsTo(a, count, n)
    <2>1. \E g : RecordsTo(g, count, n)
      BY RecordsExist
    <2> QED BY <2>1, Zenon
  <1>2. RecordsFrom(count) = a[n]
    BY Zenon DEF RecordsFrom, RecordsTo
  <1> HIDE DEF a
  <1> QED BY <1>1, <1>2

\* Each element of a list lies where those before it end.
LEMMA LyingFlat ==
  ASSUME NEW s, NEW n \in Nat, \A i \in 1..n : s[i] \in ByteStrings, NEW w, NEW k, Lying(FlatTo(s, n), w, k)
  PROVE  /\ FlatTo(s, 0) = <<>>
         /\ \A i \in 0..n : FlatTo(s, i) \in ByteStrings /\ Lying(FlatTo(s, i), w, k)
         /\ \A i \in 0..n - 1 : /\ FlatTo(s, i + 1) = FlatTo(s, i) \o s[i + 1]
                                /\ Lying(s[i + 1], w, k + Len(FlatTo(s, i)))
  <1>1. /\ FlatTo(s, 0) = <<>>
        /\ \A i \in 0..n - 1 : FlatTo(s, i + 1) = FlatTo(s, i) \o s[i + 1]
        /\ \A i \in 0..n : FlatTo(s, i) \in ByteStrings
    <2> DEFINE S == 0..255
    <2>1. \A i \in 1..n : s[i] \in Seq(S)
      BY DEF ByteStrings
    <2> HIDE DEF S
    <2>2. /\ FlatTo(s, 0) = <<>>
          /\ \A i \in 0..n - 1 : FlatTo(s, i + 1) = FlatTo(s, i) \o s[i + 1]
          /\ \A i \in 0..n : FlatTo(s, i) \in Seq(S)
      BY <2>1, FlatSteps
    <2> QED BY <2>2, Zenon DEF ByteStrings, S
  <1> DEFINE G == {j \in 0..n : Lying(FlatTo(s, n - j), w, k)}
  <1>2. 0 \in G
    <2>1. n - 0 = n /\ 0 \in 0..n
      OBVIOUS
    <2> QED BY <2>1
  <1>3. ASSUME NEW j \in 0..n - 1, j \in G PROVE j + 1 \in G
    <2> DEFINE i == n - (j + 1)
    <2>1. i \in 0..n - 1 /\ i + 1 = n - j /\ i \in 0..n /\ i + 1 \in 1..n /\ j + 1 \in 0..n
      OBVIOUS
    <2>2. Lying(FlatTo(s, i + 1), w, k)
      BY <1>3, <2>1
    <2> HIDE DEF i
    <2>3. Lying(FlatTo(s, i) \o s[i + 1], w, k) /\ FlatTo(s, i) \in ByteStrings /\ s[i + 1] \in ByteStrings
      BY <1>1, <2>1, <2>2
    <2>4. Lying(FlatTo(s, i), w, k)
      BY <2>3, LyingParts
    <2> QED BY <2>1, <2>4 DEF i
  <1> HIDE DEF G
  <1>4. \A j \in 0..n : j \in G
    BY <1>2, <1>3, IntervalInduction
  <1>5. ASSUME NEW i \in 0..n PROVE Lying(FlatTo(s, i), w, k)
    <2>1. n - i \in 0..n /\ n - (n - i) = i
      OBVIOUS
    <2>2. Lying(FlatTo(s, n - (n - i)), w, k)
      BY <1>4, <2>1, Zenon DEF G
    <2> QED BY <2>1, <2>2
  <1>6. ASSUME NEW i \in 0..n - 1 PROVE Lying(s[i + 1], w, k + Len(FlatTo(s, i)))
    <2>1. i + 1 \in 1..n /\ i + 1 \in 0..n /\ i \in 0..n
      OBVIOUS
    <2>2. Lying(FlatTo(s, i) \o s[i + 1], w, k) /\ FlatTo(s, i) \in ByteStrings /\ s[i + 1] \in ByteStrings
      <3>1. Lying(FlatTo(s, i + 1), w, k)
        BY <1>5, <2>1
      <3> QED BY <1>1, <2>1, <3>1
    <2> QED BY <2>2, LyingParts
  <1> QED BY <1>1, <1>5, <1>6

Copies(records, n) == [i \in 1..n |-> Copy(records[i])]

LEMMA CopiesMore ==
  ASSUME NEW records, NEW n \in Nat
  PROVE  /\ Len(Copies(records, n)) = n /\ DOMAIN Copies(records, n) = 1..n
         /\ Append(Copies(records, n), Copy(records[n + 1])) = Copies(records, n + 1)
         /\ Copies(records, n) \in Seq({Copy(records[i]) : i \in Nat})
  <1> DEFINE F(i) == Copy(records[i])
             T == {F(i) : i \in Nat}
             a == [i \in 1..n |-> F(i)]
             b == [i \in 1..n + 1 |-> F(i)]
  <1>1. Copies(records, n) = a /\ Copies(records, n + 1) = b /\ Copy(records[n + 1]) = F(n + 1)
    BY Zenon DEF Copies
  <1> HIDE DEF F
  <1>2. a \in [1..n -> T] /\ b \in [1..n + 1 -> T] /\ F(n + 1) \in T
    OBVIOUS
  <1>3. \A i \in 1..n : a[i] = F(i) /\ b[i] = F(i)
    OBVIOUS
  <1>4. b[n + 1] = F(n + 1)
    OBVIOUS
  <1> HIDE DEF a, b, T
  <1>5. a \in Seq(T) /\ Len(a) = n /\ b \in Seq(T) /\ Len(b) = n + 1 /\ DOMAIN a = 1..n
    BY <1>2
  <1>6. Append(a, F(n + 1)) = b
    <2> DEFINE c == Append(a, F(n + 1))
    <2>1. c \in Seq(T) /\ Len(c) = n + 1 /\ (\A i \in 1..n : c[i] = a[i]) /\ c[n + 1] = F(n + 1)
      BY <1>2, <1>5, AppendProperties
    <2> HIDE DEF c
    <2>2. \A i \in 1..n + 1 : c[i] = b[i]
      BY <1>3, <1>4, <2>1
    <2>3. c = b
      BY <1>5, <2>1, <2>2
    <2> QED BY <2>3 DEF c
  <1> QED BY <1>1, <1>5, <1>6 DEF T, F

FitsRecords(records) ==
  /\ Len(records) \in 0..MaxCount /\ DOMAIN records = 1..Len(records)
  /\ \A i \in 1..Len(records) : FitsRecord(records[i])

RecordCodes(records) == [i \in DOMAIN records |-> EncodeRecord(records[i])]

LEMMA RecordCodesAre ==
  ASSUME NEW records, FitsRecords(records), NEW n, n = Len(records), NEW s, s = RecordCodes(records)
  PROVE  /\ n \in Nat /\ n \in 0..MaxCount
         /\ \A i \in 1..n : s[i] = EncodeRecord(records[i]) /\ s[i] \in ByteStrings
         /\ FlatTo(s, n) = FlattenSeq(s) /\ FlatTo(s, n) \in ByteStrings
         /\ EncodeRecords(records) = EncodeWord(n) \o FlatTo(s, n)
         /\ EncodeWord(n) \in ByteStrings /\ EncodeRecords(records) \in ByteStrings
  <1>1. n \in 0..MaxCount /\ DOMAIN records = 1..n /\ \A i \in 1..n : FitsRecord(records[i])
    BY Zenon DEF FitsRecords
  <1>2. n \in Nat
    BY <1>1
  <1>3. s = [i \in 1..n |-> EncodeRecord(records[i])]
    BY <1>1, Zenon DEF RecordCodes
  <1>4. \A i \in 1..n : s[i] = EncodeRecord(records[i]) /\ s[i] \in ByteStrings
    BY <1>1, <1>3, RecordBytes
  <1>5. FlatTo(s, n) = FlattenSeq(s)
    <2>1. s = [i \in 1..n |-> s[i]]
      BY <1>3
    <2> QED BY <1>2, <2>1, FlatToAll
  <1>6. FlatTo(s, n) \in ByteStrings
    <2> DEFINE S == 0..255
    <2>1. \A i \in 1..n : s[i] \in Seq(S)
      BY <1>4 DEF ByteStrings
    <2> HIDE DEF S
    <2>2. \A k \in 0..n : FlatTo(s, k) \in Seq(S)
      BY <1>2, <2>1, FlatSteps
    <2>3. n \in 0..n
      BY <1>2
    <2>4. FlatTo(s, n) \in Seq(S)
      BY <2>2, <2>3, Zenon
    <2> QED BY <2>4, Zenon DEF ByteStrings, S
  <1>7. EncodeWord(n) \in ByteStrings
    BY <1>1, WordBytes
  <1>8. EncodeRecords(records) = EncodeWord(n) \o FlatTo(s, n)
    BY <1>5, Zenon DEF EncodeRecords, RecordCodes
  <1>9. EncodeRecords(records) \in ByteStrings
    BY <1>6, <1>7, <1>8, BytesJoined
  <1> QED BY <1>1, <1>2, <1>4, <1>5, <1>6, <1>7, <1>8, <1>9

LEMMA RecordsTaken ==
  ASSUME NEW w, NEW k \in Nat, NEW r, r.threw \in BOOLEAN, Into(r, w, k),
         NEW records, FitsRecords(records), Lying(EncodeRecords(records), w, k), NEW out, out = TakeRecords(r)
  PROVE  /\ Gets(r, out.r, EncodeRecords(records), w, k) /\ out.r.threw \in BOOLEAN
         /\ ~out.r.threw => out.list = Copies(records, Len(records))
  <1> DEFINE n == Len(records)
             s == RecordCodes(records)
             u == EncodeWord(n)
             f == FlatTo(s, n)
             count == TakeWord(r)
             k1 == k + Len(u)
  <1>1. /\ n \in Nat /\ n \in 0..MaxCount /\ f \in ByteStrings /\ u \in ByteStrings
        /\ \A i \in 1..n : s[i] = EncodeRecord(records[i]) /\ s[i] \in ByteStrings
        /\ EncodeRecords(records) = u \o f
    BY RecordCodesAre
  <1>2. Len(u) = 2 /\ Number(u) = n
    BY <1>1, WordBytes
  <1>3. count = Take(r, 2) /\ out = RecordsFrom(count)
    BY Zenon DEF TakeWord, TakeRecords
  <1>4. \A i \in 1..n : FitsRecord(records[i])
    BY Zenon DEF FitsRecords
  <1> HIDE DEF u, f, s, n, count
  <1>5. Lying(u, w, k) /\ Lying(f, w, k1)
    BY <1>1, LyingParts
  <1>6. Gets(r, count, u, w, k) /\ count.threw \in BOOLEAN /\ (~count.threw => count.got = u)
    <2> DEFINE two == 2
    <2>1. ~r.threw => two = Len(u)
      BY <1>2
    <2> HIDE DEF two
    <2>2. /\ Gets(r, Take(r, two), u, w, k) /\ Take(r, two).threw \in BOOLEAN
          /\ ~Take(r, two).threw => Take(r, two).got = u
      BY <1>5, <2>1, TakeGets
    <2> QED BY <1>3, <2>2, Zenon DEF two
  <1>7. k1 \in Nat /\ Into(count, w, k1)
    <2>1. k1 \in Nat
      BY <1>2
    <2> QED BY <1>6, <2>1, Zenon DEF Gets
  <1> HIDE DEF k1
  <1> DEFINE m == Number(count.got)
             begins == [r |-> count, list |-> <<>>]
  <1>8. CASE count.threw
    <2>1. m = 0
      <3>1. \A q, x : Took(q, x, x).threw = FALSE
        BY DEF Took
      <3>2. Take(r, 2) = Short(r, 2)
        BY <1>3, <1>8, <3>1, Zenon DEF Take
      <3>3. count.got = [i \in 1..2 |-> 0]
        BY <1>3, <3>2 DEF Short
      <3>4. count.got[1] = 0 /\ count.got[2] = 0
        BY <3>3
      <3> QED BY <3>4 DEF Number
    <2>2. 0 \in Nat /\ 0 \in 0..0
      OBVIOUS
    <2>3. PICK g : RecordsTo(g, count, 0) /\ out = g[0]
      BY <1>3, <2>1, <2>2, RecordsFromIs
    <2>4. g[0] = begins
      BY <2>2, <2>3, Zenon DEF RecordsTo
    <2>5. out.r = count
      BY <2>3, <2>4
    <2> QED BY <1>8, <2>5, Zenon DEF Gets, Into
  <1>9. CASE ~count.threw
    <2>1. m = n
      BY <1>2, <1>6, <1>9
    <2>2. PICK g : RecordsTo(g, count, n) /\ out = g[n]
      BY <1>1, <1>3, <2>1, RecordsFromIs
    <2>3. /\ FlatTo(s, 0) = <<>>
          /\ \A i \in 0..n : FlatTo(s, i) \in ByteStrings
          /\ \A i \in 0..n - 1 : /\ FlatTo(s, i + 1) = FlatTo(s, i) \o s[i + 1]
                                 /\ Lying(s[i + 1], w, k1 + Len(FlatTo(s, i)))
      BY <1>1, <1>5, LyingFlat DEF f
    <2> DEFINE Good(i) == /\ Gets(count, g[i].r, FlatTo(s, i), w, k1) /\ g[i].r.threw \in BOOLEAN
                          /\ ~g[i].r.threw => g[i].list = Copies(records, i)
               G == {i \in 0..n : Good(i)}
    <2>4. 0 \in G
      <3>1. 0 \in 0..n
        BY <1>1
      <3>2. g[0] = begins
        BY <2>2, <3>1, Zenon DEF RecordsTo
      <3>3. g[0].r = count /\ g[0].list = <<>>
        BY <3>2
      <3>4. Copies(records, 0) = <<>>
        <4>1. Len(Copies(records, 0)) = 0 /\ Copies(records, 0) \in Seq({Copy(records[i]) : i \in Nat})
          BY CopiesMore
        <4> QED BY <4>1
      <3>5. k1 + Len(FlatTo(s, 0)) = k1
        BY <1>7, <2>3
      <3>6. Gets(count, count, FlatTo(s, 0), w, k1)
        BY <1>7, <3>5, Zenon DEF Gets
      <3> HIDE DEF begins
      <3> QED BY <1>6, <3>1, <3>3, <3>4, <3>6
    <2>5. ASSUME NEW i \in 0..n - 1, i \in G PROVE i + 1 \in G
      <3>1. i + 1 \in 1..n /\ (i + 1) - 1 = i /\ i + 1 \in 0..n /\ i \in 0..n /\ i \in Nat /\ i + 1 # 0
        BY <1>1
      <3>2. g[i + 1] = NextRecord(g[i])
        BY <2>2, <3>1, Zenon DEF RecordsTo
      <3> DEFINE a == g[i]
                 b == g[i + 1]
                 d == FlatTo(s, i)
                 e == s[i + 1]
                 k2 == k1 + Len(d)
                 record == records[i + 1]
      <3>3. /\ Gets(count, a.r, d, w, k1) /\ a.r.threw \in BOOLEAN /\ (~a.r.threw => a.list = Copies(records, i))
        BY <2>5
      <3>4. /\ d \in ByteStrings /\ e \in ByteStrings /\ FlatTo(s, i + 1) = d \o e /\ Lying(e, w, k2)
            /\ e = EncodeRecord(record) /\ FitsRecord(record)
        BY <1>1, <1>4, <2>3, <3>1
      <3> HIDE DEF a, b, d, e, record
      <3>5. k2 \in Nat /\ Into(a.r, w, k2)
        <4>1. Len(d) \in Nat
          BY <3>4, BytesJoined
        <4>2. k2 \in Nat
          BY <1>7, <4>1
        <4> QED BY <3>3, <4>2, Zenon DEF Gets
      <3> HIDE DEF k2
      <3>6. b = NextRecord(a)
        BY <3>2 DEF a, b
      <3>7. /\ Gets(a.r, b.r, e, w, k2) /\ b.r.threw \in BOOLEAN
            /\ ~b.r.threw => b.list = Append(a.list, Copy(record))
        <4> DEFINE c == EncodeRecord(record)
        <4>1. /\ k2 \in Nat /\ a.r.threw \in BOOLEAN /\ Into(a.r, w, k2) /\ FitsRecord(record)
              /\ Lying(EncodeRecord(record), w, k2) /\ e = c
          BY <3>3, <3>4, <3>5
        <4>2. /\ Gets(a.r, b.r, c, w, k2) /\ b.r.threw \in BOOLEAN
              /\ ~b.r.threw => b.list = Append(a.list, Copy(record))
          <5>1. TakesRecord(a, NextRecord(a), record, w, k2)
            BY <4>1, RecordTaken
          <5> QED BY <5>1, <3>6, Zenon DEF TakesRecord
        <4> HIDE DEF c
        <4> QED BY <4>1, <4>2
      <3>8. Gets(count, b.r, d \o e, w, k1)
        <4>1. Gets(a.r, b.r, e, w, k1 + Len(d))
          BY <3>7, Zenon DEF k2
        <4> QED BY <1>7, <3>3, <3>4, <4>1, GetsOn
      <3>9. ~b.r.threw => b.list = Copies(records, i + 1)
        <4>1. ~b.r.threw => ~a.r.threw
          BY <3>7, Zenon DEF Gets
        <4>2. Append(Copies(records, i), Copy(record)) = Copies(records, i + 1)
          BY <3>1, CopiesMore DEF record
        <4> QED BY <3>3, <3>7, <4>1, <4>2
      <3>10. Good(i + 1)
        BY <3>4, <3>7, <3>8, <3>9 DEF b
      <3> HIDE DEF Good
      <3> QED BY <3>1, <3>10
    <2> HIDE DEF G
    <2>6. \A i \in 0..n : i \in G
      BY <1>1, <2>4, <2>5, IntervalInduction
    <2>7. n \in 0..n
      BY <1>1
    <2>8. Good(n)
      BY <2>6, <2>7 DEF G
    <2>9. Gets(count, out.r, f, w, k1) /\ out.r.threw \in BOOLEAN /\ (~out.r.threw => out.list = Copies(records, n))
      BY <2>2, <2>8 DEF f
    <2>10. Gets(r, out.r, u \o f, w, k)
      <3>1. Gets(count, out.r, f, w, k + Len(u))
        BY <2>9, Zenon DEF k1
      <3> QED BY <1>1, <1>6, <3>1, GetsOn
    <2> QED BY <1>1, <2>9, <2>10 DEF n
  <1> QED BY <1>6, <1>8, <1>9

LEMMA FirstOf ==
  ASSUME NEW S, NEW q \in Seq(S), NEW m \in Nat, m <= Len(q)
  PROVE  SubSeq(q, 1, m) \in Seq(S) /\ Len(SubSeq(q, 1, m)) = m /\ \A i \in 1..m : SubSeq(q, 1, m)[i] = q[i]
  OBVIOUS

LEMMA FirstBytes ==
  ASSUME NEW S, NEW q \in Seq(S), NEW cut \in Nat, NEW p, p = SubSeq(q, 1, Len(q) - cut)
  PROVE  p \in Seq(S) /\ Len(p) <= Len(q) /\ Len(p) \in Nat /\ \A i \in 1..Len(p) : p[i] = q[i]
  <1> DEFINE m == Len(q) - cut
  <1>1. m \in Int /\ m <= Len(q) /\ Len(q) \in Nat
    OBVIOUS
  <1>2. CASE m >= 0
    <2>1. p = SubSeq(q, 1, m) /\ m \in Nat /\ m <= Len(q)
      BY <1>1, <1>2
    <2> HIDE DEF m
    <2>2. p \in Seq(S) /\ Len(p) = m /\ \A i \in 1..m : p[i] = q[i]
      BY <2>1, FirstOf
    <2> QED BY <2>1, <2>2
  <1>3. CASE m < 0
    <2>1. p = <<>>
      BY <1>1, <1>3
    <2> QED BY <2>1, <1>1
  <1> QED BY <1>1, <1>2, <1>3

\* The flag behind the entries, and the client's entries when it is set.
EncodeClient(client) == IF client = <<>> THEN <<0>> ELSE <<1>> \o EncodeRecords(client)

TakeClient(flag) == IF flag.got = <<1>> THEN TakeRecords(flag) ELSE [r |-> flag, list |-> <<>>]

LEMMA OneByte ==
  ASSUME NEW b \in 0..255
  PROVE  <<b>> \in ByteStrings /\ Len(<<b>>) = 1
  BY DEF ByteStrings

LEMMA ClientBytes ==
  ASSUME NEW client, FitsRecords(client)
  PROVE  EncodeClient(client) \in ByteStrings
  <1>1. CASE client = <<>>
    <2>1. EncodeClient(client) = <<0>>
      BY <1>1 DEF EncodeClient
    <2> QED BY <2>1, OneByte
  <1>2. CASE client # <<>>
    <2> DEFINE e == EncodeRecords(client)
    <2>1. EncodeClient(client) = <<1>> \o e
      BY <1>2 DEF EncodeClient
    <2>2. e \in ByteStrings
      BY RecordCodesAre
    <2>3. <<1>> \in ByteStrings
      BY OneByte
    <2> HIDE DEF e
    <2> QED BY <2>1, <2>2, <2>3, BytesJoined
  <1> QED BY <1>1, <1>2

LEMMA ShortFlag ==
  ASSUME NEW r, NEW flag, flag = Take(r, 1), flag.threw
  PROVE  TakeClient(flag).r.threw
  <1>1. flag = Short(r, 1)
    BY DEF Take, Took
  <1>2. flag.got = [i \in 1..1 |-> 0]
    BY <1>1 DEF Short
  <1>3. flag.got[1] = 0
    BY <1>2
  <1>4. flag.got # <<1>>
    BY <1>3
  <1> QED BY <1>4 DEF TakeClient

LEMMA NoCopies == Copies(<<>>, Len(<<>>)) = <<>>
  <1>1. Len(<<>>) = 0
    OBVIOUS
  <1> QED BY <1>1 DEF Copies

\* The client's entries, when the rest of the snapshot holds them.
LEMMA ClientTaken ==
  ASSUME NEW w, NEW k \in Nat, NEW r, r.threw \in BOOLEAN, Into(r, w, k),
         NEW client, FitsRecords(client), Lying(EncodeClient(client), w, k),
         NEW flag, flag = Take(r, 1), NEW out, out = TakeClient(flag), ~out.r.threw
  PROVE  ~r.threw /\ out.list = Copies(client, Len(client))
  <1> DEFINE one == 1
  <1>1. ~flag.threw
    BY ShortFlag
  <1>2. CASE client = <<>>
    <2> DEFINE d == <<0>>
    <2>1. Lying(d, w, k)
      BY <1>2 DEF EncodeClient
    <2>2. Len(d) = one
      OBVIOUS
    <2>3. d[1] = 0 /\ d # <<1>>
      OBVIOUS
    <2> HIDE DEF d, one
    <2>4. Gets(r, Take(r, one), d, w, k) /\ (~Take(r, one).threw => Take(r, one).got = d)
      BY <2>1, <2>2, TakeGets
    <2>5. flag = Take(r, one)
      BY DEF one
    <2>6. flag.got = d /\ ~r.threw
      BY <1>1, <2>4, <2>5, Zenon DEF Gets
    <2>7. out = [r |-> flag, list |-> <<>>]
      BY <2>3, <2>6 DEF TakeClient
    <2>8. out.list = <<>>
      BY <2>7
    <2> QED BY <1>2, <2>6, <2>8, NoCopies, Zenon
  <1>3. CASE client # <<>>
    <2> DEFINE d == <<1>>
               e == EncodeRecords(client)
    <2>1. Lying(d \o e, w, k)
      BY <1>3 DEF EncodeClient
    <2>2. Len(d) = one
      OBVIOUS
    <2>3. d \in ByteStrings /\ e \in ByteStrings
      <3>1. 1 \in 0..255
        OBVIOUS
      <3>2. d \in ByteStrings
        BY <3>1, OneByte
      <3>3. e \in ByteStrings
        BY RecordCodesAre
      <3> QED BY <3>2, <3>3
    <2>4. out = IF flag.got = d THEN TakeRecords(flag) ELSE [r |-> flag, list |-> <<>>]
      BY DEF TakeClient
    <2> HIDE DEF d, e, one
    <2>5. Lying(d, w, k) /\ Lying(e, w, k + Len(d))
      BY <2>1, <2>3, LyingParts
    <2>6. /\ Gets(r, Take(r, one), d, w, k) /\ Take(r, one).threw \in BOOLEAN
          /\ ~Take(r, one).threw => Take(r, one).got = d
      BY <2>2, <2>5, TakeGets
    <2>7. flag = Take(r, one)
      BY DEF one
    <2>8. flag.got = d /\ ~r.threw /\ Into(flag, w, k + Len(d))
      BY <1>1, <2>6, <2>7, Zenon DEF Gets
    <2>9. out = TakeRecords(flag)
      BY <2>4, <2>8
    <2> DEFINE k1 == k + Len(d)
    <2>10. k1 \in Nat /\ Lying(EncodeRecords(client), w, k1) /\ Into(flag, w, k1)
      <3>1. k1 \in Nat
        BY <2>2 DEF one
      <3> QED BY <2>5, <2>8, <3>1 DEF e
    <2>11. flag.threw \in BOOLEAN
      BY <2>6, <2>7
    <2> HIDE DEF k1
    <2>12. ~out.r.threw => out.list = Copies(client, Len(client))
      BY <2>9, <2>10, <2>11, RecordsTaken
    <2> QED BY <2>8, <2>12
  <1> QED BY <1>2, <1>3

TakeHead(bytes) == TakeRecords(TakeText(Take([rest |-> bytes, got |-> <<>>, threw |-> FALSE], 1)))

HeadTaken(out, records, w, k) ==
  /\ k \in Nat /\ Into(out.r, w, k) /\ out.r.threw \in BOOLEAN
  /\ ~out.r.threw => out.list = Copies(records, Len(records))

LEMMA FourJoined ==
  ASSUME NEW a \in ByteStrings, NEW b \in ByteStrings, NEW c \in ByteStrings, NEW d \in ByteStrings,
         NEW w, w = (a \o b) \o (c \o d)
  PROVE  a \o b \in ByteStrings /\ c \o d \in ByteStrings /\ w \in ByteStrings
  <1>1. a \o b \in ByteStrings
    BY BytesJoined
  <1>2. c \o d \in ByteStrings
    BY BytesJoined
  <1>3. (a \o b) \o (c \o d) \in ByteStrings
    BY <1>1, <1>2, BytesJoined
  <1> QED BY <1>1, <1>2, <1>3

\* The number of tables.
OneTable == <<1>>

\* The name and the entries of the table.
LEMMA HeadTakes ==
  ASSUME NEW name \in Seq(1..255), NEW records, FitsRecords(records), NEW f \in ByteStrings,
         NEW w, w = (OneTable \o EncodeText(name)) \o (EncodeRecords(records) \o f), NEW p \in ByteStrings, Len(p) <= Len(w),
         \A i \in 1..Len(p) : p[i] = w[i]
  PROVE  \E k : HeadTaken(TakeHead(p), records, w, k) /\ Lying(f, w, k)
  <1> DEFINE one == 1
             d1 == <<1>>
             d2 == EncodeText(name)
             d3 == EncodeRecords(records)
             r == [rest |-> p, got |-> <<>>, threw |-> FALSE]
             first == Take(r, one)
             text == TakeText(first)
             out == TakeRecords(text)
             k0 == 0
  <1>1. d1 \in ByteStrings /\ Len(d1) = one
    <2>1. 1 \in 0..255
      OBVIOUS
    <2> QED BY <2>1, OneByte
  <1>2. d2 \in ByteStrings
    BY TextBytes DEF ByteStrings
  <1>3. d3 \in ByteStrings
    BY RecordCodesAre
  <1>4. w = (d1 \o d2) \o (d3 \o f)
    BY DEF OneTable
  <1>5. r.threw = FALSE /\ r.rest = p
    OBVIOUS
  <1>6. TakeHead(p) = out
    BY DEF TakeHead
  <1> HIDE DEF d1, d2, d3, one, r
  <1>7. d1 \o d2 \in ByteStrings /\ d3 \o f \in ByteStrings /\ w \in ByteStrings
    BY <1>1, <1>2, <1>3, <1>4, FourJoined
  <1>8. k0 \in Nat /\ Lying((d1 \o d2) \o (d3 \o f), w, k0) /\ Into(r, w, k0)
    <2>1. Len(w) \in Nat /\ Len(p) \in Nat /\ \A n \in Nat : k0 + n = n
      BY <1>7 DEF ByteStrings
    <2>2. Lying(w, w, k0)
      BY <1>7, <2>1 DEF Lying
    <2>3. Into(r, w, k0)
      BY <1>5, <2>1 DEF Into
    <2> QED BY <1>4, <2>2, <2>3
  <1> HIDE DEF k0
  <1>9. Lying(d1 \o d2, w, k0) /\ Lying(d3 \o f, w, k0 + Len(d1 \o d2))
    BY <1>7, <1>8, LyingParts
  <1>10. Lying(d1, w, k0) /\ Lying(d2, w, k0 + Len(d1))
    BY <1>1, <1>2, <1>9, LyingParts
  <1>11. k0 + Len(d1) \in Nat /\ k0 + Len(d1 \o d2) = (k0 + Len(d1)) + Len(d2) /\ Len(d2) \in Nat /\ Len(d3) \in Nat
    <2>1. Len(d1 \o d2) = Len(d1) + Len(d2) /\ Len(d1) \in Nat /\ Len(d2) \in Nat /\ Len(d3) \in Nat
      BY <1>1, <1>2, <1>3, BytesJoined
    <2> QED BY <1>8, <2>1
  <1> DEFINE k1 == k0 + Len(d1)
             k2 == k1 + Len(d2)
             k3 == k2 + Len(d3)
  <1>12. /\ k1 \in Nat /\ k2 \in Nat /\ k3 \in Nat
         /\ Lying(d2, w, k1) /\ Lying(d3, w, k2) /\ Lying(f, w, k3)
    <2>1. Lying(d3 \o f, w, k2)
      BY <1>9, <1>11
    <2>2. Lying(d3, w, k2) /\ Lying(f, w, k3)
      BY <1>3, <2>1, LyingParts
    <2>3. k1 \in Nat /\ k2 \in Nat /\ k3 \in Nat
      BY <1>11
    <2> QED BY <1>10, <2>2, <2>3
  <1>13. first.threw \in BOOLEAN /\ Into(first, w, k1)
    <2>1. r.threw \in BOOLEAN /\ (~r.threw => one = Len(d1))
      BY <1>1, <1>5
    <2>2. Gets(r, first, d1, w, k0) /\ first.threw \in BOOLEAN
      BY <1>8, <1>10, <2>1, TakeGets
    <2> QED BY <2>2, Zenon DEF Gets
  <1> HIDE DEF k1, first
  <1>14. text.threw \in BOOLEAN /\ Into(text, w, k2)
    <2>1. Lying(EncodeText(name), w, k1)
      BY <1>12 DEF d2
    <2>2. Gets(first, text, EncodeText(name), w, k1) /\ text.threw \in BOOLEAN
      BY <1>13, <2>1, TextTaken
    <2>3. Into(text, w, k1 + Len(EncodeText(name)))
      BY <2>2, Zenon DEF Gets
    <2> QED BY <2>2, <2>3 DEF d2
  <1> HIDE DEF k2, text
  <1>15. HeadTaken(out, records, w, k3)
    <2>1. Lying(EncodeRecords(records), w, k2)
      BY <1>12 DEF d3
    <2>2. /\ Gets(text, out.r, EncodeRecords(records), w, k2) /\ out.r.threw \in BOOLEAN
          /\ ~out.r.threw => out.list = Copies(records, Len(records))
      BY <1>12, <1>14, <2>1, RecordsTaken
    <2>3. Into(out.r, w, k2 + Len(EncodeRecords(records)))
      BY <2>2, Zenon DEF Gets
    <2>4. Into(out.r, w, k3)
      BY <2>3 DEF d3
    <2> HIDE DEF k3, out
    <2> QED BY <1>12, <2>2, <2>4 DEF HeadTaken
  <1> QED BY <1>6, <1>12, <1>15, Zenon

TakenAs(parsed, records, client) ==
  ~parsed.threw => /\ parsed.entries = Copies(records, Len(records))
                   /\ parsed.client = Copies(client, Len(client))

\* A snapshot that is read to its end has every record as it was written, however much of it
\* was cut off.
LEMMA SnapshotTaken ==
  ASSUME NEW name \in Seq(1..255), NEW records, FitsRecords(records), NEW client, FitsRecords(client),
         NEW cut \in Nat, NEW all, all = EncodeSnapshot(name, records, client)
  PROVE  TakenAs(ParseSnapshot(SubSeq(all, 1, Len(all) - cut)), records, client)
  <1> DEFINE f == EncodeClient(client)
             head == EncodeText(name)
             body == EncodeRecords(records)
             p == SubSeq(all, 1, Len(all) - cut)
             out == TakeHead(p)
             flag == Take(out.r, 1)
             last == TakeClient(flag)
             parsed == ParseSnapshot(p)
  <1>1. all = (<<1>> \o head) \o (body \o f)
    BY DEF EncodeSnapshot, EncodeClient
  <1>2. parsed = [threw |-> last.r.threw, entries |-> out.list, client |-> last.list]
    BY DEF ParseSnapshot, TakeHead, TakeClient
  <1>3. f \in ByteStrings
    BY ClientBytes
  <1>4. p \in ByteStrings /\ Len(p) <= Len(all) /\ \A i \in 1..Len(p) : p[i] = all[i]
    <2>1. <<1>> \in ByteStrings
      <3>1. 1 \in 0..255
        OBVIOUS
      <3> QED BY <3>1, OneByte
    <2>2. head \in ByteStrings /\ body \in ByteStrings
      BY TextBytes, RecordCodesAre DEF ByteStrings
    <2> DEFINE d == <<1>>
    <2> HIDE DEF d, head, body, f
    <2>3. all \in ByteStrings
      BY <1>1, <1>3, <2>1, <2>2, FourJoined DEF d
    <2> DEFINE S == 0..255
    <2>4. all \in Seq(S)
      BY <2>3 DEF ByteStrings
    <2> HIDE DEF S, p
    <2>5. p = SubSeq(all, 1, Len(all) - cut)
      BY DEF p
    <2>6. p \in Seq(S) /\ Len(p) <= Len(all) /\ \A i \in 1..Len(p) : p[i] = all[i]
      BY <2>4, <2>5, FirstBytes
    <2> QED BY <2>6 DEF S, ByteStrings
  <1> HIDE DEF p, parsed
  <1>5. PICK k : HeadTaken(out, records, all, k) /\ Lying(f, all, k)
    <2>1. all = (OneTable \o EncodeText(name)) \o (EncodeRecords(records) \o f)
      BY <1>1 DEF OneTable
    <2> HIDE DEF f
    <2> QED BY <1>3, <1>4, <2>1, HeadTakes
  <1> HIDE DEF out
  <1>6. ~last.r.threw => ~out.r.threw /\ last.list = Copies(client, Len(client))
    <2>1. k \in Nat /\ out.r.threw \in BOOLEAN /\ Into(out.r, all, k)
      BY <1>5, Zenon DEF HeadTaken
    <2> QED BY <1>5, <2>1, ClientTaken
  <1> HIDE DEF last
  <1>7. ~out.r.threw => out.list = Copies(records, Len(records))
    BY <1>5, Zenon DEF HeadTaken
  <1>8. TakenAs(parsed, records, client)
    BY <1>2, <1>6, <1>7 DEF TakenAs
  <1> QED BY <1>8 DEF parsed, p

EntryForEach(list, m) == m \in Nat /\ DOMAIN list = 1..m /\ \A j \in 1..m : list[j].index = j - 1

LiesAt(out, list, i) == i \in DOMAIN out /\ out[i].key = list[i + 1].key /\ out[i].data = list[i + 1].data

\* A list with an entry for each of the first indices puts each at its own.
LEMMA PutEach ==
  ASSUME NEW tab, NEW m, NEW list, EntryForEach(list, m), NEW i \in 0..m - 1
  PROVE  LiesAt(PutAll(tab, list), list, i)
  <1>0. m \in Nat /\ DOMAIN list = 1..m /\ \A j \in 1..m : list[j].index = j - 1
    BY DEF EntryForEach
  <1> DEFINE out == PutAll(tab, list)
             D == DOMAIN tab \cup {list[k].index : k \in DOMAIN list}
  <1>1. i + 1 \in 1..m /\ i + 1 \in DOMAIN list /\ list[i + 1].index = i
    <2>1. i + 1 \in 1..m /\ (i + 1) - 1 = i
      BY <1>0
    <2> QED BY <1>0, <2>1
  <1>2. i \in D
    BY <1>1
  <1>3. LastAt(list, i) = {i + 1}
    <2>1. \A k \in 1..m : k - 1 = i <=> k = i + 1
      BY <1>0
    <2>2. \A k \in DOMAIN list : list[k].index = i <=> k = i + 1
      BY <1>0, <2>1
    <2>3. ~(i + 1 > i + 1)
      OBVIOUS
    <2> QED BY <1>1, <2>2, <2>3 DEF LastAt
  <1>4. out[i] = PutAt(tab, list, i) /\ DOMAIN out = D
    BY <1>2, PutAllIs
  <1>5. PutAt(tab, list, i) = [key |-> list[i + 1].key, data |-> list[i + 1].data]
    <2> DEFINE at == LastAt(list, i)
    <2>1. at = {i + 1}
      BY <1>3
    <2>2. PutAt(tab, list, i) = IF at = {} THEN tab[i]
                                ELSE LET e == list[CHOOSE k \in at : TRUE] IN [key |-> e.key, data |-> e.data]
      BY DEF PutAt
    <2>3. at # {}
      BY <2>1
    <2>4. (CHOOSE k \in at : TRUE) = i + 1
      BY <2>1
    <2> HIDE DEF at
    <2> QED BY <2>2, <2>3, <2>4
  <1> HIDE DEF out, D
  <1> QED BY <1>2, <1>4, <1>5 DEF LiesAt, out

LEMMA SomeDataKept ==
  ASSUME NEW x, NEW d, d = SomeData(x), NEW y, y = IF d = <<>> THEN NoValue ELSE d
  PROVE  SomeData(y) = d
  BY DEF SomeData

\* The entry that is merged for a record.
MergedEntry(all, i) ==
  [index |-> i - 1, key |-> all[i].key, data |-> IF all[i].data = <<>> THEN NoValue ELSE all[i].data]

RecordsOf(f, n) == [i \in 1..n |-> [key |-> f[i - 1].key, data |-> SomeData(f[i - 1].data)]]

LEMMA CopiesAre ==
  ASSUME NEW f, NEW n \in Nat, NEW c, c = Copies(RecordsOf(f, n), n)
  PROVE  /\ c \in Seq(Range(c)) /\ Len(c) = n
         /\ \A i \in 0..n - 1 : c[i + 1].key = f[i].key /\ c[i + 1].data = SomeData(f[i].data)
  <1> DEFINE r == RecordsOf(f, n)
  <1>1. \A j \in 1..n : r[j].key = f[j - 1].key /\ r[j].data = SomeData(f[j - 1].data)
    BY DEF RecordsOf
  <1> HIDE DEF r
  <1>2. c = [j \in 1..n |-> Copy(r[j])]
    BY DEF Copies, r
  <1>3. Len(c) = n /\ DOMAIN c = 1..n
    BY <1>2
  <1>4. \A j \in 1..n : c[j].key = r[j].key /\ c[j].data = r[j].data
    BY <1>2 DEF Copy
  <1>5. c \in Seq(Range(c))
    <2>1. c \in [1..n -> Range(c)]
      BY <1>2, <1>3 DEF Range
    <2> QED BY <2>1
  <1>6. \A i \in 0..n - 1 : i + 1 \in 1..n /\ (i + 1) - 1 = i
    OBVIOUS
  <1> QED BY <1>1, <1>3, <1>4, <1>5, <1>6

LEMMA JoinedFirst ==
  ASSUME NEW S, NEW a \in Seq(S), NEW T, NEW b \in Seq(T), NEW n, n = Len(a)
  PROVE  /\ Len(a \o b) \in Nat /\ n \in Nat /\ n <= Len(a \o b)
         /\ \A j \in 1..n : (a \o b)[j] = a[j]
  OBVIOUS

\* What a snapshot of the server's entries leaves in the table.
LEMMA MergedShows ==
  ASSUME NEW f, NEW n \in Nat, DOMAIN f = 0..n - 1, NEW max \in Nat, NEW client, NEW m \in Nat, NEW parsed,
         parsed.entries = Copies(RecordsOf(f, n), n), parsed.client = Copies(client, m), NEW tab
  PROVE  ShowsEntries(Merged(tab, max, parsed), f, max)
  <1> DEFINE c == Copies(RecordsOf(f, n), n)
             d == Copies(client, m)
             all == c \o d
             k == IF Len(all) < max THEN Len(all) ELSE max
             list == [i \in 1..k |-> MergedEntry(all, i)]
             out == Merged(tab, max, parsed)
  <1>1. out = PutAll(tab, list)
    BY DEF Merged, MergedEntry
  <1>2. /\ c \in Seq(Range(c)) /\ Len(c) = n
        /\ \A i \in 0..n - 1 : c[i + 1].key = f[i].key /\ c[i + 1].data = SomeData(f[i].data)
    BY CopiesAre
  <1>3. d \in Seq({Copy(client[i]) : i \in Nat})
    BY CopiesMore
  <1> HIDE DEF c, d
  <1>4. Len(all) \in Nat /\ n <= Len(all) /\ \A j \in 1..n : all[j] = c[j]
    <2>1. n = Len(c)
      BY <1>2
    <2> QED BY <1>2, <1>3, <2>1, JoinedFirst
  <1> HIDE DEF all, out
  <1>5. k \in Nat /\ DOMAIN list = 1..k /\ \A i \in 0..n - 1 : i < max => i \in 0..k - 1 /\ i + 1 \in 1..k /\ i + 1 \in 1..n
    BY <1>4
  <1> HIDE DEF k
  <1>6. \A j \in 1..k : /\ list[j].index = j - 1 /\ list[j].key = all[j].key
                        /\ list[j].data = IF all[j].data = <<>> THEN NoValue ELSE all[j].data
    BY DEF MergedEntry
  <1> HIDE DEF list
  <1>8. \A j \in 1..k : list[j].index = j - 1
    BY <1>6
  <1>7. ASSUME NEW i \in DOMAIN f, i < max
        PROVE  i \in DOMAIN out /\ out[i].key = f[i].key /\ SomeData(out[i].data) = SomeData(f[i].data)
    <2>1. i \in 0..n - 1 /\ i \in 0..k - 1 /\ i + 1 \in 1..k /\ i + 1 \in 1..n
      BY <1>5, <1>7
    <2>2. i \in DOMAIN out /\ out[i].key = list[i + 1].key /\ out[i].data = list[i + 1].data
      <3>1. EntryForEach(list, k) /\ i \in 0..k - 1
        BY <1>5, <1>8, <2>1 DEF EntryForEach
      <3>2. LiesAt(PutAll(tab, list), list, i)
        BY <3>1, PutEach
      <3> QED BY <1>1, <3>2 DEF LiesAt
    <2>3. all[i + 1] = c[i + 1] /\ c[i + 1].key = f[i].key /\ c[i + 1].data = SomeData(f[i].data)
      BY <1>2, <1>4, <2>1
    <2> DEFINE x == f[i].data
               y == SomeData(x)
    <2>4. out[i].key = f[i].key /\ out[i].data = IF y = <<>> THEN NoValue ELSE y
      BY <1>6, <2>1, <2>2, <2>3
    <2>5. SomeData(out[i].data) = y
      BY <2>4, SomeDataKept
    <2> QED BY <2>2, <2>4, <2>5
  <1> QED
    <2>1. ShowsEntries(out, f, max)
      <3> HIDE DEF out
      <3> QED BY <1>7, Zenon DEF ShowsEntries
    <2> QED BY <2>1 DEF out

-----------------------------------------------------------------------------
(* The inductive invariant of a string table's wire forms. *)

\* No message is being read: the table shows the server's entries.
RestedAt(tab, max, srv, h) ==
  h.entries = <<>> /\ h.read = 0 /\ h.before = srv.entries /\ ShowsEntries(tab, srv.entries, max)

\* The parser holds what the server held, at the entry it reads.
Following(max, fixed, tab, ring, rd, last, srv, h) ==
  \/ RestedAt(tab, max, srv, h) /\ ring = srv.history
  \/ \E side, es : InStep(side, es, max, fixed, tab, ring, rd, last, srv, h)

LEMMA InStepLength ==
  ASSUME NEW side, NEW es, NEW max, NEW fixed, NEW tab, NEW ring, NEW rd, NEW last, NEW srv, NEW h,
         InStep(side, es, max, fixed, tab, ring, rd, last, srv, h)
  PROVE  Len(h.entries) = Len(es) /\ Len(es) \in Nat /\ DOMAIN es = 1..Len(es) /\ h.read \in 0..Len(es)
  <1>1. Fitting(side, es, max, fixed) /\ h.entries = ResolvedAll(side, es) /\ h.read \in 0..Len(es)
    BY Zenon DEF InStep
  <1>2. Len(es) \in Nat /\ DOMAIN es = 1..Len(es)
    BY <1>1, FittingLength
  <1>3. Len(h.entries) = Len(es)
    BY <1>1, <1>2, ResolvedList
  <1> QED BY <1>1, <1>2, <1>3

\* Once the message is read, the ring and the table are those of the server.
LEMMA LevelAgain ==
  ASSUME NEW max, NEW fixed, NEW tab, NEW ring, NEW rd, NEW last, NEW srv, NEW h,
         Following(max, fixed, tab, ring, rd, last, srv, h), ~(h.read < Len(h.entries))
  PROVE  ring = srv.history /\ ShowsEntries(tab, srv.entries, max)
  <1>1. CASE RestedAt(tab, max, srv, h) /\ ring = srv.history
    BY <1>1 DEF RestedAt
  <1>2. ASSUME NEW side, NEW es, InStep(side, es, max, fixed, tab, ring, rd, last, srv, h)
        PROVE  ring = srv.history /\ ShowsEntries(tab, srv.entries, max)
    <2>1. Len(h.entries) = Len(es) /\ Len(es) \in Nat /\ h.read \in 0..Len(es)
      BY <1>2, InStepLength
    <2>2. h.read = Len(es)
      BY <2>1
    <2>3. /\ srv = Sides(side, es)[Len(es)] /\ ring = Sides(side, es)[h.read].history
          /\ ShowsEntries(tab, Sides(side, es)[h.read].entries, max)
      BY <1>2, Zenon DEF InStep
    <2> QED BY <2>2, <2>3
  <1> QED BY <1>1, <1>2 DEF Following

LEMMA RestedShown ==
  ASSUME NEW max, NEW tab, NEW srv, NEW h, RestedAt(tab, max, srv, h)
  PROVE  ShowsEntries(tab, PutAll(h.before, SubSeq(h.entries, 1, h.read)), max)
  <1>1. h.entries = <<>> /\ h.read = 0 /\ h.before = srv.entries /\ ShowsEntries(tab, srv.entries, max)
    BY DEF RestedAt
  <1> DEFINE l == SubSeq(h.entries, 1, h.read)
  <1>2. DOMAIN l = {}
    BY <1>1
  <1> HIDE DEF l
  <1>3. Same(PutAll(h.before, l), srv.entries)
    BY <1>1, <1>2, PutAllNone
  <1>4. ShowsEntries(tab, PutAll(h.before, l), max)
    BY <1>1, <1>3, ShowsSame
  <1> QED BY <1>4 DEF l

\* The table shows what the server's entries were up to the one it reads.
LEMMA FollowingShown ==
  ASSUME NEW max, NEW fixed, NEW tab, NEW ring, NEW rd, NEW last, NEW srv, NEW h,
         Following(max, fixed, tab, ring, rd, last, srv, h)
  PROVE  ShowsEntries(tab, PutAll(h.before, SubSeq(h.entries, 1, h.read)), max)
  <1>1. CASE RestedAt(tab, max, srv, h)
    BY <1>1, RestedShown
  <1>2. ASSUME NEW side, NEW es, InStep(side, es, max, fixed, tab, ring, rd, last, srv, h)
        PROVE  ShowsEntries(tab, PutAll(h.before, SubSeq(h.entries, 1, h.read)), max)
    <2>1. Len(es) \in Nat /\ DOMAIN es = 1..Len(es) /\ h.read \in 0..Len(es)
      BY <1>2, InStepLength
    <2>2. /\ h.before = side.entries /\ h.entries = ResolvedAll(side, es)
          /\ ShowsEntries(tab, Sides(side, es)[h.read].entries, max)
      BY <1>2, Zenon DEF InStep
    <2>3. Same(PutAll(side.entries, SubSeq(h.entries, 1, h.read)), Sides(side, es)[h.read].entries)
      BY <2>1, <2>2, PutAllSides
    <2>4. ShowsEntries(tab, PutAll(side.entries, SubSeq(h.entries, 1, h.read)), max)
      BY <2>2, <2>3, ShowsSame
    <2> QED BY <2>2, <2>4
  <1> QED BY <1>1, <1>2 DEF Following

TableShape(tab) == tab = [created |-> tab.created, max |-> tab.max, fixed |-> tab.fixed, entries |-> tab.entries]

HandledShape(h) == h = [entries |-> h.entries, before |-> h.before, read |-> h.read]

StringShapes ==
  /\ TableShape(table) /\ HandledShape(handled)
  /\ table.created \in BOOLEAN /\ behind \in BOOLEAN /\ restored \in BOOLEAN
  /\ table.created => table.max \in Nat

NothingSent ==
  /\ handled.entries = <<>> /\ handled.read = 0 /\ ~behind /\ ~restored
  /\ DOMAIN server.entries = {} /\ server.history = <<>>

TableFollows == Following(table.max, table.fixed, table.entries, history, stream, lastIndex, server, handled)

StringInv ==
  /\ StringShapes
  /\ SoundSide(server)
  /\ ~table.created => NothingSent
  /\ table.created /\ restored => RestedAt(table.entries, table.max, server, handled)
  /\ table.created /\ ~behind /\ RingsAlike => TableFollows

LEMMA StringInvHolds == StringInv => EntriesAsSent
  <1> SUFFICES ASSUME StringInv, table.created, (~behind /\ RingsAlike) \/ restored
               PROVE  EntriesShown
    BY DEF EntriesAsSent
  <1>1. CASE ~behind /\ RingsAlike
    <2>1. Following(table.max, table.fixed, table.entries, history, stream, lastIndex, server, handled)
      BY <1>1 DEF StringInv, TableFollows
    <2>2. ShowsEntries(table.entries, Expected, table.max)
      BY <2>1, FollowingShown, Zenon DEF Expected
    <2> QED BY <2>2 DEF ShowsEntries, EntriesShown
  <1>2. CASE restored
    <2>1. RestedAt(table.entries, table.max, server, handled)
      BY <1>2 DEF StringInv
    <2>2. ShowsEntries(table.entries, Expected, table.max)
      BY <2>1, RestedShown, Zenon DEF Expected
    <2> QED BY <2>2 DEF ShowsEntries, EntriesShown
  <1> QED BY <1>1, <1>2

LEMMA EmptySound ==
  ASSUME NEW side, DOMAIN side.entries = {}, side.history = <<>>
  PROVE  SoundSide(side)
  <1>1. RingOf(side.history)
    <2>1. side.history \in Seq(Seq(1..255)) /\ Len(side.history) = 0
      OBVIOUS
    <2> QED BY <2>1, HistorySizes DEF RingOf
  <1>2. SoundEntries(side.entries, 0)
    <2>1. 0 \in 0..MaxCount
      BY DEF MaxCount
    <2>2. 0..0 - 1 = {}
      OBVIOUS
    <2> QED BY <2>1, <2>2 DEF SoundEntries
  <1>3. 0 \in 0..MaxCount
    BY DEF MaxCount
  <1> QED BY <1>1, <1>2, <1>3 DEF SoundSide

LEMMA StringInvInit == InitStrings => StringInv
  <1> SUFFICES ASSUME InitStrings PROVE StringInv
    OBVIOUS
  <1>1. table = [created |-> FALSE, max |-> 0, fixed |-> NoValue, entries |-> <<>>]
    BY DEF InitStrings
  <1>2. handled = [entries |-> <<>>, before |-> <<>>, read |-> 0] /\ behind = FALSE /\ restored = FALSE
    BY DEF InitStrings
  <1>3. server = [entries |-> <<>>, history |-> <<>>]
    BY DEF InitStrings
  <1>4. ~table.created /\ table.created \in BOOLEAN /\ TableShape(table)
    BY <1>1 DEF TableShape
  <1>5. HandledShape(handled) /\ handled.entries = <<>> /\ handled.read = 0
    BY <1>2 DEF HandledShape
  <1>6. DOMAIN server.entries = {} /\ server.history = <<>>
    BY <1>3
  <1>7. SoundSide(server)
    BY <1>6, EmptySound
  <1> QED BY <1>2, <1>4, <1>5, <1>6, <1>7 DEF StringInv, StringShapes, NothingSent

LEMMA WritesSound ==
  ASSUME SoundSide(server), NEW message, NEW max, NEW fixed, Writes(message, max, fixed)
  PROVE  /\ SoundSide(server') /\ HandledShape(handled') /\ lastIndex' = -1 /\ max \in Nat
         /\ Fitting(server, message.entries, max, fixed)
  <1> DEFINE es == message.entries
  <1>1. /\ FitsMessage(server, message, max, fixed) /\ lastIndex' = -1
        /\ server' = Sides(server, es)[Len(es)]
        /\ handled' = [entries |-> ResolvedAll(server, es), before |-> server.entries, read |-> 0]
    BY DEF Writes, ResolvedAll
  <1>2. Fitting(server, es, max, fixed) /\ max \in Nat
    BY <1>1 DEF FitsMessage, Fitting
  <1>3. HandledShape(handled')
    BY <1>1 DEF HandledShape
  <1>4. Len(es) \in Nat
    BY <1>2, FittingLength
  <1>5. Len(es) \in 0..Len(es)
    BY <1>4
  <1>6. SoundSide(server')
    BY <1>1, <1>2, <1>5, SidesSound
  <1> QED BY <1>1, <1>2, <1>3, <1>6

\* After a message begins, a table that showed the server's entries still follows it.
LEMMA WritesFollows ==
  ASSUME SoundSide(server), NEW message, NEW max, NEW fixed, Writes(message, max, fixed),
         NEW tab, ShowsEntries(tab, server.entries, max)
  PROVE  Following(max, fixed, tab, server.history, stream', lastIndex', server', handled')
  <1> DEFINE es == message.entries
             bits == Whole(<<0>> \o EncodeEntries(server, es, max, fixed), message.cut)
  <1>1. Fitting(server, es, max, fixed) /\ lastIndex' = -1
    BY WritesSound
  <1>2. message.cut \in Nat
    BY DEF Writes, FitsMessage
  <1>3. stream' = Throwing(Reader(<<>>)) \/ (bits # <<>> /\ stream' = ReadBit(Reader(bits)))
    BY DEF Writes
  <1>4. /\ handled' = [entries |-> ResolvedAll(server, es), before |-> server.entries, read |-> 0]
        /\ server' = Sides(server, es)[Len(es)]
    BY DEF Writes, ResolvedAll
  <1>5. handled'.before = server.entries /\ handled'.entries = ResolvedAll(server, es) /\ handled'.read = 0
    BY <1>4
  <1> HIDE DEF es
  <1>6. InStep(server, es, max, fixed, tab, server.history, stream', -1, server', handled')
    <2> DEFINE srv == server'
               h == handled'
               rd == stream'
               cut == message.cut
    <2>1. cut \in Nat /\ bits = Whole(NoDictionary \o EncodeEntries(server, es, max, fixed), cut)
      BY <1>2 DEF NoDictionary
    <2>2. rd = Throwing(Reader(<<>>)) \/ (bits # <<>> /\ rd = ReadBit(Reader(bits)))
      BY <1>3
    <2>3. h.before = server.entries /\ h.entries = ResolvedAll(server, es) /\ h.read = 0 /\ srv = Sides(server, es)[Len(es)]
      BY <1>4, <1>5
    <2> HIDE DEF bits, srv, h, rd, cut
    <2>4. InStep(server, es, max, fixed, tab, server.history, rd, -1, srv, h)
      BY <1>1, <2>1, <2>2, <2>3, WritesInStep
    <2> QED BY <2>4 DEF srv, h, rd
  <1> QED BY <1>1, <1>6, Zenon DEF Following

LEMMA StringInvCreates ==
  ASSUME StringInv, CreateStrings
  PROVE  StringInv'
  <1>1. PICK message \in Creates :
          /\ Writes(message, message.max, message.fixed)
          /\ table' = [created |-> TRUE, max |-> message.max, fixed |-> message.fixed, entries |-> <<>>]
    BY DEF CreateStrings
  <1>2. SoundSide(server) /\ NothingSent
    BY DEF StringInv, CreateStrings
  <1>3. SoundSide(server') /\ HandledShape(handled') /\ message.max \in Nat
    BY <1>1, <1>2, WritesSound
  <1>4. /\ table'.created = TRUE /\ table'.max = message.max /\ table'.fixed = message.fixed /\ table'.entries = <<>>
        /\ TableShape(table')
    BY <1>1 DEF TableShape
  <1>5. history' = server.history
    BY <1>2 DEF CreateStrings, NothingSent
  <1>6. behind' \in BOOLEAN /\ restored' = FALSE
    BY <1>1 DEF Writes
  <1> DEFINE tab == table'.entries
  <1>7. ShowsEntries(tab, server.entries, message.max)
    BY <1>2 DEF ShowsEntries, NothingSent
  <1> HIDE DEF tab
  <1>8. Following(message.max, message.fixed, tab, server.history, stream', lastIndex', server', handled')
    BY <1>1, <1>2, <1>7, WritesFollows
  <1>9. TableFollows'
    BY <1>4, <1>5, <1>8, Zenon DEF TableFollows, tab
  <1> QED BY <1>3, <1>4, <1>6, <1>9 DEF StringInv, StringShapes

\* Rings that are alike after a message begins were so before it.
LEMMA AlikeBefore ==
  ASSUME SoundSide(server), NEW message, NEW max, NEW fixed, Writes(message, max, fixed), RingsAlike'
  PROVE  RingsAlike
  <1> DEFINE es == message.entries
             a == Sides(server, es)
             h == server.history
             w == a[Len(es)].history
  <1>1. Fitting(server, es, max, fixed)
    BY WritesSound
  <1>2. server'.history = w
    BY DEF Writes
  <1>3. Len(es) \in Nat
    BY <1>1, FittingLength
  <1>4. a[0] = server
    BY <1>3, SidesStep
  <1>5. 0 \in 0..Len(es)
    BY <1>3
  <1> HIDE DEF a, es
  <1>6. /\ Len(a[0].history) \in Nat /\ Len(w) \in Nat /\ Len(a[0].history) <= Len(w)
    BY <1>1, <1>5, SidesLonger DEF a
  <1>7. Len(h) \in Nat /\ Len(w) \in Nat /\ Len(h) <= Len(w)
    BY <1>4, <1>6
  <1>8. ServerHistory = HistorySize \/ (Len(w) < ServerHistory /\ Len(w) <= HistorySize)
    BY <1>2 DEF RingsAlike
  <1> HIDE DEF h, w
  <1>9. ServerHistory = HistorySize \/ (Len(h) < ServerHistory /\ Len(h) <= HistorySize)
    BY <1>7, <1>8, HistorySizes
  <1> QED BY <1>9 DEF RingsAlike, h

LEMMA StringInvUpdates ==
  ASSUME StringInv, UpdateStrings
  PROVE  StringInv'
  <1>1. PICK message : Writes(message, table.max, table.fixed)
    BY DEF UpdateStrings
  <1>2. SoundSide(server) /\ table.created /\ table' = table /\ history' = history /\ TableShape(table)
        /\ table.created \in BOOLEAN /\ table.max \in Nat /\ behind \in BOOLEAN
    BY DEF StringInv, StringShapes, UpdateStrings
  <1>3. SoundSide(server') /\ HandledShape(handled')
    BY <1>1, <1>2, WritesSound
  <1>4. behind' = (behind \/ Unread) /\ restored' = FALSE
    BY <1>1 DEF Writes
  <1>5. ASSUME ~behind', RingsAlike' PROVE TableFollows'
    <2>1. ~behind /\ ~(handled.read < Len(handled.entries))
      BY <1>4, <1>5 DEF Unread
    <2>2. RingsAlike
      BY <1>1, <1>2, <1>5, AlikeBefore
    <2>3. Following(table.max, table.fixed, table.entries, history, stream, lastIndex, server, handled)
      BY <1>2, <2>1, <2>2 DEF StringInv, TableFollows
    <2>4. history = server.history /\ ShowsEntries(table.entries, server.entries, table.max)
      BY <2>1, <2>3, LevelAgain
    <2> DEFINE tab == table.entries
    <2>5. ShowsEntries(tab, server.entries, table.max)
      BY <2>4
    <2> HIDE DEF tab
    <2>6. Following(table.max, table.fixed, tab, server.history, stream', lastIndex', server', handled')
      BY <1>1, <1>2, <2>5, WritesFollows
    <2> QED BY <1>2, <2>4, <2>6, Zenon DEF TableFollows, tab
  <1>6. behind' \in BOOLEAN
    BY <1>2, <1>4
  <1>7. StringShapes'
    BY <1>2, <1>3, <1>4, <1>6 DEF StringShapes
  <1> QED BY <1>2, <1>3, <1>4, <1>5, <1>7 DEF StringInv

LEMMA CountNat == ASSUME NEW i, i \in 0..MaxCount - 1 PROVE i \in Nat
  BY DEF MaxCount

\* One turn of the loop keeps up with the server.
LEMMA StringInvReads ==
  ASSUME StringInv, ReadStringEntry
  PROVE  StringInv'
  <1>1. PICK place, key, data :
          /\ place = ReadEntryIndex(stream, lastIndex, table.max)
          /\ key = ReadKey(place, history) /\ data = ReadUserData(key, table.fixed)
          /\ IF data.threw \/ place.value >= table.max
               THEN /\ stream' = Throwing(data)
                    /\ UNCHANGED <<table, history, lastIndex, handled>>
               ELSE /\ stream' = data
                    /\ SetsEntry(place.value,
                                 IF key.value = NoValue THEN KeyAt(table.entries, place.value) ELSE key.value,
                                 data.value)
    BY DEF ReadStringEntry
  <1> DEFINE name == IF key.value = NoValue THEN KeyAt(table.entries, place.value) ELSE key.value
             t == Put(table.entries, [index |-> place.value, key |-> name, data |-> data.value])
             throws == data.threw \/ place.value >= table.max
  <1>2. /\ TableShape(table) /\ HandledShape(handled) /\ table.created \in BOOLEAN /\ behind \in BOOLEAN
        /\ restored \in BOOLEAN /\ (table.created => table.max \in Nat) /\ SoundSide(server)
    BY DEF StringInv, StringShapes
  <1>3. handled.read < Len(handled.entries) /\ ~stream.threw /\ server' = server /\ behind' = behind /\ restored' = restored
    BY DEF ReadStringEntry, Unread
  <1>4. table.created /\ ~restored
    <2>1. ~(handled.entries = <<>> /\ handled.read = 0)
      BY <1>3
    <2> QED BY <2>1 DEF StringInv, NothingSent, RestedAt
  <1>5. ~throws => /\ table' = [table EXCEPT !.entries = t] /\ history' = Remember(history, name)
                   /\ lastIndex' = place.value /\ handled' = [handled EXCEPT !.read = @ + 1] /\ stream' = data
    BY <1>1 DEF SetsEntry
  <1>6. throws => stream' = Throwing(data) /\ table' = table /\ history' = history /\ lastIndex' = lastIndex /\ handled' = handled
    BY <1>1
  <1> HIDE DEF throws, t, name
  <1>7. ~throws => /\ table'.created = table.created /\ table'.max = table.max /\ table'.fixed = table.fixed
                   /\ table'.entries = t /\ TableShape(table')
    BY <1>2, <1>5 DEF TableShape
  <1>8. ~throws => /\ handled'.before = handled.before /\ handled'.entries = handled.entries
                   /\ handled'.read = handled.read + 1 /\ HandledShape(handled')
    BY <1>2, <1>5 DEF HandledShape
  <1>9. ASSUME ~behind, RingsAlike PROVE TableFollows'
    <2>1. Following(table.max, table.fixed, table.entries, history, stream, lastIndex, server, handled)
      BY <1>4, <1>9 DEF StringInv, TableFollows
    <2>2. ~RestedAt(table.entries, table.max, server, handled)
      <3>1. ~(handled.entries = <<>> /\ handled.read = 0)
        BY <1>3
      <3> QED BY <3>1 DEF RestedAt
    <2>3. PICK side, es : InStep(side, es, table.max, table.fixed, table.entries, history, stream, lastIndex, server, handled)
      BY <2>1, <2>2 DEF Following
    <2>4. handled.read < Len(es) /\ handled.read \in 0..Len(es) /\ Len(es) \in Nat
      BY <1>3, <2>3, InStepLength
    <2>5. CASE throws
      <3> DEFINE out == Throwing(data)
      <3>1. out.threw
        BY DEF Throwing
      <3> HIDE DEF out
      <3>2. InStep(side, es, table.max, table.fixed, table.entries, history, out, lastIndex, server, handled)
        BY <2>3, <3>1, ThrowsInStep
      <3>3. Following(table.max, table.fixed, table.entries, history, out, lastIndex, server, handled)
        BY <3>2, Zenon DEF Following
      <3> QED BY <1>3, <1>6, <2>5, <3>3, Zenon DEF TableFollows, out
    <2>6. CASE ~throws
      <3> DEFINE g == handled'
                 n == place.value
      <3>1. ~data.threw /\ place.value < table.max
        <4>1. ~data.threw /\ ~(place.value >= table.max)
          BY <2>6 DEF throws
        <4> DEFINE k == handled.read
                   e == es[k + 1]
        <4>2. place.value = e.index
          BY <1>1, <1>3, <2>3, <2>4, <4>1, EntryTaken
        <4>3. e.index \in Nat
          <5>1. Fitting(side, es, table.max, table.fixed)
            BY <2>3, Zenon DEF InStep
          <5>2. k + 1 \in DOMAIN es
            BY <2>4, <5>1, FittingLength
          <5>3. e.index \in 0..MaxCount - 1
            BY <5>1, <5>2, Zenon DEF Fitting, FitsEntry
          <5> HIDE DEF e
          <5> QED BY <5>3, CountNat
        <4> HIDE DEF e
        <4> QED BY <1>2, <1>4, <4>1, <4>2, <4>3
      <3>2. g.before = handled.before /\ g.entries = handled.entries /\ g.read = handled.read + 1
        BY <1>8, <2>6
      <3> HIDE DEF g
      <3>3. InStep(side, es, table.max, table.fixed, t, Remember(history, name), data, place.value, server, g)
        <4>1. AlikeAt(server.history)
          BY <1>9 DEF RingsAlike, AlikeAt
        <4> QED BY <1>1, <1>3, <2>3, <2>4, <3>1, <3>2, <4>1, ReadInStep DEF t, name
      <3>4. Following(table.max, table.fixed, t, Remember(history, name), data, place.value, server, g)
        BY <3>3, Zenon DEF Following
      <3> QED BY <1>3, <1>5, <1>7, <2>6, <3>4, Zenon DEF TableFollows, g
    <2> QED BY <2>5, <2>6
  <1>10. StringShapes'
    <2>1. CASE throws
      BY <1>2, <1>3, <1>6, <2>1 DEF StringShapes
    <2>2. CASE ~throws
      BY <1>2, <1>3, <1>7, <1>8, <2>2 DEF StringShapes
    <2> QED BY <2>1, <2>2
  <1>11. table'.created
    BY <1>4, <1>6, <1>7
  <1>12. RingsAlike' = RingsAlike
    BY <1>3 DEF RingsAlike
  <1> QED BY <1>2, <1>3, <1>4, <1>9, <1>10, <1>11, <1>12 DEF StringInv

LEMMA CountBounds ==
  ASSUME NEW i
  PROVE  (i \in 0..MaxCount => i \in Nat) /\ (i \in Nat /\ i <= MaxCount => i \in 0..MaxCount)
  <1>1. MaxCount \in Nat
    BY DEF MaxCount
  <1> QED BY <1>1

LEMMA RecordsFit ==
  ASSUME NEW f, NEW n, SoundEntries(f, n)
  PROVE  FitsRecords(RecordsOf(f, n)) /\ n \in Nat /\ Len(RecordsOf(f, n)) = n /\ Cardinality(DOMAIN f) = n
  <1> DEFINE r == RecordsOf(f, n)
  <1>1. /\ n \in 0..MaxCount /\ DOMAIN f = 0..n - 1
        /\ \A i \in 0..n - 1 : FitsRecord([key |-> f[i].key, data |-> SomeData(f[i].data)])
    BY DEF SoundEntries
  <1>2. n \in Nat
    BY <1>1, CountBounds
  <1>3. Cardinality(DOMAIN f) = n
    BY <1>1, <1>2, NextIndex
  <1>4. r = [i \in 1..n |-> [key |-> f[i - 1].key, data |-> SomeData(f[i - 1].data)]]
    BY DEF RecordsOf
  <1>5. Len(r) = n /\ DOMAIN r = 1..n
    BY <1>2, <1>4
  <1>6. ASSUME NEW i \in 1..n PROVE FitsRecord(r[i])
    <2> DEFINE k == i - 1
    <2>1. k \in 0..n - 1
      BY <1>2
    <2>2. r[i] = [key |-> f[k].key, data |-> SomeData(f[k].data)]
      BY <1>4
    <2> HIDE DEF k, r
    <2>3. FitsRecord([key |-> f[k].key, data |-> SomeData(f[k].data)])
      BY <1>1, <2>1
    <2> QED BY <2>2, <2>3, Zenon
  <1> HIDE DEF r
  <1>7. FitsRecords(r)
    BY <1>1, <1>5, <1>6 DEF FitsRecords
  <1> QED BY <1>2, <1>3, <1>5, <1>7 DEF r

LEMMA ClientFits ==
  ASSUME NEW s \in Snapshots
  PROVE  FitsRecords(s.client) /\ s.cut \in Nat /\ Len(s.client) \in Nat
  <1> DEFINE c == s.client
  <1>1. /\ s.cut \in Nat /\ c \in Seq(Range(c)) /\ Len(c) <= MaxCount
        /\ \A record \in Range(c) : FitsRecord(record)
    BY SnapshotsAssumption
  <1> HIDE DEF c
  <1>2. Len(c) \in Nat /\ DOMAIN c = 1..Len(c)
    BY <1>1
  <1>3. \A i \in 1..Len(c) : c[i] \in Range(c)
    BY <1>2 DEF Range
  <1>4. Len(c) \in 0..MaxCount
    BY <1>1, <1>2, CountBounds
  <1>5. FitsRecords(c)
    BY <1>1, <1>2, <1>3, <1>4 DEF FitsRecords
  <1> QED BY <1>1, <1>2, <1>5 DEF c

SnapshotName == <<116>>

\* What a snapshot of the server leaves in a table, when it is read to its end.
LEMMA SnapshotShows ==
  ASSUME SoundSide(server), NEW s \in Snapshots, NEW tab, NEW max \in Nat,
         NEW all, all = EncodeSnapshot(SnapshotName, ServerRecords, s.client),
         NEW parsed, parsed = ParseSnapshot(SubSeq(all, 1, Len(all) - s.cut)), ~parsed.threw
  PROVE  ShowsEntries(Merged(tab, max, parsed), server.entries, max)
  <1> DEFINE f == server.entries
             client == s.client
             cut == s.cut
             name == SnapshotName
  <1>1. PICK n : SoundEntries(f, n)
    BY DEF SoundSide
  <1>2. FitsRecords(RecordsOf(f, n)) /\ n \in Nat /\ Len(RecordsOf(f, n)) = n /\ Cardinality(DOMAIN f) = n
    BY <1>1, RecordsFit
  <1>3. ServerRecords = RecordsOf(f, n)
    BY <1>2 DEF ServerRecords, RecordsOf
  <1>4. FitsRecords(client) /\ cut \in Nat /\ Len(client) \in Nat
    BY ClientFits
  <1>5. name \in Seq(1..255)
    <2>1. 116 \in 1..255
      OBVIOUS
    <2> QED BY <2>1 DEF SnapshotName
  <1>6. DOMAIN f = 0..n - 1
    BY <1>1 DEF SoundEntries
  <1> DEFINE recs == RecordsOf(f, n)
             m == Len(client)
  <1>7. all = EncodeSnapshot(name, recs, client) /\ parsed = ParseSnapshot(SubSeq(all, 1, Len(all) - cut))
    BY <1>3
  <1> HIDE DEF name, client, cut, f, recs
  <1>8. TakenAs(parsed, recs, client)
    BY <1>2, <1>4, <1>5, <1>7, SnapshotTaken DEF recs
  <1>9. parsed.entries = Copies(RecordsOf(f, n), n) /\ parsed.client = Copies(client, m)
    BY <1>2, <1>8 DEF TakenAs, recs
  <1> HIDE DEF m
  <1>10. ShowsEntries(Merged(tab, max, parsed), f, max)
    <2>1. m \in Nat
      BY <1>4 DEF m
    <2> QED BY <1>2, <1>6, <1>9, <2>1, MergedShows
  <1> QED BY <1>10 DEF f

LEMMA StringInvSnapshots ==
  ASSUME StringInv, SnapshotStrings
  PROVE  StringInv'
  <1>1. PICK s \in Snapshots :
          LET all == EncodeSnapshot(<<116>>, ServerRecords, s.client)
          IN \E parsed \in {ParseSnapshot(SubSeq(all, 1, Len(all) - s.cut))} :
               /\ table' = IF parsed.threw THEN table
                           ELSE [table EXCEPT !.entries = Merged(@, table.max, parsed)]
               /\ restored' = (restored \/ ~parsed.threw)
    BY DEF SnapshotStrings
  <1> DEFINE all == EncodeSnapshot(<<116>>, ServerRecords, s.client)
             parsed == ParseSnapshot(SubSeq(all, 1, Len(all) - s.cut))
             merged == Merged(table.entries, table.max, parsed)
  <1>2. /\ table' = IF parsed.threw THEN table ELSE [table EXCEPT !.entries = merged]
        /\ restored' = (restored \/ ~parsed.threw)
    BY <1>1
  <1>3. /\ handled' = [entries |-> <<>>, before |-> server.entries, read |-> 0]
        /\ behind' = (behind \/ Unread) /\ history' = history /\ server' = server
        /\ stream' = stream /\ lastIndex' = lastIndex /\ table.created
    BY DEF SnapshotStrings
  <1>4. /\ TableShape(table) /\ table.created \in BOOLEAN /\ behind \in BOOLEAN
        /\ restored \in BOOLEAN /\ table.max \in Nat /\ SoundSide(server)
    BY <1>3 DEF StringInv, StringShapes
  <1>5. ~parsed.threw => ShowsEntries(merged, server.entries, table.max)
    <2> DEFINE tab == table.entries
               max == table.max
    <2>1. max \in Nat
      BY <1>4
    <2> HIDE DEF tab, max
    <2>2. ~parsed.threw => ShowsEntries(Merged(tab, max, parsed), server.entries, max)
      BY <1>4, <2>1, SnapshotShows DEF SnapshotName
    <2> QED BY <2>2 DEF tab, max
  <1> HIDE DEF parsed, merged
  <1>6. /\ table'.created = table.created /\ table'.max = table.max /\ table'.fixed = table.fixed /\ TableShape(table')
        /\ table'.entries = IF parsed.threw THEN table.entries ELSE merged
    BY <1>2, <1>4 DEF TableShape
  <1>7. HandledShape(handled') /\ handled'.entries = <<>> /\ handled'.read = 0 /\ handled'.before = server.entries
    BY <1>3 DEF HandledShape
  <1>8. ASSUME ShowsEntries(table'.entries, server.entries, table.max)
        PROVE  RestedAt(table'.entries, table'.max, server', handled')
    BY <1>3, <1>6, <1>7, <1>8 DEF RestedAt
  <1>9. ASSUME restored' PROVE RestedAt(table'.entries, table'.max, server', handled')
    <2>1. CASE ~parsed.threw
      BY <1>5, <1>6, <1>8, <2>1
    <2>2. CASE parsed.threw
      <3>1. restored
        BY <1>2, <1>9, <2>2
      <3>2. ShowsEntries(table.entries, server.entries, table.max)
        BY <1>3, <3>1 DEF StringInv, RestedAt
      <3> QED BY <1>6, <1>8, <2>2, <3>2
    <2> QED BY <2>1, <2>2
  <1>10. ASSUME ~behind', RingsAlike PROVE TableFollows'
    <2>1. ~behind /\ ~(handled.read < Len(handled.entries))
      BY <1>3, <1>10 DEF Unread
    <2>2. Following(table.max, table.fixed, table.entries, history, stream, lastIndex, server, handled)
      BY <1>3, <1>10, <2>1 DEF StringInv, TableFollows
    <2>3. history = server.history /\ ShowsEntries(table.entries, server.entries, table.max)
      BY <2>1, <2>2, LevelAgain
    <2>4. ShowsEntries(table'.entries, server.entries, table.max)
      BY <1>5, <1>6, <2>3
    <2>5. RestedAt(table'.entries, table'.max, server', handled')
      BY <1>8, <2>4
    <2>6. history' = server'.history
      BY <1>3, <2>3
    <2>7. Following(table'.max, table'.fixed, table'.entries, history', stream', lastIndex', server', handled')
      BY <2>5, <2>6, Zenon DEF Following
    <2> QED BY <2>7, Zenon DEF TableFollows
  <1>11. StringShapes'
    BY <1>2, <1>3, <1>4, <1>6, <1>7 DEF StringShapes
  <1>12. SoundSide(server') /\ table'.created
    BY <1>3, <1>4, <1>6
  <1>13. RingsAlike' = RingsAlike
    BY <1>3 DEF RingsAlike
  <1> QED BY <1>9, <1>10, <1>11, <1>12, <1>13 DEF StringInv

LEMMA StringInvNext ==
  ASSUME StringInv, [NextStrings]_stringVars
  PROVE  StringInv'
  <1>1. CASE CreateStrings
    BY <1>1, StringInvCreates
  <1>2. CASE UpdateStrings
    BY <1>2, StringInvUpdates
  <1>3. CASE ReadStringEntry
    BY <1>3, StringInvReads
  <1>4. CASE SnapshotStrings
    BY <1>4, StringInvSnapshots
  <1>5. CASE UNCHANGED stringVars
    BY <1>5 DEF stringVars, StringInv, StringShapes, NothingSent, RingsAlike, TableFollows
  <1> QED BY <1>1, <1>2, <1>3, <1>4, <1>5 DEF NextStrings

(***************************************************************************)
(* Every entry of the string table has the key and the userdata the server *)
(* gave it: of each message that is read to its end, of one that failed    *)
(* half way up to the entry it stopped at, and after a snapshot whatever   *)
(* was lost before it.  This is for rings of any size on the two sides, as *)
(* long as they are of one size or neither has dropped a key - so for a    *)
(* server of 32 keys and a parser of 31 up to the 31st key -, messages of  *)
(* any length, keys and userdata of any bytes the encodings have room for, *)
(* and wherever the bytes were cut off (parseStringTableEntries,           *)
(* readKeyString, readUserData and parseStringTableSnapshot).              *)
(***************************************************************************)
THEOREM StringsAsSent == StringSpec => []EntriesAsSent
  <1>1. InitStrings => StringInv
    BY StringInvInit
  <1>2. StringInv /\ [NextStrings]_stringVars => StringInv'
    BY StringInvNext
  <1>3. StringInv => EntriesAsSent
    BY StringInvHolds
  <1> QED BY <1>1, <1>2, <1>3, PTL DEF StringSpec
=============================================================================
