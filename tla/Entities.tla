------------------------------- MODULE Entities ------------------------------
(***************************************************************************)
(* EntityList, the Entity views and decodePacketEntities                   *)
(* (src/entities/EntityList.ts, Entity.ts, PacketEntitiesDecoder.ts,       *)
(* InstanceBaseline.ts) over one EntityStore per ServerClass.              *)
(*                                                                         *)
(* One action is one entry of a CSVCMsg_PacketEntities message, that is    *)
(* one turn of the decoder's loop with every call it makes.  Decoding      *)
(* fails part way through an entry by throwing: the entry keeps the effect *)
(* it had so far, and the rest of the message is entries that never        *)
(* happen.  An entry that throws before it changes anything (unknown       *)
(* class, update or delete of an id that holds nothing) is a stutter.      *)
(*                                                                         *)
(* An Entity object is a position of `heap', its reference: a consumer may *)
(* hold the object for ever, so none is ever removed from it.              *)
(***************************************************************************)
EXTENDS EntityStore

CONSTANTS
    EntityIds,        \* ids the wire may name
    MAX_EDICTS,       \* 2048: get() answers undefined from here on
    Classes,          \* ServerClasses of the demo
    ProxyClasses,     \* those whose className ends with "Proxy"
    DefaultCapacity,  \* INITIAL_CAPACITY_DEFAULT, 16 in the code
    Absent,           \* no baseline entry, or none decoded yet
    Corrupt,          \* a baseline whose bits do not decode
    Blobs,            \* the baselines that do: what they decode to
    Changes,          \* the changed props an entry may have written
    MaxObjects        \* bound: Entity objects created in one run of the model

ASSUME EntitiesAssumption ==
    /\ EntityIds \subseteq Nat
    /\ MAX_EDICTS \in Nat
    /\ ProxyClasses \subseteq Classes
    /\ DefaultCapacity \in Nat \ {0}
    /\ MaxObjects \in Nat
    /\ Blobs \subseteq Deltas
    /\ Changes \subseteq Deltas
    /\ Absent \notin Deltas
    /\ Corrupt \notin Deltas
    /\ Absent # Corrupt
    /\ Absent \notin [class : Classes, props : [Props -> Values \cup {Undefined}]]

VARIABLES
    list,             \* EntityList.slots: id -> reference, or NoEntity
    heap,             \* every Entity object ever created, in order
    stores,           \* ServerClass.entityStore
    baselineEntry,    \* the class's entry of the instancebaseline table
    cachedBaseline    \* ServerClass.cachedBaseline

vars == <<list, heap, stores, baselineEntry, cachedBaseline>>

NoEntity == 0

EntityObject ==
    [ id : EntityIds, class : Classes, slot : Nat,
      version : 0 .. VersionMod - 1, state : {"active", "dormant", "free"} ]

InitialCapacity(c) == IF c \in ProxyClasses THEN 1 ELSE DefaultCapacity

Init ==
    /\ list = [id \in EntityIds |-> NoEntity]
    /\ heap = << >>
    /\ stores = [c \in Classes |-> NewStore(InitialCapacity(c))]
    /\ baselineEntry = [c \in Classes |-> Absent]
    /\ cachedBaseline = [c \in Classes |-> Absent]

-----------------------------------------------------------------------------
(* EntityList *)

Get(id) == IF id < MAX_EDICTS THEN list[id] ELSE NoEntity

\* The stores once the slot of the object at id, if there is one, is freed.
FreedForgotten(id) == stores    \* variant: the old slot is not returned

Freed(id) ==
    IF list[id] = NoEntity THEN stores
    ELSE LET old == heap[list[id]]
         IN  [stores EXCEPT ![old.class] = Free(@, old.slot)]

\* new Entity(id, c, ...) on the slot that allocate() takes from st.
NewEntity(id, c, st) ==
    [ id |-> id, class |-> c, slot |-> AllocatedSlot(st),
      version |-> GetVersion(Allocate(st), AllocatedSlot(st)),
      state |-> "active" ]

-----------------------------------------------------------------------------
(* Instance baselines *)

\* The baseline an enter-PVS of class c applies: the cached one, or the table's.
\* Absent: none yet, the entity starts empty and the next enter-PVS retries.
Baseline(c) == IF cachedBaseline[c] # Absent THEN cachedBaseline[c] ELSE baselineEntry[c]

BaselineDecodes(c) == Baseline(c) # Corrupt

\* CreateStringTable, UpdateStringTable and snapshots rewrite the table's entries.
SetBaselineEntry(c, b) ==
    /\ baselineEntry' = [baselineEntry EXCEPT ![c] = b]
    /\ UNCHANGED <<list, heap, stores, cachedBaseline>>

-----------------------------------------------------------------------------
(* The four entries of the decoder's loop *)

\* The entry that leaves with the delete flag: EntityList.delete.
DeleteEntry(id) ==
    /\ Get(id) # NoEntity
    /\ stores' = Freed(id)
    /\ heap' = [heap EXCEPT ![Get(id)].state = "free"]
    /\ list' = [list EXCEPT ![id] = NoEntity]
    /\ UNCHANGED <<baselineEntry, cachedBaseline>>

\* The entry that leaves without it: EntityList.leavePVS, which has no bounds check.
LeaveEntry(id) ==
    /\ list[id] # NoEntity
    /\ heap' = [heap EXCEPT ![list[id]].state = "dormant"]
    /\ UNCHANGED <<list, stores, baselineEntry, cachedBaseline>>

\* Entering PVS over an entity of another class is taken as a missed delete.  The
\* decoder sees that entity through get(); past MAX_EDICTS it does not, and
\* EntityList.create, which has no bounds check, throws.
Mismatch(id, c) == Get(id) # NoEntity /\ heap[Get(id)].class # c

CreateThrows(id, c) ==
    /\ list[id] # NoEntity
    /\ heap[list[id]].class # c
    /\ ~ Mismatch(id, c)

\* EntityList.create, preceded by the synthetic delete of a mismatched entity.  The
\* object replaced by one of its own class keeps its state: only its slot is freed.
Create(id, c) ==
    /\ Len(heap) < MaxObjects
    /\ ~ CreateThrows(id, c)
    /\ LET kept == IF Mismatch(id, c) THEN [heap EXCEPT ![Get(id)].state = "free"]
                   ELSE heap
       IN  heap' = Append(kept, NewEntity(id, c, Freed(id)[c]))
    /\ list' = [list EXCEPT ![id] = Len(heap) + 1]

\* The stores after create() at id and the writes of delta over baseline base.
Entered(id, c, base, delta) ==
    LET freed == Freed(id)
        slot == AllocatedSlot(freed[c])
    IN  [freed EXCEPT ![c] =
            WriteAll(WriteAll(Allocate(@), slot, base), slot, delta)]

NoProps == [p \in {} |-> Zero]

\* The entry that enters: create, baseline, changed props.  delta is the props that
\* were written: all of the message's, or those before the one that failed.
EnterEntry(id, c, delta) ==
    /\ BaselineDecodes(c)
    /\ Create(id, c)
    /\ stores' = Entered(id, c, IF Baseline(c) = Absent THEN NoProps ELSE Baseline(c), delta)
    /\ cachedBaseline' = [cachedBaseline EXCEPT ![c] = Baseline(c)]
    /\ UNCHANGED baselineEntry

\* The same entry when the baseline does not decode: it throws once the entity is
\* registered, before any prop is written.
EnterWithoutBaseline(id, c) ==
    /\ ~ BaselineDecodes(c)
    /\ Create(id, c)
    /\ stores' = Entered(id, c, NoProps, NoProps)
    /\ UNCHANGED <<baselineEntry, cachedBaseline>>

\* The entry that preserves: changed props of the entity at id, delta as above.
PreserveEntry(id, delta) ==
    /\ Get(id) # NoEntity
    /\ LET e == heap[Get(id)]
       IN  stores' = [stores EXCEPT ![e.class] = WriteAll(@, e.slot, delta)]
    /\ UNCHANGED <<list, heap, baselineEntry, cachedBaseline>>

Next ==
    \/ \E id \in EntityIds :
        \/ DeleteEntry(id)
        \/ LeaveEntry(id)
        \/ \E c \in Classes, delta \in Changes : EnterEntry(id, c, delta)
        \/ \E c \in Classes : EnterWithoutBaseline(id, c)
        \/ \E delta \in Changes : PreserveEntry(id, delta)
    \/ \E c \in Classes, b \in Blobs \cup {Absent, Corrupt} : SetBaselineEntry(c, b)

Spec == Init /\ [][Next]_vars

-----------------------------------------------------------------------------
(* What a consumer that holds an Entity sees *)

Objects == 1 .. Len(heap)
Listed(v) == list[heap[v].id] = v

\* Entity.assertFresh: prop(), propByName() and entries() throw unless this holds.
Fresh(v) == GetVersion(stores[heap[v].class], heap[v].slot) = heap[v].version

\* store.read(storageSlot, p), which is what prop() returns once assertFresh passed.
StoredProp(v, p) == Read(stores[heap[v].class], heap[v].slot, p)

-----------------------------------------------------------------------------
(* Invariants *)

\* Types: every store is well formed for its capacity, every object names real data.
TypeOK ==
    /\ list \in [EntityIds -> {NoEntity} \cup Objects]
    /\ heap \in Seq(EntityObject)
    /\ Len(heap) <= MaxObjects
    /\ DOMAIN stores = Classes
    /\ \A c \in Classes : /\ stores[c].capacity \in Nat \ {0}
                          /\ stores[c] \in StoreOf(stores[c].capacity)
    /\ baselineEntry \in [Classes -> Blobs \cup {Absent, Corrupt}]
    /\ cachedBaseline \in [Classes -> Blobs \cup {Absent}]

\* The live objects of class c.
Live(c) == {v \in Objects : Listed(v) /\ heap[v].class = c}

\* No two live entities of a class share a storage slot, whatever was created,
\* re-created and deleted before: what one entity writes never shows in another.
SlotsExclusive ==
    \A c \in Classes : \A v, w \in Live(c) : heap[v].slot = heap[w].slot => v = w

\* A store's occupied slots are exactly those of the live entities of its class, also
\* after entries that failed half way: no slot is lost and none is handed out twice.
NoSlotLeak ==
    \A c \in Classes :
        /\ stores[c].occupied = {heap[v].slot : v \in Live(c)}
        /\ \A s \in Rows(stores[c].nextSlot) :
              s \in stores[c].occupied <=> ~ OnFreeList(stores[c], s)
        /\ \A i, j \in 1 .. Len(stores[c].freeList) :
              stores[c].freeList[i] = stores[c].freeList[j] => i = j

\* No slotVersions entry can wrap within the bound.
NoVersionWrap == MaxObjects < VersionMod

\* The staleness check of Entity.ts is exact while no slotVersions entry has wrapped:
\* a read through a held object throws if and only if the object was replaced or
\* deleted, even when its slot has been reused.
StaleIffUnlisted == \A v \in Objects : Fresh(v) <=> Listed(v)

-----------------------------------------------------------------------------
(* The inductive invariant behind them *)

\* The id owns slot s of class c's store.
Owns(id, c, s) ==
    /\ list[id] # NoEntity
    /\ heap[list[id]].class = c
    /\ heap[list[id]].slot = s

\* Every store keeps its discipline, and its occupied slots have one owner each.
Ownership ==
    /\ \A c \in Classes : WellFormed(stores[c])
    /\ \A id \in EntityIds : list[id] # NoEntity =>
          /\ heap[list[id]].id = id
          /\ heap[list[id]].slot \in stores[heap[list[id]].class].occupied
    /\ \A c \in Classes : \A s \in stores[c].occupied : \E id \in EntityIds : Owns(id, c, s)
    /\ \A i, j \in EntityIds, c \in Classes : \A s \in stores[c].occupied :
          Owns(i, c, s) /\ Owns(j, c, s) => i = j

\* A slot's version has passed every object that used the slot before, and stays below
\* the number of objects created.
Versions ==
    /\ \A c \in Classes : \A s \in Rows(stores[c].capacity) :
          stores[c].version[s] <= Len(heap)
    /\ \A v \in Objects :
          LET st == stores[heap[v].class] IN
          /\ heap[v].slot \in Rows(st.capacity)
          /\ heap[v].version < v
          /\ Listed(v) => heap[v].version = st.version[heap[v].slot]
          /\ ~ Listed(v) => heap[v].version < st.version[heap[v].slot]

IInv == TypeOK /\ Ownership

-----------------------------------------------------------------------------
(* The entity layer implements EntityMap *)

World == [ id \in EntityIds |->
             IF list[id] = NoEntity THEN Absent
             ELSE [ class |-> heap[list[id]].class,
                    props |-> [p \in Props |-> StoredProp(list[id], p)] ] ]

Map == INSTANCE EntityMap WITH world <- World, template <- cachedBaseline

\* Every run of the decoder is one of the abstract map's: a step touches one id, nothing
\* an entity shows changes by what happens to another one, and a class's baseline is the
\* first one found, however the string table changes afterwards.
ImplementsEntityMap == Map!Spec

\* Entry by entry: what an entity shows after the entry is what the abstract map gives it
\* for the same delta, so nothing is left over from an earlier user of its slot.
EntriesMatchMap ==
    [][ \A id \in EntityIds :
          /\ DeleteEntry(id) => Map!Delete(id)
          /\ \A delta \in Changes :
                /\ PreserveEntry(id, delta) => Map!Update(id, delta)
                /\ \A c \in Classes : EnterEntry(id, c, delta) => Map!Enter(id, c, delta)
          /\ \A c \in Classes : EnterWithoutBaseline(id, c) => Map!Enter(id, c, NoProps)
      ]_vars

=============================================================================
