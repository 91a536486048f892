--------------------------- MODULE EntitiesProofs ----------------------------
(***************************************************************************)
(* Theorems about Entities and Overlays, for any number of ids, classes,   *)
(* props and values, any capacity and any bound on the objects created.    *)
(* The storage is sound; what it shows is the world of EntityMap, entry by *)
(* entry; a view held from an earlier tick is rejected exactly when its    *)
(* entity is gone; and what the getters memoize follows the entity list,   *)
(* whichever entries fail, whichever listeners throw and whatever they     *)
(* read.                                                                   *)
(***************************************************************************)
EXTENDS Overlays, TLAPS

USE DEF NoEntity

-----------------------------------------------------------------------------
(* What the operations of EntityStore do to a well-formed store, for every *)
(* class layout, capacity and version width                                *)

\* A store just built is well formed and holds nothing.
LEMMA NewStoreWellFormed ==
    ASSUME NEW n \in Nat \ {0}
    PROVE  WellFormed(NewStore(n)) /\ NewStore(n).occupied = {}
  BY StoreAssumption DEF WellFormed, NewStore, StoreOf, Rows, OnFreeList

\* free() of an occupied slot keeps the store well formed; only that slot's row
\* changes: its version moves on and it shows nothing.
LEMMA FreeWellFormed ==
    ASSUME NEW st, WellFormed(st), NEW slot \in st.occupied
    PROVE  /\ WellFormed(Free(st, slot))
           /\ Free(st, slot).occupied = st.occupied \ {slot}
           /\ Free(st, slot).capacity = st.capacity
           /\ Free(st, slot).column = st.column
           /\ Free(st, slot).version = [st.version EXCEPT ![slot] = (@ + 1) % VersionMod]
           /\ Free(st, slot).written = [st.written EXCEPT ![slot] = {}]
  <1> DEFINE n == st.capacity
             r == Free(st, slot)
  <1>1. /\ n \in Nat \ {0}
        /\ st \in StoreOf(n)
        /\ slot \in Rows(st.nextSlot)
        /\ st.nextSlot \in 0 .. n
        /\ slot \in Rows(n)
        /\ slot < st.nextSlot
    BY DEF WellFormed, StoreOf, Rows
  <1>2. r = [ st EXCEPT !.occupied = @ \ {slot},
                        !.written[slot] = {},
                        !.version[slot] = (@ + 1) % VersionMod,
                        !.freeList = Append(@, slot) ]
    BY <1>1 DEF Free
  <1>3. /\ r.capacity = n
        /\ r.nextSlot = st.nextSlot
        /\ r.occupied = st.occupied \ {slot}
        /\ r.freeList = Append(st.freeList, slot)
        /\ r.version = [st.version EXCEPT ![slot] = (@ + 1) % VersionMod]
        /\ r.written = [st.written EXCEPT ![slot] = {}]
        /\ r.column = st.column
    BY <1>1, <1>2 DEF StoreOf
  <1>4. r \in StoreOf(n)
    <2>1. (st.version[slot] + 1) % VersionMod \in 0 .. VersionMod - 1
      BY <1>1, StoreAssumption DEF StoreOf
    <2>2. r.version \in [Rows(n) -> 0 .. VersionMod - 1]
      BY <1>1, <1>3, <2>1 DEF StoreOf
    <2>3. r.freeList \in Seq(Rows(n))
      BY <1>1, <1>3 DEF StoreOf
    <2>4. /\ r.written \in [Rows(n) -> SUBSET Props]
          /\ r.column \in [Rows(n) -> [Props -> Values]]
          /\ r.occupied \in SUBSET Rows(n)
          /\ r.nextSlot \in 0 .. n
          /\ r.capacity \in {n}
      BY <1>1, <1>3 DEF StoreOf
    <2>5. r = [ capacity |-> r.capacity, nextSlot |-> r.nextSlot,
                occupied |-> r.occupied, freeList |-> r.freeList,
                version |-> r.version, written |-> r.written, column |-> r.column ]
      BY <1>1, <1>2 DEF StoreOf
    <2> QED BY <2>2, <2>3, <2>4, <2>5 DEF StoreOf
  <1>5. st.freeList \in Seq(Rows(n))
    BY <1>1 DEF StoreOf
  <1>6. /\ Len(r.freeList) = Len(st.freeList) + 1
        /\ Len(st.freeList) \in Nat
        /\ r.freeList[Len(st.freeList) + 1] = slot
        /\ \A i \in 1 .. Len(st.freeList) : r.freeList[i] = st.freeList[i]
    BY <1>1, <1>3, <1>5
  <1>7. \A i \in 1 .. Len(st.freeList) : st.freeList[i] # slot
    BY <1>1 DEF WellFormed, OnFreeList
  <1>8. \A i \in 1 .. Len(r.freeList) : r.freeList[i] \in Rows(r.nextSlot)
    BY <1>1, <1>3, <1>6 DEF WellFormed
  <1>9. \A s \in Rows(r.nextSlot) : s \in r.occupied <=> ~ OnFreeList(r, s)
    <2> SUFFICES ASSUME NEW s \in Rows(st.nextSlot)
                 PROVE  OnFreeList(r, s) <=> OnFreeList(st, s) \/ s = slot
      BY <1>1, <1>3 DEF WellFormed
    <2> DEFINE f == r.freeList
               g == st.freeList
               m == Len(g)
    <2>1. /\ Len(f) = m + 1 /\ m \in Nat /\ f[m + 1] = slot
          /\ \A i \in 1 .. m : f[i] = g[i]
      BY <1>6
    <2>2. /\ OnFreeList(r, s) <=> \E i \in 1 .. Len(f) : f[i] = s
          /\ OnFreeList(st, s) <=> \E i \in 1 .. m : g[i] = s
      BY DEF OnFreeList
    <2> HIDE DEF f, g, m
    <2>3. (\E i \in 1 .. Len(f) : f[i] = s) <=> (\E i \in 1 .. m : g[i] = s) \/ s = slot
      BY <2>1
    <2> QED BY <2>2, <2>3
  <1>10. \A i, j \in 1 .. Len(r.freeList) : r.freeList[i] = r.freeList[j] => i = j
    BY <1>6, <1>7 DEF WellFormed
  <1>11. \A s \in Rows(n) : s \notin r.occupied => r.written[s] = {}
    BY <1>1, <1>3 DEF WellFormed, StoreOf
  <1> QED
    BY <1>1, <1>3, <1>4, <1>8, <1>9, <1>10, <1>11 DEF WellFormed

\* allocate() hands out a slot that nobody has, in range after growing, that shows
\* nothing; every row the store had before is as it was.
LEMMA AllocateWellFormed ==
    ASSUME NEW st, WellFormed(st)
    PROVE  /\ WellFormed(Allocate(st))
           /\ AllocatedSlot(st) \notin st.occupied
           /\ Allocate(st).occupied = st.occupied \cup {AllocatedSlot(st)}
           /\ AllocatedSlot(st) \in Rows(Allocate(st).capacity)
           /\ st.capacity <= Allocate(st).capacity
           /\ Allocate(st).written[AllocatedSlot(st)] = {}
           /\ \A s \in Rows(st.capacity) :
                  /\ s \in Rows(Allocate(st).capacity)
                  /\ Allocate(st).version[s] = st.version[s]
                  /\ Allocate(st).written[s] = st.written[s]
                  /\ Allocate(st).column[s] = st.column[s]
           /\ \A s \in Rows(Allocate(st).capacity) \ Rows(st.capacity) :
                  Allocate(st).version[s] = 0
  <1> DEFINE n == st.capacity
             a == AllocatedSlot(st)
             r == Allocate(st)
             k == Len(st.freeList)
  <1>1. /\ n \in Nat \ {0}
        /\ st \in StoreOf(n)
        /\ st.nextSlot \in 0 .. n
        /\ st.freeList \in Seq(Rows(n))
        /\ k \in Nat
    BY DEF WellFormed, StoreOf
  <1>2. CASE st.freeList # << >>
    <2>1. /\ k >= 1
          /\ a = st.freeList[k]
          /\ a \in Rows(st.nextSlot)
          /\ a \in Rows(n)
          /\ a \notin st.occupied
      <3>1. k >= 1 /\ a = st.freeList[k]
        BY <1>1, <1>2 DEF AllocatedSlot
      <3> QED BY <1>1, <3>1 DEF WellFormed, OnFreeList, Rows
    <2>2. r = [ st EXCEPT !.occupied = @ \cup {a},
                          !.freeList = SubSeq(@, 1, Len(@) - 1) ]
      BY <1>2 DEF Allocate
    <2>3. /\ r.capacity = n
          /\ r.nextSlot = st.nextSlot
          /\ r.occupied = st.occupied \cup {a}
          /\ r.freeList = SubSeq(st.freeList, 1, k - 1)
          /\ r.version = st.version
          /\ r.written = st.written
          /\ r.column = st.column
      BY <1>1, <2>2 DEF StoreOf
    <2>4. /\ r.freeList \in Seq(Rows(n))
          /\ Len(r.freeList) = k - 1
          /\ \A i \in 1 .. k - 1 : r.freeList[i] = st.freeList[i]
      BY <1>1, <2>1, <2>3
    <2>5. r \in StoreOf(n)
      <3>1. r = [ capacity |-> r.capacity, nextSlot |-> r.nextSlot,
                  occupied |-> r.occupied, freeList |-> r.freeList,
                  version |-> r.version, written |-> r.written, column |-> r.column ]
        BY <1>1, <2>2 DEF StoreOf
      <3> QED BY <1>1, <2>1, <2>3, <2>4, <3>1 DEF StoreOf
    <2>6. \A s \in Rows(r.nextSlot) : s \in r.occupied <=> ~ OnFreeList(r, s)
      <3> SUFFICES ASSUME NEW s \in Rows(st.nextSlot)
                   PROVE  OnFreeList(st, s) <=> OnFreeList(r, s) \/ s = a
        <4>1. ~ OnFreeList(r, a)
          BY <1>1, <2>1, <2>4 DEF WellFormed, OnFreeList
        <4> QED BY <2>3, <4>1 DEF WellFormed
      <3>1. ASSUME NEW i \in 1 .. k, st.freeList[i] = s
            PROVE  OnFreeList(r, s) \/ s = a
        <4>1. CASE i = k
          BY <2>1, <3>1, <4>1
        <4>2. CASE i # k
          <5>1. i \in 1 .. k - 1
            BY <1>1, <4>2
          <5>2. r.freeList[i] = s /\ i \in 1 .. Len(r.freeList)
            BY <2>4, <3>1, <5>1
          <5> QED BY <5>2 DEF OnFreeList
        <4> QED BY <4>1, <4>2
      <3>2. ASSUME NEW i \in 1 .. k - 1, r.freeList[i] = s
            PROVE  OnFreeList(st, s)
        <4>1. st.freeList[i] = s
          BY <2>4, <3>2
        <4>2. i \in 1 .. k
          BY <1>1
        <4> HIDE DEF r
        <4> QED BY <4>1, <4>2 DEF OnFreeList
      <3>3. ASSUME s = a
            PROVE  OnFreeList(st, s)
        BY <1>1, <2>1, <3>3 DEF OnFreeList
      <3> QED BY <2>4, <3>1, <3>2, <3>3 DEF OnFreeList
    <2>7. WellFormed(r)
      <3>1. /\ st.occupied \subseteq Rows(st.nextSlot)
            /\ \A i \in 1 .. k : st.freeList[i] \in Rows(st.nextSlot)
            /\ \A i, j \in 1 .. k : st.freeList[i] = st.freeList[j] => i = j
            /\ \A s \in Rows(n) : s \notin st.occupied => st.written[s] = {}
        BY DEF WellFormed
      <3>2. 1 .. k - 1 \subseteq 1 .. k
        BY <1>1
      <3> HIDE DEF r, a, k
      <3>3. r.occupied \subseteq Rows(r.nextSlot)
        BY <2>1, <2>3, <3>1
      <3>4. \A i \in 1 .. Len(r.freeList) : r.freeList[i] \in Rows(r.nextSlot)
        BY <2>3, <2>4, <3>1, <3>2
      <3>5. \A i, j \in 1 .. Len(r.freeList) : r.freeList[i] = r.freeList[j] => i = j
        BY <2>4, <3>1, <3>2
      <3>6. \A s \in Rows(r.capacity) : s \notin r.occupied => r.written[s] = {}
        BY <2>3, <3>1
      <3> QED BY <1>1, <2>3, <2>5, <2>6, <3>3, <3>4, <3>5, <3>6 DEF WellFormed
    <2> QED BY <1>1, <2>1, <2>3, <2>7 DEF WellFormed
  <1>3. CASE st.freeList = << >>
    <2> DEFINE room == IF st.nextSlot >= n THEN Grow(st) ELSE st
               m == room.capacity
    <2>1. /\ m \in Nat \ {0}
          /\ n <= m
          /\ st.nextSlot < m
          /\ room \in StoreOf(m)
          /\ room.nextSlot = st.nextSlot
          /\ room.occupied = st.occupied
          /\ room.freeList = << >>
          /\ \A s \in Rows(n) : /\ s \in Rows(m)
                                 /\ room.version[s] = st.version[s]
                                 /\ room.written[s] = st.written[s]
                                 /\ room.column[s] = st.column[s]
          /\ \A s \in Rows(m) \ Rows(n) : room.version[s] = 0 /\ room.written[s] = {}
      <3>1. CASE st.nextSlot >= n
        <4>1. room = Grow(st)
          BY <3>1
        <4>2. /\ m = 2 * n
              /\ room.nextSlot = st.nextSlot
              /\ room.occupied = st.occupied
              /\ room.freeList = st.freeList
              /\ room.version = [s \in Rows(2 * n) |-> IF s < n THEN st.version[s] ELSE 0]
              /\ room.written = [s \in Rows(2 * n) |-> IF s < n THEN st.written[s] ELSE {}]
              /\ room.column = [s \in Rows(2 * n) |->
                                  IF s < n THEN st.column[s] ELSE [p \in Props |-> Zero]]
              /\ room = [ capacity |-> m, nextSlot |-> room.nextSlot,
                          occupied |-> room.occupied, freeList |-> room.freeList,
                          version |-> room.version, written |-> room.written,
                          column |-> room.column ]
          BY <1>1, <4>1 DEF Grow, StoreOf
        <4>3. /\ room.version \in [Rows(m) -> 0 .. VersionMod - 1]
              /\ room.written \in [Rows(m) -> SUBSET Props]
              /\ room.column \in [Rows(m) -> [Props -> Values]]
          <5>1. /\ st.version \in [Rows(n) -> 0 .. VersionMod - 1]
                /\ st.written \in [Rows(n) -> SUBSET Props]
                /\ st.column \in [Rows(n) -> [Props -> Values]]
                /\ 0 \in 0 .. VersionMod - 1
                /\ [p \in Props |-> Zero] \in [Props -> Values]
            BY <1>1, StoreAssumption DEF StoreOf
          <5>2. Rows(m) = Rows(2 * n)
            BY <4>2
          <5>3. \A s \in Rows(2 * n) : s < n => s \in Rows(n)
            BY <1>1 DEF Rows
          <5>4. room.version \in [Rows(m) -> 0 .. VersionMod - 1]
            BY <4>2, <5>1, <5>2, <5>3
          <5>5. room.written \in [Rows(m) -> SUBSET Props]
            BY <4>2, <5>1, <5>2, <5>3
          <5>6. room.column \in [Rows(m) -> [Props -> Values]]
            BY <4>2, <5>1, <5>2, <5>3
          <5> QED BY <5>4, <5>5, <5>6
        <4>4. /\ room.nextSlot \in 0 .. m
              /\ room.occupied \in SUBSET Rows(m)
              /\ room.freeList \in Seq(Rows(m))
          <5>1. st.occupied \in SUBSET Rows(n)
            BY <1>1 DEF StoreOf
          <5>2. Rows(n) \subseteq Rows(m)
            BY <1>1, <4>2 DEF Rows
          <5>3. room.nextSlot \in 0 .. m
            BY <1>1, <4>2
          <5>4. room.freeList = << >>
            BY <1>3, <4>2
          <5> HIDE DEF room, m
          <5>5. room.freeList \in Seq(Rows(m))
            BY <5>4
          <5> QED BY <4>2, <5>1, <5>2, <5>3, <5>5
        <4>5. room \in StoreOf(m)
          BY <4>2, <4>3, <4>4 DEF StoreOf
        <4>6. m \in Nat \ {0} /\ n <= m /\ st.nextSlot < m
          BY <1>1, <4>2
        <4>7. \A s \in Rows(n) : s \in Rows(m) /\ s < n
          BY <1>1, <4>2 DEF Rows
        <4>8. \A s \in Rows(m) \ Rows(n) : ~ (s < n)
          BY <1>1, <4>2 DEF Rows
        <4>9. Rows(m) = Rows(2 * n)
          BY <4>2
        <4> HIDE DEF room, m
        <4>10. \A s \in Rows(n) : /\ room.version[s] = st.version[s]
                                   /\ room.written[s] = st.written[s]
                                   /\ room.column[s] = st.column[s]
          BY <4>2, <4>7, <4>9
        <4>11. \A s \in Rows(m) \ Rows(n) : room.version[s] = 0 /\ room.written[s] = {}
          BY <4>2, <4>8, <4>9
        <4> QED BY <1>3, <4>2, <4>5, <4>6, <4>7, <4>10, <4>11
      <3>2. CASE ~ (st.nextSlot >= n)
        BY <1>1, <1>3, <3>2 DEF Rows, StoreOf
      <3> QED BY <3>1, <3>2
    <2>2. a = st.nextSlot /\ a \in Rows(m) /\ a \notin st.occupied
      BY <1>1, <1>3, <2>1 DEF AllocatedSlot, Rows, WellFormed
    <2>3. r = [room EXCEPT !.occupied = @ \cup {a}, !.nextSlot = @ + 1]
      BY <1>3, <2>2 DEF Allocate
    <2>4. /\ r.capacity = m
          /\ r.nextSlot = a + 1
          /\ r.occupied = st.occupied \cup {a}
          /\ r.freeList = << >>
          /\ r.version = room.version
          /\ r.written = room.written
          /\ r.column = room.column
      BY <2>1, <2>2, <2>3 DEF StoreOf
    <2>5. r \in StoreOf(m)
      <3>1. r = [ capacity |-> r.capacity, nextSlot |-> r.nextSlot,
                  occupied |-> r.occupied, freeList |-> r.freeList,
                  version |-> r.version, written |-> r.written, column |-> r.column ]
        BY <2>1, <2>3 DEF StoreOf
      <3>2. r.nextSlot \in 0 .. m /\ r.occupied \in SUBSET Rows(m)
        BY <2>1, <2>2, <2>4 DEF StoreOf, Rows
      <3> QED BY <2>1, <2>4, <3>1, <3>2 DEF StoreOf
    <2>6. \A s \in Rows(m) : s \notin st.occupied => room.written[s] = {}
      BY <2>1 DEF WellFormed
    <2>7. \A s \in Rows(r.nextSlot) : s \in r.occupied /\ ~ OnFreeList(r, s)
      BY <1>1, <1>3, <2>2, <2>4 DEF WellFormed, OnFreeList, Rows
    <2>8. st.occupied \cup {a} \subseteq Rows(a + 1)
      BY <1>1, <2>2 DEF WellFormed, Rows
    <2>9. WellFormed(r)
      BY <2>1, <2>4, <2>5, <2>6, <2>7, <2>8 DEF WellFormed
    <2> QED BY <1>1, <2>1, <2>2, <2>4, <2>6, <2>9
  <1> QED BY <1>2, <1>3

\* Writing props of an occupied slot keeps the store well formed and touches no other
\* row, no version and no bit of the free list.
LEMMA WriteAllWellFormed ==
    ASSUME NEW st, WellFormed(st), NEW slot \in st.occupied, NEW delta \in Deltas
    PROVE  /\ WellFormed(WriteAll(st, slot, delta))
           /\ WriteAll(st, slot, delta).occupied = st.occupied
           /\ WriteAll(st, slot, delta).capacity = st.capacity
           /\ WriteAll(st, slot, delta).version = st.version
           /\ WriteAll(st, slot, delta).written =
                  [st.written EXCEPT ![slot] = @ \cup DOMAIN delta]
           /\ WriteAll(st, slot, delta).column =
                  [st.column EXCEPT ![slot] =
                      [p \in Props |-> IF p \in DOMAIN delta THEN delta[p] ELSE @[p]]]
  <1> DEFINE n == st.capacity
             r == WriteAll(st, slot, delta)
  <1>1. /\ n \in Nat \ {0}
        /\ st \in StoreOf(n)
        /\ slot \in Rows(n)
    BY DEF WellFormed, StoreOf, Rows
  <1>2. PICK S \in SUBSET Props : delta \in [S -> Values]
    BY DEF Deltas
  <1> DEFINE W == st.written[slot] \cup DOMAIN delta
             C == [p \in Props |-> IF p \in DOMAIN delta THEN delta[p]
                                  ELSE st.column[slot][p]]
             Wr == [st.written EXCEPT ![slot] = W]
             Co == [st.column EXCEPT ![slot] = C]
  <1>a. r = [st EXCEPT !.written = Wr, !.column = Co]
    BY <1>1, Zenon DEF WriteAll
  <1>3. /\ r.capacity = n
        /\ r.nextSlot = st.nextSlot
        /\ r.occupied = st.occupied
        /\ r.freeList = st.freeList
        /\ r.version = st.version
        /\ r.written = Wr
        /\ r.column = Co
        /\ r = [ capacity |-> r.capacity, nextSlot |-> r.nextSlot,
                 occupied |-> r.occupied, freeList |-> r.freeList,
                 version |-> r.version, written |-> r.written, column |-> r.column ]
    <2> HIDE DEF W, C, Wr, Co
    <2> QED BY <1>1, <1>a DEF StoreOf
  <1>4. [p \in Props |-> IF p \in DOMAIN delta THEN delta[p] ELSE st.column[slot][p]]
            \in [Props -> Values]
    <2>1. st.column[slot] \in [Props -> Values]
      BY <1>1 DEF StoreOf
    <2> QED BY <1>2, <2>1
  <1>5. r.column \in [Rows(n) -> [Props -> Values]]
    BY <1>1, <1>3, <1>4 DEF StoreOf
  <1>6. r.written \in [Rows(n) -> SUBSET Props]
    BY <1>1, <1>2, <1>3 DEF StoreOf
  <1>7. r \in StoreOf(n)
    BY <1>1, <1>3, <1>5, <1>6 DEF StoreOf
  <1>8. \A s \in Rows(n) : s \notin r.occupied => r.written[s] = {}
    BY <1>1, <1>3 DEF WellFormed, StoreOf
  <1> QED BY <1>1, <1>3, <1>7, <1>8 DEF WellFormed, OnFreeList

-----------------------------------------------------------------------------
(* Facts about the parts of a step *)

LEMMA NoPropsInDeltas == NoProps \in Deltas
  <1>1. NoProps \in [{} -> Values]
    BY DEF NoProps
  <1> QED BY <1>1 DEF Deltas

\* What IInv says of the object listed at an id.
LEMMA ListedObject ==
    ASSUME IInv, NEW id \in EntityIds, list[id] # NoEntity
    PROVE  /\ list[id] \in Objects
           /\ heap[list[id]] \in EntityObject
           /\ heap[list[id]].id = id
           /\ heap[list[id]].class \in Classes
           /\ heap[list[id]].slot \in stores[heap[list[id]].class].occupied
           /\ heap[list[id]].slot \in Rows(stores[heap[list[id]].class].capacity)
           /\ Owns(id, heap[list[id]].class, heap[list[id]].slot)
  <1>1. list[id] \in Objects /\ heap \in Seq(EntityObject)
    BY DEF IInv, TypeOK, Objects
  <1>2. heap[list[id]] \in EntityObject
    BY <1>1 DEF Objects
  <1>3. heap[list[id]].class \in Classes
    BY <1>2 DEF EntityObject
  <1>4. /\ heap[list[id]].id = id
        /\ heap[list[id]].slot \in stores[heap[list[id]].class].occupied
    BY DEF IInv, Ownership
  <1>5. stores[heap[list[id]].class] \in StoreOf(stores[heap[list[id]].class].capacity)
    BY <1>3 DEF IInv, TypeOK
  <1>6. heap[list[id]].slot \in Rows(stores[heap[list[id]].class].capacity)
    BY <1>4, <1>5 DEF StoreOf
  <1> QED BY <1>1, <1>2, <1>3, <1>4, <1>6 DEF Owns

\* What IInv says of a live object of a class.
LEMMA LiveObject ==
    ASSUME IInv, NEW c \in Classes, NEW v \in Live(c)
    PROVE  /\ v \in Objects
           /\ heap[v].id \in EntityIds
           /\ list[heap[v].id] = v
           /\ list[heap[v].id] # NoEntity
           /\ heap[v].class = c
           /\ Owns(heap[v].id, c, heap[v].slot)
           /\ heap[v].slot \in stores[c].occupied
  <1>1. v \in Objects /\ list[heap[v].id] = v /\ heap[v].class = c
    BY DEF Live, Listed
  <1>2. heap[v] \in EntityObject
    BY <1>1 DEF IInv, TypeOK, Objects
  <1>3. heap[v].id \in EntityIds
    BY <1>2 DEF EntityObject
  <1>4. v # NoEntity
    BY <1>1 DEF Objects, IInv, TypeOK
  <1>5. heap[v].slot \in stores[c].occupied
    BY <1>1, <1>3, <1>4, ListedObject
  <1> QED BY <1>1, <1>3, <1>4, <1>5 DEF Owns

\* Freeing the slot of the object at id: the stores stay well formed, and exactly the
\* slots of the other ids stay occupied.
LEMMA FreedStores ==
    ASSUME IInv, NEW id \in EntityIds
    PROVE  /\ DOMAIN Freed(id) = Classes
           /\ \A c \in Classes :
                /\ WellFormed(Freed(id)[c])
                /\ Freed(id)[c].capacity = stores[c].capacity
                /\ Freed(id)[c].occupied = {s \in stores[c].occupied : ~ Owns(id, c, s)}
                /\ Freed(id)[c].column = stores[c].column
                /\ \A s \in Freed(id)[c].occupied :
                      /\ Freed(id)[c].written[s] = stores[c].written[s]
                      /\ Freed(id)[c].version[s] = stores[c].version[s]
  <1>1. CASE list[id] = NoEntity
    <2>1. Freed(id) = stores
      BY <1>1 DEF Freed
    <2> QED BY <1>1, <2>1 DEF IInv, TypeOK, Ownership, Owns
  <1>2. CASE list[id] # NoEntity
    <2> DEFINE old == heap[list[id]]
               k == old.class
               f == Free(stores[k], old.slot)
    <2>1. /\ k \in Classes
          /\ old.slot \in stores[k].occupied
          /\ old.slot \in Rows(stores[k].capacity)
          /\ WellFormed(stores[k])
      BY <1>2, ListedObject DEF IInv, Ownership
    <2>2. Freed(id) = [stores EXCEPT ![k] = f]
      BY <1>2 DEF Freed
    <2>3. /\ DOMAIN Freed(id) = Classes
          /\ Freed(id)[k] = f
          /\ \A c \in Classes \ {k} : Freed(id)[c] = stores[c]
      BY <2>1, <2>2 DEF IInv, TypeOK
    <2>4. /\ WellFormed(f)
          /\ f.occupied = stores[k].occupied \ {old.slot}
          /\ f.capacity = stores[k].capacity
          /\ f.column = stores[k].column
          /\ f.version = [stores[k].version EXCEPT ![old.slot] = (@ + 1) % VersionMod]
          /\ f.written = [stores[k].written EXCEPT ![old.slot] = {}]
      BY <2>1, FreeWellFormed
    <2>5. \A c, s : Owns(id, c, s) <=> c = k /\ s = old.slot
      BY <1>2 DEF Owns
    <2>6. /\ stores[k].version \in [Rows(stores[k].capacity) -> 0 .. VersionMod - 1]
          /\ stores[k].written \in [Rows(stores[k].capacity) -> SUBSET Props]
          /\ stores[k].occupied \subseteq Rows(stores[k].capacity)
      BY <2>1 DEF WellFormed, StoreOf
    <2>7. \A s \in f.occupied : /\ f.written[s] = stores[k].written[s]
                                /\ f.version[s] = stores[k].version[s]
      BY <2>4, <2>6
    <2>8. f.occupied = {s \in stores[k].occupied : ~ Owns(id, k, s)}
      BY <2>4, <2>5
    <2>9. \A c \in Classes \ {k} :
             /\ WellFormed(stores[c])
             /\ stores[c].occupied = {s \in stores[c].occupied : ~ Owns(id, c, s)}
      BY <2>5 DEF IInv, Ownership
    <2> SUFFICES ASSUME NEW c \in Classes
                 PROVE  /\ WellFormed(Freed(id)[c])
                        /\ Freed(id)[c].capacity = stores[c].capacity
                        /\ Freed(id)[c].occupied =
                              {s \in stores[c].occupied : ~ Owns(id, c, s)}
                        /\ Freed(id)[c].column = stores[c].column
                        /\ \A s \in Freed(id)[c].occupied :
                              /\ Freed(id)[c].written[s] = stores[c].written[s]
                              /\ Freed(id)[c].version[s] = stores[c].version[s]
      BY <2>3
    <2> HIDE DEF f
    <2>10. CASE c = k
      BY <2>3, <2>4, <2>7, <2>8, <2>10
    <2>11. CASE c # k
      <3>1. Freed(id)[c] = stores[c]
        BY <2>3, <2>11
      <3> QED BY <2>9, <2>11, <3>1
    <2> QED BY <2>10, <2>11
  <1> QED BY <1>1, <1>2

\* The stores after an entering entry: the new slot belongs to nobody, shows the
\* baseline overridden by the delta, and no other occupied row is touched.
LEMMA EnteredStores ==
    ASSUME IInv, NEW id \in EntityIds, NEW c \in Classes,
           NEW base \in Deltas, NEW delta \in Deltas
    PROVE  LET from == Freed(id)[c]
               a == AllocatedSlot(from)
               g == Entered(id, c, base, delta)
           IN  /\ DOMAIN g = Classes
               /\ \A d \in Classes : WellFormed(g[d])
               /\ \A d \in Classes \ {c} : g[d] = Freed(id)[d]
               /\ a \notin from.occupied
               /\ g[c].occupied = from.occupied \cup {a}
               /\ a \in Rows(g[c].capacity)
               /\ from.capacity <= g[c].capacity
               /\ g[c].version = Allocate(from).version
               /\ g[c].version[a] = GetVersion(Allocate(from), a)
               /\ \A s \in from.occupied :
                     /\ g[c].version[s] = from.version[s]
                     /\ g[c].written[s] = from.written[s]
                     /\ g[c].column[s] = from.column[s]
               /\ \A p \in Props :
                     Read(g[c], a, p) = IF p \in DOMAIN delta THEN delta[p]
                                        ELSE IF p \in DOMAIN base THEN base[p]
                                        ELSE Undefined
  <1> DEFINE from == Freed(id)[c]
             a == AllocatedSlot(from)
             o == Allocate(from)
             w == WriteAll(o, a, base)
             x == WriteAll(w, a, delta)
             g == Entered(id, c, base, delta)
  <1>1. DOMAIN Freed(id) = Classes /\ \A d \in Classes : WellFormed(Freed(id)[d])
    BY FreedStores
  <1>2. /\ WellFormed(o)
        /\ a \notin from.occupied
        /\ o.occupied = from.occupied \cup {a}
        /\ a \in Rows(o.capacity)
        /\ from.capacity <= o.capacity
        /\ o.written[a] = {}
        /\ \A s \in Rows(from.capacity) :
              /\ o.version[s] = from.version[s]
              /\ o.written[s] = from.written[s]
              /\ o.column[s] = from.column[s]
    BY <1>1, AllocateWellFormed
  <1>3. a \in o.occupied
    BY <1>2
  <1>4. /\ WellFormed(w)
        /\ w.occupied = o.occupied
        /\ w.capacity = o.capacity
        /\ w.version = o.version
        /\ w.written = [o.written EXCEPT ![a] = @ \cup DOMAIN base]
        /\ w.column = [o.column EXCEPT ![a] =
               [p \in Props |-> IF p \in DOMAIN base THEN base[p] ELSE @[p]]]
    BY <1>2, <1>3, WriteAllWellFormed
  <1>5. /\ WellFormed(x)
        /\ x.occupied = w.occupied
        /\ x.capacity = w.capacity
        /\ x.version = w.version
        /\ x.written = [w.written EXCEPT ![a] = @ \cup DOMAIN delta]
        /\ x.column = [w.column EXCEPT ![a] =
               [p \in Props |-> IF p \in DOMAIN delta THEN delta[p] ELSE @[p]]]
    <2> HIDE DEF w, o, a, from
    <2>1. a \in w.occupied /\ WellFormed(w)
      BY <1>3, <1>4
    <2> QED BY <2>1, WriteAllWellFormed
  <1>6. g = [Freed(id) EXCEPT ![c] = x]
    BY DEF Entered
  <1>7. /\ DOMAIN g = Classes
        /\ g[c] = x
        /\ \A d \in Classes \ {c} : g[d] = Freed(id)[d]
    BY <1>1, <1>6
  <1>8. from.occupied \subseteq Rows(from.capacity)
    BY <1>1 DEF WellFormed, StoreOf
  <1>9. /\ o.written \in [Rows(o.capacity) -> SUBSET Props]
        /\ o.column \in [Rows(o.capacity) -> [Props -> Values]]
    BY <1>2 DEF WellFormed, StoreOf
  <1>10. \A s \in Rows(o.capacity) \ {a} :
            x.written[s] = o.written[s] /\ x.column[s] = o.column[s]
    <2> HIDE DEF x, w, o, a
    <2> QED BY <1>4, <1>5, <1>9
  <1>11. \A s \in from.occupied :
            /\ x.version[s] = from.version[s]
            /\ x.written[s] = from.written[s]
            /\ x.column[s] = from.column[s]
    <2> TAKE s \in from.occupied
    <2>1. s \in Rows(from.capacity) /\ s # a
      BY <1>2, <1>8
    <2>2. s \in Rows(o.capacity)
      BY <1>2, <1>3, <2>1 DEF WellFormed, StoreOf
    <2> HIDE DEF x, w, o, a, from
    <2>3. x.version = o.version
      BY <1>4, <1>5
    <2>4. x.written[s] = o.written[s] /\ x.column[s] = o.column[s]
      BY <1>10, <2>1, <2>2
    <2>5. /\ o.version[s] = from.version[s]
          /\ o.written[s] = from.written[s]
          /\ o.column[s] = from.column[s]
      BY <1>2, <2>1
    <2> QED BY <2>3, <2>4, <2>5
  <1>12. /\ x.written[a] = DOMAIN base \cup DOMAIN delta
         /\ \A p \in Props : x.column[a][p] = IF p \in DOMAIN delta THEN delta[p]
                                              ELSE IF p \in DOMAIN base THEN base[p]
                                              ELSE o.column[a][p]
    <2> HIDE DEF x, w, o, a, from
    <2>1. /\ w.written[a] = DOMAIN base
          /\ w.column[a] =
                [p \in Props |-> IF p \in DOMAIN base THEN base[p] ELSE o.column[a][p]]
          /\ w.written \in [Rows(o.capacity) -> SUBSET Props]
          /\ w.column \in [Rows(o.capacity) -> [Props -> Values]]
      <3>1. w.written[a] = DOMAIN base
        BY <1>2, <1>4, <1>9
      <3>2. w.column[a] =
                [p \in Props |-> IF p \in DOMAIN base THEN base[p] ELSE o.column[a][p]]
        BY <1>2, <1>4, <1>9
      <3>3. /\ w.written \in [Rows(o.capacity) -> SUBSET Props]
            /\ w.column \in [Rows(o.capacity) -> [Props -> Values]]
        BY <1>4 DEF WellFormed, StoreOf
      <3> QED BY <3>1, <3>2, <3>3
    <2>2. /\ x.written[a] = DOMAIN base \cup DOMAIN delta
          /\ x.column[a] =
                [p \in Props |-> IF p \in DOMAIN delta THEN delta[p] ELSE w.column[a][p]]
      BY <1>2, <1>5, <2>1
    <2> QED BY <2>1, <2>2
  <1>13. \A p \in Props :
            Read(x, a, p) = IF p \in DOMAIN delta THEN delta[p]
                            ELSE IF p \in DOMAIN base THEN base[p]
                            ELSE Undefined
    <2> HIDE DEF x, o, a
    <2> QED BY <1>12 DEF Read
  <1>14. \A d \in Classes : WellFormed(g[d])
    <2> HIDE DEF x, g
    <2> QED BY <1>1, <1>5, <1>7
  <1>15. x.version[a] = GetVersion(o, a)
    <2> HIDE DEF x, w, o, a
    <2> QED BY <1>2, <1>4, <1>5 DEF GetVersion
  <1>16. /\ x.occupied = from.occupied \cup {a}
         /\ x.capacity = o.capacity
         /\ x.version = o.version
    <2> HIDE DEF x, w, o, a, from
    <2> QED BY <1>2, <1>4, <1>5
  <1> HIDE DEF x, w, g, from, a, o
  <1>17. /\ DOMAIN g = Classes
         /\ \A d \in Classes : WellFormed(g[d])
         /\ \A d \in Classes \ {c} : g[d] = Freed(id)[d]
         /\ a \notin from.occupied
         /\ g[c].occupied = from.occupied \cup {a}
         /\ a \in Rows(g[c].capacity)
         /\ from.capacity <= g[c].capacity
         /\ g[c].version = o.version
         /\ g[c].version[a] = GetVersion(o, a)
    BY <1>2, <1>7, <1>14, <1>15, <1>16
  <1>18. \A s \in from.occupied :
            /\ g[c].version[s] = from.version[s]
            /\ g[c].written[s] = from.written[s]
            /\ g[c].column[s] = from.column[s]
    BY <1>7, <1>11
  <1>19. \A p \in Props :
            Read(g[c], a, p) = IF p \in DOMAIN delta THEN delta[p]
                               ELSE IF p \in DOMAIN base THEN base[p]
                               ELSE Undefined
    BY <1>7, <1>13
  <1> QED BY <1>17, <1>18, <1>19 DEF g, from, a, o

\* Setting the state of an object changes nothing else of the heap.
LEMMA StateChange ==
    ASSUME heap \in Seq(EntityObject), NEW v \in Objects,
           NEW x \in {"active", "dormant", "free"}
    PROVE  LET h == [heap EXCEPT ![v].state = x]
           IN  /\ h \in Seq(EntityObject)
               /\ Len(h) = Len(heap)
               /\ \A w \in Objects : /\ h[w].id = heap[w].id
                                     /\ h[w].class = heap[w].class
                                     /\ h[w].slot = heap[w].slot
                                     /\ h[w].version = heap[w].version
  <1> DEFINE y == [heap[v] EXCEPT !.state = x]
             h == [heap EXCEPT ![v] = y]
  <1>1. heap[v] \in EntityObject
    BY DEF Objects
  <1>2. /\ y \in EntityObject
        /\ y.id = heap[v].id
        /\ y.class = heap[v].class
        /\ y.slot = heap[v].slot
        /\ y.version = heap[v].version
    BY <1>1 DEF EntityObject
  <1>3. h = [heap EXCEPT ![v].state = x]
    OBVIOUS
  <1>4. h \in Seq(EntityObject) /\ Len(h) = Len(heap)
    <2> HIDE DEF y
    <2> QED BY <1>2 DEF Objects
  <1>5. \A w \in Objects : h[w] = IF w = v THEN y ELSE heap[w]
    <2> HIDE DEF y
    <2> QED BY DEF Objects
  <1> HIDE DEF y, h
  <1> QED BY <1>2, <1>3, <1>4, <1>5

\* The heap after Create: one more object, and the others differ in state at most.
LEMMA CreatedHeap ==
    ASSUME IInv, NEW id \in EntityIds, NEW c \in Classes, Create(id, c)
    PROVE  /\ heap' \in Seq(EntityObject)
           /\ Len(heap') = Len(heap) + 1
           /\ Len(heap') <= MaxObjects
           /\ heap'[Len(heap) + 1] = NewEntity(id, c, Freed(id)[c])
           /\ NewEntity(id, c, Freed(id)[c]) \in EntityObject
           /\ \A w \in Objects : /\ heap'[w].id = heap[w].id
                                 /\ heap'[w].class = heap[w].class
                                 /\ heap'[w].slot = heap[w].slot
                                 /\ heap'[w].version = heap[w].version
  <1> DEFINE from == Freed(id)[c]
             new == NewEntity(id, c, from)
             kept == IF Mismatch(id, c) THEN [heap EXCEPT ![Get(id)].state = "free"]
                     ELSE heap
  <1>1. /\ heap \in Seq(EntityObject)
        /\ list[id] \in {NoEntity} \cup Objects
        /\ Len(heap) \in Nat
        /\ MaxObjects \in Nat
    BY EntitiesAssumption DEF IInv, TypeOK
  <1>2. Mismatch(id, c) => Get(id) \in Objects
    BY <1>1 DEF Mismatch, Get
  <1>3. /\ kept \in Seq(EntityObject)
        /\ Len(kept) = Len(heap)
        /\ \A w \in Objects : /\ kept[w].id = heap[w].id
                              /\ kept[w].class = heap[w].class
                              /\ kept[w].slot = heap[w].slot
                              /\ kept[w].version = heap[w].version
    <2>1. CASE Mismatch(id, c)
      <3>1. Get(id) \in Objects /\ kept = [heap EXCEPT ![Get(id)].state = "free"]
        BY <1>2, <2>1
      <3> DEFINE h == [heap EXCEPT ![Get(id)].state = "free"]
      <3>2. /\ h \in Seq(EntityObject)
            /\ Len(h) = Len(heap)
            /\ \A w \in Objects : /\ h[w].id = heap[w].id
                                  /\ h[w].class = heap[w].class
                                  /\ h[w].slot = heap[w].slot
                                  /\ h[w].version = heap[w].version
        BY <1>1, <3>1, StateChange, Zenon
      <3> HIDE DEF h, kept
      <3> QED BY <3>1, <3>2 DEF h
    <2>2. CASE ~ Mismatch(id, c)
      BY <1>1, <2>2
    <2> QED BY <2>1, <2>2
  <1>4. new \in EntityObject
    <2>1. /\ WellFormed(Allocate(from))
          /\ AllocatedSlot(from) \in Rows(Allocate(from).capacity)
      BY FreedStores, AllocateWellFormed
    <2>2. AllocatedSlot(from) \in Nat
      BY <2>1 DEF Rows
    <2>3. GetVersion(Allocate(from), AllocatedSlot(from)) \in 0 .. VersionMod - 1
      BY <2>1 DEF GetVersion, WellFormed, StoreOf
    <2> HIDE DEF from
    <2> QED BY <2>2, <2>3 DEF NewEntity, EntityObject
  <1>5. heap' = Append(kept, new) /\ Len(heap) < MaxObjects
    BY DEF Create
  <1> HIDE DEF new, kept, from
  <1>6. /\ heap' \in Seq(EntityObject)
        /\ Len(heap') = Len(heap) + 1
        /\ heap'[Len(heap) + 1] = new
        /\ \A w \in Objects : heap'[w] = kept[w]
    BY <1>1, <1>3, <1>4, <1>5 DEF Objects
  <1>7. \A w \in Objects : /\ heap'[w].id = heap[w].id
                           /\ heap'[w].class = heap[w].class
                           /\ heap'[w].slot = heap[w].slot
                           /\ heap'[w].version = heap[w].version
    BY <1>3, <1>6
  <1>8. Len(heap') <= MaxObjects
    BY <1>1, <1>5, <1>6
  <1>9. new = NewEntity(id, c, Freed(id)[c])
    BY DEF new, from
  <1> QED BY <1>4, <1>6, <1>7, <1>8, <1>9

\* An entering entry preserves the invariant, whatever of it took effect.
LEMMA EnterPreserves ==
    ASSUME IInv, NEW id \in EntityIds, NEW c \in Classes,
           NEW base \in Deltas, NEW delta \in Deltas,
           Create(id, c), stores' = Entered(id, c, base, delta),
           baselineEntry' \in [Classes -> Blobs \cup {Absent, Corrupt}],
           cachedBaseline' \in [Classes -> Blobs \cup {Absent}]
    PROVE  IInv'
  <1> DEFINE from == Freed(id)[c]
             a == AllocatedSlot(from)
             n == Len(heap) + 1
  <1>1. /\ list \in [EntityIds -> {NoEntity} \cup Objects]
        /\ Len(heap) \in Nat
    BY DEF IInv, TypeOK
  <1>2. /\ list' = [list EXCEPT ![id] = n]
        /\ list'[id] = n
        /\ \A i \in EntityIds \ {id} : list'[i] = list[i]
    BY <1>1 DEF Create
  <1>3. /\ heap' \in Seq(EntityObject)
        /\ Len(heap') = n
        /\ Len(heap') <= MaxObjects
        /\ heap'[n].id = id
        /\ heap'[n].class = c
        /\ heap'[n].slot = a
        /\ \A w \in Objects : /\ heap'[w].id = heap[w].id
                              /\ heap'[w].class = heap[w].class
                              /\ heap'[w].slot = heap[w].slot
    <2>1. /\ heap'[n] = NewEntity(id, c, from)
          /\ heap' \in Seq(EntityObject)
          /\ Len(heap') = n
          /\ Len(heap') <= MaxObjects
      BY CreatedHeap
    <2>2. \A w \in Objects : /\ heap'[w].id = heap[w].id
                             /\ heap'[w].class = heap[w].class
                             /\ heap'[w].slot = heap[w].slot
      BY CreatedHeap
    <2>3. /\ NewEntity(id, c, from).id = id
          /\ NewEntity(id, c, from).class = c
          /\ NewEntity(id, c, from).slot = a
      BY DEF NewEntity
    <2> QED BY <2>1, <2>2, <2>3
  <1>4. /\ DOMAIN stores' = Classes
        /\ \A d \in Classes : WellFormed(stores'[d])
        /\ \A d \in Classes \ {c} : stores'[d].occupied = Freed(id)[d].occupied
        /\ a \notin from.occupied
        /\ stores'[c].occupied = from.occupied \cup {a}
    BY EnteredStores
  <1>5. \A d \in Classes :
            Freed(id)[d].occupied = {s \in stores[d].occupied : ~ Owns(id, d, s)}
    BY FreedStores
  <1>6. Objects' = 1 .. n /\ Objects = 1 .. Len(heap)
    BY <1>3 DEF Objects
  <1>7. \A i \in EntityIds \ {id} : \A d, s : Owns(i, d, s)' <=> Owns(i, d, s)
    BY <1>1, <1>2, <1>3 DEF Owns
  <1>8. \A d, s : Owns(id, d, s)' <=> d = c /\ s = a
    BY <1>1, <1>2, <1>3 DEF Owns
  <1> HIDE DEF from, a, n
  <1>9. TypeOK'
    <2>1. list' \in [EntityIds -> {NoEntity} \cup Objects']
      BY <1>1, <1>2, <1>6 DEF n
    <2>2. \A d \in Classes : /\ stores'[d].capacity \in Nat \ {0}
                             /\ stores'[d] \in StoreOf(stores'[d].capacity)
      BY <1>4 DEF WellFormed
    <2> QED BY <1>3, <1>4, <2>1, <2>2 DEF TypeOK
  <1>10. Ownership'
    <2>1. \A i \in EntityIds : list'[i] # NoEntity =>
             /\ heap'[list'[i]].id = i
             /\ heap'[list'[i]].slot \in stores'[heap'[list'[i]].class].occupied
      <3> TAKE i \in EntityIds
      <3>1. CASE i = id
        BY <1>2, <1>3, <1>4, <3>1
      <3>2. CASE i # id /\ list[i] # NoEntity
        <4> DEFINE d == heap[list[i]].class
                   s == heap[list[i]].slot
        <4>1. /\ list[i] \in Objects
              /\ heap[list[i]].id = i
              /\ d \in Classes
              /\ s \in stores[d].occupied
              /\ Owns(i, d, s)
          BY <3>2, ListedObject
        <4>2. ~ Owns(id, d, s)
          BY <3>2, <4>1 DEF IInv, Ownership
        <4>3. s \in Freed(id)[d].occupied
          BY <1>5, <4>1, <4>2
        <4>4. s \in stores'[d].occupied
          BY <1>4, <4>1, <4>3 DEF from
        <4> QED BY <1>2, <1>3, <3>2, <4>1, <4>4
      <3>3. CASE i # id /\ list[i] = NoEntity
        BY <1>2, <3>3
      <3> QED BY <3>1, <3>2, <3>3
    <2>2. \A d \in Classes : \A s \in stores'[d].occupied :
             \E i \in EntityIds : Owns(i, d, s)'
      <3> TAKE d \in Classes
      <3> TAKE s \in stores'[d].occupied
      <3>1. CASE d = c /\ s = a
        BY <1>8, <3>1
      <3>2. CASE ~ (d = c /\ s = a)
        <4>1. s \in Freed(id)[d].occupied
          BY <1>4, <3>2 DEF from
        <4>2. s \in stores[d].occupied /\ ~ Owns(id, d, s)
          BY <1>5, <4>1
        <4>3. PICK i \in EntityIds : Owns(i, d, s)
          BY <4>2 DEF IInv, Ownership
        <4> QED BY <1>7, <4>2, <4>3
      <3> QED BY <3>1, <3>2
    <2>3. \A i, j \in EntityIds, d \in Classes : \A s \in stores'[d].occupied :
             Owns(i, d, s)' /\ Owns(j, d, s)' => i = j
      <3> TAKE i, j \in EntityIds, d \in Classes
      <3> TAKE s \in stores'[d].occupied
      <3> HAVE Owns(i, d, s)' /\ Owns(j, d, s)'
      <3>1. CASE d = c /\ s = a
        <4>1. \A k \in EntityIds \ {id} : ~ Owns(k, d, s)'
          <5> SUFFICES ASSUME NEW k \in EntityIds \ {id}, Owns(k, d, s)
                       PROVE  FALSE
            BY <1>7
          <5>1. s \in stores[d].occupied
            BY ListedObject DEF Owns
          <5>2. ~ Owns(id, d, s)
            BY <5>1 DEF IInv, Ownership
          <5> QED BY <1>4, <1>5, <3>1, <5>1, <5>2 DEF from
        <4> QED BY <4>1
      <3>2. CASE ~ (d = c /\ s = a)
        <4>1. i # id /\ j # id
          BY <1>8, <3>2
        <4>2. s \in stores[d].occupied
          BY <1>4, <1>5, <3>2 DEF from
        <4> QED BY <1>7, <4>1, <4>2 DEF IInv, Ownership
      <3> QED BY <3>1, <3>2
    <2> QED BY <1>4, <2>1, <2>2, <2>3 DEF Ownership
  <1> QED BY <1>9, <1>10 DEF IInv

\* The types that an entry which creates nothing keeps: one object's state changes.
LEMMA StateChangeKeepsHeap ==
    ASSUME IInv, NEW v \in Objects, NEW x \in {"active", "dormant", "free"},
           heap' = [heap EXCEPT ![v].state = x]
    PROVE  /\ heap' \in Seq(EntityObject)
           /\ Len(heap') = Len(heap)
           /\ Objects' = Objects
           /\ \A w \in Objects : /\ heap'[w].id = heap[w].id
                                 /\ heap'[w].class = heap[w].class
                                 /\ heap'[w].slot = heap[w].slot
                                 /\ heap'[w].version = heap[w].version
  <1> DEFINE h == [heap EXCEPT ![v].state = x]
  <1>1. /\ h \in Seq(EntityObject)
        /\ Len(h) = Len(heap)
        /\ \A w \in Objects : /\ h[w].id = heap[w].id
                              /\ h[w].class = heap[w].class
                              /\ h[w].slot = heap[w].slot
                              /\ h[w].version = heap[w].version
    BY StateChange, Zenon DEF IInv, TypeOK
  <1>2. heap' = h
    OBVIOUS
  <1> HIDE DEF h
  <1> QED BY <1>1, <1>2 DEF Objects

LEMMA DeletePreserves ==
    ASSUME IInv, NEW id \in EntityIds, DeleteEntry(id)
    PROVE  IInv'
  <1>1. /\ list \in [EntityIds -> {NoEntity} \cup Objects]
        /\ Get(id) = list[id]
        /\ list[id] # NoEntity
        /\ list[id] \in Objects
    BY DEF IInv, TypeOK, DeleteEntry, Get
  <1>2. /\ heap' \in Seq(EntityObject)
        /\ Len(heap') = Len(heap)
        /\ Objects' = Objects
        /\ \A w \in Objects : /\ heap'[w].id = heap[w].id
                              /\ heap'[w].class = heap[w].class
                              /\ heap'[w].slot = heap[w].slot
    <2>1. heap' = [heap EXCEPT ![list[id]].state = "free"]
      BY <1>1 DEF DeleteEntry
    <2> QED BY <1>1, <2>1, StateChangeKeepsHeap
  <1>3. /\ list' = [list EXCEPT ![id] = NoEntity]
        /\ list'[id] = NoEntity
        /\ \A i \in EntityIds \ {id} : list'[i] = list[i]
    BY <1>1 DEF DeleteEntry
  <1>4. /\ DOMAIN stores' = Classes
        /\ \A d \in Classes : WellFormed(stores'[d])
        /\ \A d \in Classes :
              stores'[d].occupied = {s \in stores[d].occupied : ~ Owns(id, d, s)}
    BY FreedStores DEF DeleteEntry
  <1>5. \A i \in EntityIds \ {id} : \A d, s : Owns(i, d, s)' <=> Owns(i, d, s)
    BY <1>1, <1>2, <1>3 DEF Owns
  <1>6. \A d, s : ~ Owns(id, d, s)'
    BY <1>3 DEF Owns
  <1>7. TypeOK'
    <2>1. list' \in [EntityIds -> {NoEntity} \cup Objects']
      BY <1>1, <1>2, <1>3
    <2>2. \A d \in Classes : /\ stores'[d].capacity \in Nat \ {0}
                             /\ stores'[d] \in StoreOf(stores'[d].capacity)
      BY <1>4 DEF WellFormed
    <2>3. /\ Len(heap') <= MaxObjects
          /\ baselineEntry' \in [Classes -> Blobs \cup {Absent, Corrupt}]
          /\ cachedBaseline' \in [Classes -> Blobs \cup {Absent}]
      BY <1>2 DEF IInv, TypeOK, DeleteEntry
    <2> QED BY <1>2, <1>4, <2>1, <2>2, <2>3 DEF TypeOK
  <1>8. Ownership'
    <2>1. \A i \in EntityIds : list'[i] # NoEntity =>
             /\ heap'[list'[i]].id = i
             /\ heap'[list'[i]].slot \in stores'[heap'[list'[i]].class].occupied
      <3> SUFFICES ASSUME NEW i \in EntityIds, i # id, list[i] # NoEntity
                   PROVE  /\ heap'[list[i]].id = i
                          /\ heap'[list[i]].slot \in stores'[heap'[list[i]].class].occupied
        BY <1>3
      <3> DEFINE d == heap[list[i]].class
                 s == heap[list[i]].slot
      <3>1. /\ list[i] \in Objects
            /\ heap[list[i]].id = i
            /\ d \in Classes
            /\ s \in stores[d].occupied
            /\ Owns(i, d, s)
        BY ListedObject
      <3>2. ~ Owns(id, d, s)
        BY <3>1 DEF IInv, Ownership
      <3> QED BY <1>2, <1>4, <3>1, <3>2
    <2>2. \A d \in Classes : \A s \in stores'[d].occupied :
             \E i \in EntityIds : Owns(i, d, s)'
      <3> SUFFICES ASSUME NEW d \in Classes, NEW s \in stores[d].occupied,
                          ~ Owns(id, d, s)
                   PROVE  \E i \in EntityIds : Owns(i, d, s)'
        BY <1>4
      <3>1. PICK i \in EntityIds : Owns(i, d, s)
        BY DEF IInv, Ownership
      <3> QED BY <1>5, <3>1
    <2>3. \A i, j \in EntityIds, d \in Classes : \A s \in stores'[d].occupied :
             Owns(i, d, s)' /\ Owns(j, d, s)' => i = j
      BY <1>4, <1>5, <1>6 DEF IInv, Ownership
    <2> QED BY <1>4, <2>1, <2>2, <2>3 DEF Ownership
  <1> QED BY <1>7, <1>8 DEF IInv

LEMMA LeavePreserves ==
    ASSUME IInv, NEW id \in EntityIds, LeaveEntry(id)
    PROVE  IInv'
  <1>1. /\ list \in [EntityIds -> {NoEntity} \cup Objects]
        /\ list[id] \in Objects
    BY DEF IInv, TypeOK, LeaveEntry
  <1>2. /\ heap' \in Seq(EntityObject)
        /\ Len(heap') = Len(heap)
        /\ Objects' = Objects
        /\ \A w \in Objects : /\ heap'[w].id = heap[w].id
                              /\ heap'[w].class = heap[w].class
                              /\ heap'[w].slot = heap[w].slot
    BY <1>1, StateChangeKeepsHeap DEF LeaveEntry
  <1>3. /\ list' = list /\ stores' = stores
        /\ baselineEntry' = baselineEntry /\ cachedBaseline' = cachedBaseline
    BY DEF LeaveEntry
  <1>4. \A i \in EntityIds : \A d, s : Owns(i, d, s)' <=> Owns(i, d, s)
    BY <1>1, <1>2, <1>3 DEF Owns
  <1>5. TypeOK'
    BY <1>2, <1>3 DEF IInv, TypeOK
  <1>6. Ownership'
    <2>1. \A i \in EntityIds : list[i] # NoEntity =>
             /\ heap'[list[i]].id = heap[list[i]].id
             /\ heap'[list[i]].slot = heap[list[i]].slot
             /\ heap'[list[i]].class = heap[list[i]].class
      BY <1>1, <1>2
    <2> QED BY <1>3, <1>4, <2>1 DEF IInv, Ownership
  <1> QED BY <1>5, <1>6 DEF IInv

\* Writing props hands out no slot and returns none.
LEMMA WritesKeepSlots ==
    ASSUME NEW st, WellFormed(st), NEW slot \in st.occupied, NEW delta \in Deltas
    PROVE  /\ WellFormed(WriteAll(st, slot, delta))
           /\ WriteAll(st, slot, delta).occupied = st.occupied
  <1>1. /\ WellFormed(WriteAll(st, slot, delta))
        /\ WriteAll(st, slot, delta).occupied = st.occupied
        /\ WriteAll(st, slot, delta).capacity = st.capacity
        /\ WriteAll(st, slot, delta).version = st.version
        /\ WriteAll(st, slot, delta).written =
               [st.written EXCEPT ![slot] = @ \cup DOMAIN delta]
        /\ WriteAll(st, slot, delta).column =
               [st.column EXCEPT ![slot] =
                   [p \in Props |-> IF p \in DOMAIN delta THEN delta[p] ELSE @[p]]]
    BY WriteAllWellFormed
  <1> QED BY <1>1

LEMMA PreservePreserves ==
    ASSUME IInv, NEW id \in EntityIds, NEW delta \in Deltas, PreserveEntry(id, delta)
    PROVE  IInv'
  <1> DEFINE e == heap[list[id]]
             k == e.class
             w == WriteAll(stores[k], e.slot, delta)
  <1>1. Get(id) = list[id] /\ list[id] # NoEntity
    BY DEF PreserveEntry, Get
  <1>2. k \in Classes /\ e.slot \in stores[k].occupied /\ WellFormed(stores[k])
    BY <1>1, ListedObject DEF IInv, Ownership
  <1>3. WellFormed(w) /\ w.occupied = stores[k].occupied
    BY <1>2, WritesKeepSlots
  <1>4. stores' = [stores EXCEPT ![k] = w]
    BY <1>1 DEF PreserveEntry
  <1>5. /\ DOMAIN stores' = Classes
        /\ \A d \in Classes : /\ WellFormed(stores'[d])
                              /\ stores'[d].occupied = stores[d].occupied
    <2> HIDE DEF w, k
    <2> QED BY <1>2, <1>3, <1>4 DEF IInv, TypeOK, Ownership
  <1>6. UNCHANGED <<list, heap, baselineEntry, cachedBaseline>>
    BY DEF PreserveEntry
  <1>7. TypeOK'
    BY <1>5, <1>6 DEF IInv, TypeOK, WellFormed, Objects
  <1>8. Ownership'
    <2>1. \A i \in EntityIds : \A d, s : Owns(i, d, s)' <=> Owns(i, d, s)
      BY <1>6 DEF Owns
    <2>2. \A i \in EntityIds : list[i] # NoEntity => heap[list[i]].class \in Classes
      BY ListedObject
    <2> QED BY <1>5, <1>6, <2>1, <2>2 DEF IInv, Ownership
  <1> QED BY <1>7, <1>8 DEF IInv

-----------------------------------------------------------------------------
(* The invariant, and what follows from it *)

LEMMA InitEstablishes ==
    ASSUME Init
    PROVE  IInv
  <1>1. \A c \in Classes : /\ InitialCapacity(c) \in Nat \ {0}
                           /\ stores[c] = NewStore(InitialCapacity(c))
    BY EntitiesAssumption DEF Init, InitialCapacity
  <1>2. \A c \in Classes : WellFormed(stores[c]) /\ stores[c].occupied = {}
    BY <1>1, NewStoreWellFormed
  <1>3. TypeOK
    <2>1. heap \in Seq(EntityObject) /\ Len(heap) = 0
      BY DEF Init
    <2> QED BY <1>2, <2>1, EntitiesAssumption DEF Init, TypeOK, WellFormed
  <1>4. Ownership
    BY <1>2 DEF Init, Ownership
  <1> QED BY <1>3, <1>4 DEF IInv

\* Every entry, whatever of it took effect, preserves IInv.
LEMMA NextPreserves ==
    ASSUME IInv, [Next]_vars
    PROVE  IInv'
  <1>1. ASSUME NEW id \in EntityIds, DeleteEntry(id)
        PROVE  IInv'
    BY <1>1, DeletePreserves
  <1>2. ASSUME NEW id \in EntityIds, LeaveEntry(id)
        PROVE  IInv'
    BY <1>2, LeavePreserves
  <1>3. ASSUME NEW id \in EntityIds, NEW c \in Classes, NEW delta \in Changes,
               EnterEntry(id, c, delta)
        PROVE  IInv'
    <2> DEFINE base == IF Baseline(c) = Absent THEN NoProps ELSE Baseline(c)
    <2>1. Baseline(c) \in Blobs \cup {Absent}
      BY <1>3 DEF IInv, TypeOK, Baseline, EnterEntry, BaselineDecodes
    <2>2. base \in Deltas /\ delta \in Deltas
      BY <2>1, NoPropsInDeltas, EntitiesAssumption
    <2>3. /\ Create(id, c)
          /\ stores' = Entered(id, c, base, delta)
          /\ baselineEntry' = baselineEntry
          /\ cachedBaseline' = [cachedBaseline EXCEPT ![c] = Baseline(c)]
      BY <1>3 DEF EnterEntry
    <2>4. /\ baselineEntry' \in [Classes -> Blobs \cup {Absent, Corrupt}]
          /\ cachedBaseline' \in [Classes -> Blobs \cup {Absent}]
      BY <2>1, <2>3 DEF IInv, TypeOK
    <2> HIDE DEF base
    <2> QED BY <2>2, <2>3, <2>4, EnterPreserves
  <1>4. ASSUME NEW id \in EntityIds, NEW c \in Classes, EnterWithoutBaseline(id, c)
        PROVE  IInv'
    BY <1>4, NoPropsInDeltas, EnterPreserves DEF EnterWithoutBaseline, IInv, TypeOK
  <1>5. ASSUME NEW id \in EntityIds, NEW delta \in Changes, PreserveEntry(id, delta)
        PROVE  IInv'
    BY <1>5, PreservePreserves, EntitiesAssumption
  <1>6. ASSUME NEW c \in Classes, NEW b \in Blobs \cup {Absent, Corrupt},
               SetBaselineEntry(c, b)
        PROVE  IInv'
    <2>1. baselineEntry' \in [Classes -> Blobs \cup {Absent, Corrupt}]
      BY <1>6 DEF IInv, TypeOK, SetBaselineEntry
    <2> QED BY <1>6, <2>1 DEF IInv, TypeOK, Ownership, Owns, Objects, SetBaselineEntry
  <1>7. CASE UNCHANGED vars
    BY <1>7 DEF vars, IInv, TypeOK, Ownership, Owns, Objects
  <1> QED BY <1>1, <1>2, <1>3, <1>4, <1>5, <1>6, <1>7 DEF Next

\* IInv holds initially and every step preserves it.
THEOREM InvariantHolds == Spec => []IInv
  <1>1. Init => IInv
    BY InitEstablishes
  <1>2. IInv /\ [Next]_vars => IInv'
    BY NextPreserves
  <1> QED BY <1>1, <1>2, PTL DEF Spec

\* TypeOK is a conjunct of the invariant.
THEOREM TypeCorrect == Spec => []TypeOK
  <1>1. IInv => TypeOK
    BY DEF IInv
  <1> QED BY <1>1, InvariantHolds, PTL

\* However many entities, classes and frees: no storage slot is shared.
THEOREM SlotsNeverShared == Spec => []SlotsExclusive
  <1>1. IInv => SlotsExclusive
    <2> SUFFICES ASSUME IInv, NEW c \in Classes, NEW v \in Live(c), NEW w \in Live(c),
                        heap[v].slot = heap[w].slot
                 PROVE  v = w
      BY DEF SlotsExclusive
    <2>1. /\ heap[v].id \in EntityIds /\ list[heap[v].id] = v
          /\ Owns(heap[v].id, c, heap[v].slot)
          /\ heap[v].slot \in stores[c].occupied
      BY LiveObject
    <2>2. /\ heap[w].id \in EntityIds /\ list[heap[w].id] = w
          /\ Owns(heap[w].id, c, heap[v].slot)
      BY LiveObject
    <2>3. heap[v].id = heap[w].id
      BY <2>1, <2>2 DEF IInv, Ownership
    <2> QED BY <2>1, <2>2, <2>3
  <1> QED BY <1>1, InvariantHolds, PTL

\* The occupied slots of a store are those of the live entities of its class, and the
\* free list holds every other slot handed out, once.
THEOREM SlotsNeverLeak == Spec => []NoSlotLeak
  <1>1. IInv => NoSlotLeak
    <2> SUFFICES ASSUME IInv, NEW c \in Classes
                 PROVE  stores[c].occupied = {heap[v].slot : v \in Live(c)}
      BY DEF NoSlotLeak, IInv, Ownership, WellFormed
    <2>1. ASSUME NEW s \in stores[c].occupied
          PROVE  \E v \in Live(c) : heap[v].slot = s
      <3>1. PICK id \in EntityIds : Owns(id, c, s)
        BY DEF IInv, Ownership
      <3>2. list[id] # NoEntity /\ heap[list[id]].class = c /\ heap[list[id]].slot = s
        BY <3>1 DEF Owns
      <3>3. list[id] \in Live(c)
        BY <3>2, ListedObject DEF Live, Listed
      <3> QED BY <3>2, <3>3
    <2>2. ASSUME NEW v \in Live(c)
          PROVE  heap[v].slot \in stores[c].occupied
      BY LiveObject
    <2> QED BY <2>1, <2>2
  <1> QED BY <1>1, InvariantHolds, PTL

-----------------------------------------------------------------------------
(* The refinement of EntityMap *)

\* What the world shows at id for class d and row s of the stores ss.
ShownRow(ss, d, s) == [class |-> d, props |-> [p \in Props |-> Read(ss[d], s, p)]]

LEMMA WorldAt ==
    ASSUME NEW id \in EntityIds
    PROVE  /\ list[id] = NoEntity => World[id] = Absent
           /\ list[id] # NoEntity =>
                 World[id] = ShownRow(stores, heap[list[id]].class, heap[list[id]].slot)
  BY DEF World, StoredProp, ShownRow

LEMMA WorldAtNext ==
    ASSUME NEW id \in EntityIds
    PROVE  /\ list'[id] = NoEntity => World'[id] = Absent
           /\ list'[id] # NoEntity =>
                 World'[id] = ShownRow(stores', heap'[list'[id]].class, heap'[list'[id]].slot)
  BY DEF World, StoredProp, ShownRow

\* An entity of the abstract map is not the absence of one.
LEMMA ShownIsPresent ==
    ASSUME IInv, NEW id \in EntityIds, list[id] # NoEntity
    PROVE  World[id] # Absent
  <1> DEFINE d == heap[list[id]].class
             s == heap[list[id]].slot
             st == stores[d]
  <1>1. d \in Classes /\ s \in Rows(st.capacity) /\ WellFormed(st)
    BY ListedObject DEF IInv, Ownership
  <1>2. st.column[s] \in [Props -> Values]
    BY <1>1 DEF WellFormed, StoreOf
  <1>3. \A p \in Props : Read(st, s, p) \in Values \cup {Undefined}
    BY <1>2 DEF Read
  <1> HIDE DEF d, s, st
  <1>4. [p \in Props |-> Read(st, s, p)] \in [Props -> Values \cup {Undefined}]
    BY <1>3
  <1>5. ShownRow(stores, d, s) = [class |-> d, props |-> [p \in Props |-> Read(st, s, p)]]
    BY DEF ShownRow, st
  <1>6. ShownRow(stores, d, s) # Absent
    BY <1>1, <1>4, <1>5, EntitiesAssumption
  <1> QED BY <1>6, WorldAt DEF d, s

\* The world changes at id alone, when the list does and the rows of the other ids show
\* what they did.
LEMMA WorldElsewhere ==
    ASSUME IInv, NEW id \in EntityIds,
           \A i \in EntityIds \ {id} : list'[i] = list[i],
           \A w \in Objects : heap'[w].class = heap[w].class /\ heap'[w].slot = heap[w].slot,
           \A d \in Classes : \A s \in stores[d].occupied : ~ Owns(id, d, s) =>
              /\ stores'[d].written[s] = stores[d].written[s]
              /\ stores'[d].column[s] = stores[d].column[s]
    PROVE  World' = [World EXCEPT ![id] = World'[id]]
  <1>1. World = [i \in EntityIds |-> World[i]] /\ World' = [i \in EntityIds |-> World'[i]]
    BY DEF World
  <1>2. ASSUME NEW i \in EntityIds \ {id}
        PROVE  World'[i] = World[i]
    <2>1. CASE list[i] = NoEntity
      BY <2>1, WorldAt, WorldAtNext
    <2>2. CASE list[i] # NoEntity
      <3> DEFINE d == heap[list[i]].class
                 s == heap[list[i]].slot
      <3>1. /\ list[i] \in Objects
            /\ d \in Classes
            /\ s \in stores[d].occupied
            /\ Owns(i, d, s)
        BY <2>2, ListedObject
      <3>2. ~ Owns(id, d, s)
        BY <3>1 DEF IInv, Ownership
      <3> HIDE DEF d, s
      <3>3. \A p \in Props : Read(stores'[d], s, p) = Read(stores[d], s, p)
        BY <3>1, <3>2 DEF Read
      <3>4. ShownRow(stores', d, s) = ShownRow(stores, d, s)
        BY <3>3 DEF ShownRow
      <3>5. heap'[list'[i]].class = d /\ heap'[list'[i]].slot = s
        BY <3>1 DEF d, s
      <3> QED BY <2>2, <3>4, <3>5, WorldAt, WorldAtNext DEF d, s
    <2> QED BY <2>1, <2>2
  <1> HIDE DEF World
  <1> QED BY <1>1, <1>2

LEMMA DeleteMaps ==
    ASSUME IInv, NEW id \in EntityIds, DeleteEntry(id)
    PROVE  Map!Delete(id)
  <1>1. /\ list \in [EntityIds -> {NoEntity} \cup Objects]
        /\ Get(id) = list[id]
        /\ list[id] # NoEntity
        /\ list[id] \in Objects
    BY DEF IInv, TypeOK, DeleteEntry, Get
  <1>2. \A w \in Objects : heap'[w].class = heap[w].class /\ heap'[w].slot = heap[w].slot
    <2>1. heap' = [heap EXCEPT ![list[id]].state = "free"]
      BY <1>1 DEF DeleteEntry
    <2> QED BY <1>1, <2>1, StateChangeKeepsHeap
  <1>3. list'[id] = NoEntity /\ \A i \in EntityIds \ {id} : list'[i] = list[i]
    BY <1>1 DEF DeleteEntry
  <1>4. \A d \in Classes : \A s \in stores[d].occupied : ~ Owns(id, d, s) =>
           /\ stores'[d].written[s] = stores[d].written[s]
           /\ stores'[d].column[s] = stores[d].column[s]
    BY FreedStores DEF DeleteEntry
  <1>5. World' = [World EXCEPT ![id] = World'[id]]
    BY <1>2, <1>3, <1>4, WorldElsewhere
  <1>6. World'[id] = Absent
    BY <1>3, WorldAtNext
  <1>7. World[id] # Absent
    BY <1>1, ShownIsPresent
  <1>8. cachedBaseline' = cachedBaseline
    BY DEF DeleteEntry
  <1> QED BY <1>5, <1>6, <1>7, <1>8 DEF Map!Delete

LEMMA PreserveMaps ==
    ASSUME IInv, NEW id \in EntityIds, NEW delta \in Deltas, PreserveEntry(id, delta)
    PROVE  Map!Update(id, delta)
  <1> DEFINE k == heap[list[id]].class
             t == heap[list[id]].slot
             st == stores[k]
             w == WriteAll(st, t, delta)
  <1>1. /\ Get(id) = list[id]
        /\ list[id] # NoEntity
    BY DEF PreserveEntry, Get
  <1>2. /\ k \in Classes /\ t \in st.occupied /\ WellFormed(st)
        /\ Owns(id, k, t)
    BY <1>1, ListedObject DEF IInv, Ownership
  <1>3. /\ WellFormed(w)
        /\ w.occupied = st.occupied
        /\ w.capacity = st.capacity
        /\ w.version = st.version
        /\ w.written = [st.written EXCEPT ![t] = @ \cup DOMAIN delta]
        /\ w.column = [st.column EXCEPT ![t] =
              [p \in Props |-> IF p \in DOMAIN delta THEN delta[p] ELSE @[p]]]
    <2> HIDE DEF k, t, st
    <2> QED BY <1>2, WriteAllWellFormed
  <1>4. /\ st.written \in [Rows(st.capacity) -> SUBSET Props]
        /\ st.column \in [Rows(st.capacity) -> [Props -> Values]]
        /\ st.occupied \subseteq Rows(st.capacity)
    BY <1>2 DEF WellFormed, StoreOf
  <1>5. stores' = [stores EXCEPT ![k] = w] /\ DOMAIN stores = Classes
    BY <1>1 DEF PreserveEntry, IInv, TypeOK
  <1>6. list' = list /\ heap' = heap /\ cachedBaseline' = cachedBaseline
    BY DEF PreserveEntry
  <1> HIDE DEF w, st
  <1>7. stores'[k] = w /\ \A d \in Classes \ {k} : stores'[d] = stores[d]
    <2> HIDE DEF k
    <2> QED BY <1>2, <1>5
  <1>8. ASSUME NEW d \in Classes, NEW s \in stores[d].occupied, ~ Owns(id, d, s)
        PROVE  /\ stores'[d].written[s] = stores[d].written[s]
               /\ stores'[d].column[s] = stores[d].column[s]
    <2>1. CASE d = k
      <3>1. s # t /\ s \in Rows(st.capacity) /\ stores[d] = st
        BY <1>2, <1>4, <1>8, <2>1 DEF st
      <3> QED BY <1>3, <1>4, <1>7, <2>1, <3>1
    <2>2. CASE d # k
      BY <1>7, <2>2
    <2> QED BY <2>1, <2>2
  <1>9. World' = [World EXCEPT ![id] = World'[id]]
    BY <1>6, <1>8, WorldElsewhere
  <1>10. /\ World[id] = ShownRow(stores, k, t)
         /\ World'[id] = ShownRow(stores', k, t)
    BY <1>1, <1>6, WorldAt, WorldAtNext
  <1>11. \A p \in Props : Read(w, t, p) = IF p \in DOMAIN delta THEN delta[p]
                                          ELSE Read(st, t, p)
    <2>1. /\ w.written[t] = st.written[t] \cup DOMAIN delta
          /\ \A p \in Props : w.column[t][p] = IF p \in DOMAIN delta THEN delta[p]
                                               ELSE st.column[t][p]
      BY <1>2, <1>3, <1>4
    <2> QED BY <2>1 DEF Read
  <1>12. ShownRow(stores', k, t) =
            [ShownRow(stores, k, t) EXCEPT !.props = Map!Overridden(@, delta)]
    <2> HIDE DEF k, t
    <2>1. [p \in Props |-> Read(w, t, p)] =
             Map!Overridden([p \in Props |-> Read(st, t, p)], delta)
      BY <1>11 DEF Map!Overridden
    <2> DEFINE before == [p \in Props |-> Read(st, t, p)]
               after == [p \in Props |-> Read(w, t, p)]
    <2>2. /\ ShownRow(stores, k, t) = [class |-> k, props |-> before]
          /\ ShownRow(stores', k, t) = [class |-> k, props |-> after]
      BY <1>7 DEF ShownRow, st
    <2>3. after = Map!Overridden(before, delta)
      BY <2>1
    <2> HIDE DEF before, after
    <2> QED BY <2>2, <2>3
  <1>13. World[id] # Absent
    BY <1>1, ShownIsPresent
  <1> HIDE DEF k, t
  <1>14. World' = [World EXCEPT ![id].props = Map!Overridden(@, delta)]
    <2> HIDE DEF World
    <2>1. World'[id] = [World[id] EXCEPT !.props = Map!Overridden(@, delta)]
      BY <1>10, <1>12
    <2> QED BY <1>9, <2>1
  <1> QED BY <1>6, <1>13, <1>14 DEF Map!Update

\* An entry that enters shows its baseline overridden by its delta, and nothing else.
LEMMA EnterShows ==
    ASSUME IInv, NEW id \in EntityIds, NEW c \in Classes,
           NEW base \in Deltas, NEW delta \in Deltas,
           Create(id, c), stores' = Entered(id, c, base, delta)
    PROVE  World' = [World EXCEPT ![id] =
              [class |-> c,
               props |-> Map!Overridden(Map!Overridden(Map!Nothing, base), delta)]]
  <1> DEFINE from == Freed(id)[c]
             a == AllocatedSlot(from)
             n == Len(heap) + 1
  <1>1. /\ list \in [EntityIds -> {NoEntity} \cup Objects]
        /\ Len(heap) \in Nat
    BY DEF IInv, TypeOK
  <1>2. /\ list'[id] = n
        /\ n # NoEntity
        /\ \A i \in EntityIds \ {id} : list'[i] = list[i]
    BY <1>1 DEF Create
  <1>3. /\ heap'[n].class = c
        /\ heap'[n].slot = a
        /\ \A w \in Objects : heap'[w].class = heap[w].class /\ heap'[w].slot = heap[w].slot
    <2>1. heap'[n] = NewEntity(id, c, from)
      BY CreatedHeap
    <2>2. \A w \in Objects : heap'[w].class = heap[w].class /\ heap'[w].slot = heap[w].slot
      BY CreatedHeap
    <2> QED BY <2>1, <2>2 DEF NewEntity
  <1>4. /\ \A d \in Classes \ {c} : stores'[d] = Freed(id)[d]
        /\ \A s \in from.occupied : /\ stores'[c].written[s] = from.written[s]
                                    /\ stores'[c].column[s] = from.column[s]
    BY EnteredStores
  <1>5. \A p \in Props :
           Read(stores'[c], a, p) = IF p \in DOMAIN delta THEN delta[p]
                                    ELSE IF p \in DOMAIN base THEN base[p]
                                    ELSE Undefined
    BY EnteredStores
  <1>6. \A d \in Classes :
           /\ Freed(id)[d].occupied = {s \in stores[d].occupied : ~ Owns(id, d, s)}
           /\ Freed(id)[d].column = stores[d].column
           /\ \A s \in Freed(id)[d].occupied :
                 Freed(id)[d].written[s] = stores[d].written[s]
    BY FreedStores
  <1>7. \A d \in Classes : \A s \in stores[d].occupied : ~ Owns(id, d, s) =>
           /\ stores'[d].written[s] = stores[d].written[s]
           /\ stores'[d].column[s] = stores[d].column[s]
    <2> TAKE d \in Classes
    <2>1. CASE d = c
      BY <1>4, <1>6, <2>1
    <2>2. CASE d # c
      BY <1>4, <1>6, <2>2
    <2> QED BY <2>1, <2>2
  <1> HIDE DEF from, a, n
  <1>8. World' = [World EXCEPT ![id] = World'[id]]
    BY <1>2, <1>3, <1>7, WorldElsewhere
  <1>9. World'[id] = ShownRow(stores', c, a)
    BY <1>2, <1>3, WorldAtNext
  <1>10. [p \in Props |-> Read(stores'[c], a, p)] =
            Map!Overridden(Map!Overridden(Map!Nothing, base), delta)
    BY <1>5 DEF Map!Overridden, Map!Nothing
  <1>11. World'[id] =
            [class |-> c,
             props |-> Map!Overridden(Map!Overridden(Map!Nothing, base), delta)]
    BY <1>9, <1>10 DEF ShownRow
  <1> HIDE DEF World
  <1> QED BY <1>8, <1>11

LEMMA EnterMaps ==
    ASSUME IInv, NEW id \in EntityIds, NEW c \in Classes, NEW delta \in Deltas,
           EnterEntry(id, c, delta)
    PROVE  Map!Enter(id, c, delta)
  <1> DEFINE base == IF Baseline(c) = Absent THEN NoProps ELSE Baseline(c)
             b == Baseline(c)
  <1>1. b \in Blobs \cup {Absent}
    BY DEF IInv, TypeOK, Baseline, EnterEntry, BaselineDecodes
  <1>2. base \in Deltas /\ b \in Map!Delta \cup {Absent}
    BY <1>1, NoPropsInDeltas, EntitiesAssumption DEF Map!Delta, Deltas
  <1>3. /\ Create(id, c)
        /\ stores' = Entered(id, c, base, delta)
        /\ cachedBaseline' = [cachedBaseline EXCEPT ![c] = b]
    BY DEF EnterEntry
  <1>4. cachedBaseline[c] # Absent => b = cachedBaseline[c]
    BY DEF Baseline
  <1>5. World' = [World EXCEPT ![id] =
           [class |-> c,
            props |-> Map!Overridden(Map!Overridden(Map!Nothing, base), delta)]]
    <2> HIDE DEF base
    <2> QED BY <1>2, <1>3, EnterShows
  <1>6. Map!Overridden(Map!Nothing, base) =
           IF b = Absent THEN Map!Nothing ELSE Map!Overridden(Map!Nothing, b)
    <2>1. Map!Overridden(Map!Nothing, NoProps) = Map!Nothing
      BY DEF Map!Overridden, Map!Nothing, NoProps
    <2> QED BY <2>1
  <1> HIDE DEF base, b, World
  <1> QED BY <1>2, <1>3, <1>4, <1>5, <1>6 DEF Map!Enter

LEMMA EnterWithoutBaselineMaps ==
    ASSUME IInv, NEW id \in EntityIds, NEW c \in Classes, EnterWithoutBaseline(id, c)
    PROVE  Map!Enter(id, c, NoProps)
  <1>1. /\ Baseline(c) = Corrupt
        /\ Create(id, c)
        /\ stores' = Entered(id, c, NoProps, NoProps)
        /\ cachedBaseline' = cachedBaseline
    BY DEF EnterWithoutBaseline, BaselineDecodes
  <1>2. cachedBaseline \in [Classes -> Blobs \cup {Absent}]
    BY DEF IInv, TypeOK
  <1>3. cachedBaseline[c] = Absent
    BY <1>1, <1>2, EntitiesAssumption DEF Baseline
  <1>4. cachedBaseline' = [cachedBaseline EXCEPT ![c] = Absent]
    BY <1>1, <1>2, <1>3
  <1>5. World' = [World EXCEPT ![id] =
           [class |-> c,
            props |-> Map!Overridden(Map!Overridden(Map!Nothing, NoProps), NoProps)]]
    BY <1>1, NoPropsInDeltas, EnterShows
  <1>6. Map!Overridden(Map!Nothing, NoProps) = Map!Nothing
    BY DEF Map!Overridden, Map!Nothing, NoProps
  <1> HIDE DEF World
  <1> QED BY <1>3, <1>4, <1>5, <1>6 DEF Map!Enter

\* Entries the abstract map does not see.
LEMMA LeaveMaps ==
    ASSUME IInv, NEW id \in EntityIds, LeaveEntry(id)
    PROVE  UNCHANGED Map!vars
  <1>1. list[id] \in Objects
    BY DEF IInv, TypeOK, LeaveEntry
  <1>2. \A w \in Objects : heap'[w].class = heap[w].class /\ heap'[w].slot = heap[w].slot
    BY <1>1, StateChangeKeepsHeap DEF LeaveEntry
  <1>3. list' = list /\ stores' = stores /\ cachedBaseline' = cachedBaseline
    BY DEF LeaveEntry
  <1>4. \A i \in EntityIds : list[i] # NoEntity => list[i] \in Objects
    BY ListedObject
  <1>5. World' = World
    BY <1>2, <1>3, <1>4 DEF World, StoredProp
  <1> QED BY <1>3, <1>5 DEF Map!vars

\* Entry by entry, whichever part of it took effect before it threw: what an entity shows
\* is what the abstract map gives it for the same delta, so nothing of an earlier user of
\* its slot shows through.
THEOREM EntriesMatch == Spec => EntriesMatchMap
  <1>1. IInv /\ [Next]_vars =>
           [ \A id \in EntityIds :
               /\ DeleteEntry(id) => Map!Delete(id)
               /\ \A delta \in Changes :
                     /\ PreserveEntry(id, delta) => Map!Update(id, delta)
                     /\ \A c \in Classes : EnterEntry(id, c, delta) => Map!Enter(id, c, delta)
               /\ \A c \in Classes : EnterWithoutBaseline(id, c) => Map!Enter(id, c, NoProps)
           ]_vars
    <2> SUFFICES ASSUME IInv, NEW id \in EntityIds
                 PROVE  /\ DeleteEntry(id) => Map!Delete(id)
                        /\ \A delta \in Changes :
                              /\ PreserveEntry(id, delta) => Map!Update(id, delta)
                              /\ \A c \in Classes :
                                    EnterEntry(id, c, delta) => Map!Enter(id, c, delta)
                        /\ \A c \in Classes :
                              EnterWithoutBaseline(id, c) => Map!Enter(id, c, NoProps)
      OBVIOUS
    <2>1. Changes \subseteq Deltas
      BY EntitiesAssumption
    <2> QED BY <2>1, DeleteMaps, PreserveMaps, EnterMaps, EnterWithoutBaselineMaps
  <1> QED BY <1>1, InvariantHolds, PTL DEF Spec, EntriesMatchMap

\* Every run of the decoder is a run of the abstract map: a step changes what one id shows
\* or nothing, and a class keeps the first baseline found for it.
THEOREM ImplementsMap == Spec => ImplementsEntityMap
  <1>1. Init => Map!Init
    <2> SUFFICES ASSUME Init PROVE Map!Init
      OBVIOUS
    <2>1. \A id \in EntityIds : list[id] = NoEntity
      BY DEF Init
    <2> QED BY <2>1 DEF Init, Map!Init, World
  <1>2. IInv /\ [Next]_vars => [Map!Next]_(Map!vars)
    <2> SUFFICES ASSUME IInv, [Next]_vars PROVE [Map!Next]_(Map!vars)
      OBVIOUS
    <2>1. ASSUME NEW id \in EntityIds, DeleteEntry(id)
          PROVE  Map!Next
      BY <2>1, DeleteMaps DEF Map!Next
    <2>2. ASSUME NEW id \in EntityIds, LeaveEntry(id)
          PROVE  UNCHANGED Map!vars
      BY <2>2, LeaveMaps
    <2>3. ASSUME NEW id \in EntityIds, NEW c \in Classes, NEW delta \in Changes,
                 EnterEntry(id, c, delta)
          PROVE  Map!Next
      <3>1. delta \in Deltas /\ delta \in Map!Delta
        BY EntitiesAssumption DEF Map!Delta, Deltas
      <3> QED BY <2>3, <3>1, EnterMaps DEF Map!Next
    <2>4. ASSUME NEW id \in EntityIds, NEW c \in Classes, EnterWithoutBaseline(id, c)
          PROVE  Map!Next
      <3>1. NoProps \in Map!Delta
        BY NoPropsInDeltas DEF Map!Delta, Deltas
      <3> QED BY <2>4, <3>1, EnterWithoutBaselineMaps DEF Map!Next
    <2>5. ASSUME NEW id \in EntityIds, NEW delta \in Changes, PreserveEntry(id, delta)
          PROVE  Map!Next
      <3>1. delta \in Deltas /\ delta \in Map!Delta
        BY EntitiesAssumption DEF Map!Delta, Deltas
      <3> QED BY <2>5, <3>1, PreserveMaps DEF Map!Next
    <2>6. ASSUME NEW c \in Classes, NEW b, SetBaselineEntry(c, b)
          PROVE  UNCHANGED Map!vars
      BY <2>6 DEF SetBaselineEntry, Map!vars, World, StoredProp
    <2>7. CASE UNCHANGED vars
      BY <2>7 DEF vars, Map!vars, World, StoredProp
    <2> QED BY <2>1, <2>2, <2>3, <2>4, <2>5, <2>6, <2>7 DEF Next
  <1> QED BY <1>1, <1>2, InvariantHolds, PTL DEF Spec, ImplementsEntityMap, Map!Spec

-----------------------------------------------------------------------------
(* The staleness check of Entity.ts is exact: while no slotVersions entry  *)
(* can wrap, a view reads as fresh if and only if it is still listed       *)

\* The store of view v's class among the stores ss.
StoreIn(ss, v) == ss[heap[v].class]

\* The view a step at id takes out of the list.
Gone(id, v) == ~ Listed(v) \/ v = list[id]

\* A counter below its modulus does not wrap.
LEMMA SmallMod ==
    ASSUME NEW x \in Nat, NEW m \in Nat, x < m
    PROVE  x % m = x
  OBVIOUS

\* What free() does to the versions.
LEMMA FreedVersion ==
    ASSUME NEW st, WellFormed(st), NEW slot \in st.occupied
    PROVE  Free(st, slot).version = [st.version EXCEPT ![slot] = (@ + 1) % VersionMod]
  <1>1. /\ WellFormed(Free(st, slot))
        /\ Free(st, slot).occupied = st.occupied \ {slot}
        /\ Free(st, slot).capacity = st.capacity
        /\ Free(st, slot).column = st.column
        /\ Free(st, slot).version = [st.version EXCEPT ![slot] = (@ + 1) % VersionMod]
        /\ Free(st, slot).written = [st.written EXCEPT ![slot] = {}]
    BY FreeWellFormed
  <1> QED BY <1>1

\* What a view of any age knows about its slot.
LEMMA ViewFacts ==
    ASSUME IInv, NEW v \in Objects
    PROVE  /\ heap[v] \in EntityObject
           /\ heap[v].id \in EntityIds
           /\ heap[v].class \in Classes
           /\ v \in Nat \ {0}
           /\ v <= Len(heap)
           /\ Len(heap) \in Nat
           /\ Len(heap) <= MaxObjects
           /\ WellFormed(stores[heap[v].class])
  <1>1. heap \in Seq(EntityObject) /\ Len(heap) <= MaxObjects
    BY DEF IInv, TypeOK
  <1>2. heap[v] \in EntityObject
    BY <1>1 DEF Objects
  <1>3. heap[v].id \in EntityIds /\ heap[v].class \in Classes
    BY <1>2 DEF EntityObject
  <1>4. v \in Nat \ {0} /\ v <= Len(heap) /\ Len(heap) \in Nat
    BY <1>1 DEF Objects
  <1> QED BY <1>1, <1>2, <1>3, <1>4 DEF IInv, Ownership

\* Two listed views with one class and one slot are the same view.
LEMMA ListedSlot ==
    ASSUME IInv, NEW v \in Objects, NEW w \in Objects, Listed(v), Listed(w),
           heap[v].class = heap[w].class, heap[v].slot = heap[w].slot
    PROVE  v = w
  <1> DEFINE c == heap[v].class
  <1>1. c \in Classes
    BY ViewFacts
  <1>2. v \in Live(c) /\ w \in Live(c)
    BY DEF Live
  <1>3. /\ Owns(heap[v].id, c, heap[v].slot) /\ heap[v].id \in EntityIds
        /\ list[heap[v].id] = v /\ heap[v].slot \in stores[c].occupied
    BY <1>1, <1>2, LiveObject
  <1>4. /\ Owns(heap[w].id, c, heap[v].slot) /\ heap[w].id \in EntityIds
        /\ list[heap[w].id] = w
    BY <1>1, <1>2, LiveObject
  <1> QED BY <1>1, <1>3, <1>4 DEF IInv, Ownership

\* Freeing the slot of the view at id moves its version past every view that used it.
LEMMA FreedVersions ==
    ASSUME IInv, Versions, NoVersionWrap, NEW id \in EntityIds
    PROVE  /\ \A c \in Classes : \A s \in Rows(stores[c].capacity) :
                 Freed(id)[c].version[s] <= Len(heap)
           /\ \A v \in Objects :
                 /\ Gone(id, v) =>
                       heap[v].version < StoreIn(Freed(id), v).version[heap[v].slot]
                 /\ ~ Gone(id, v) =>
                       heap[v].version = StoreIn(Freed(id), v).version[heap[v].slot]
  <1>1. CASE list[id] = NoEntity
    <2>1. Freed(id) = stores
      BY <1>1 DEF Freed
    <2>2. \A v \in Objects : v # list[id]
      BY <1>1, ViewFacts DEF NoEntity
    <2>3. \A v \in Objects : Gone(id, v) <=> ~ Listed(v)
      BY <2>2 DEF Gone
    <2>4. \A v \in Objects : StoreIn(Freed(id), v) = stores[heap[v].class]
      BY <2>1 DEF StoreIn
    <2> QED BY <2>1, <2>3, <2>4 DEF Versions
  <1>2. CASE list[id] # NoEntity
    <2> DEFINE u == list[id]
               k == heap[u].class
               t == heap[u].slot
               f == Free(stores[k], t)
    <2>1. /\ u \in Objects
          /\ k \in Classes
          /\ t \in stores[k].occupied
          /\ t \in Rows(stores[k].capacity)
          /\ WellFormed(stores[k])
          /\ Listed(u)
      BY <1>2, ListedObject DEF IInv, Ownership, Listed
    <2>2. f.version = [stores[k].version EXCEPT ![t] = (@ + 1) % VersionMod]
      BY <2>1, FreedVersion
    <2>3. stores[k].version \in [Rows(stores[k].capacity) -> 0 .. VersionMod - 1]
      BY <2>1 DEF WellFormed, StoreOf
    <2>4. stores[k].version[t] = heap[u].version /\ heap[u].version < u
      BY <2>1 DEF Versions
    <2>5. /\ u <= Len(heap) /\ Len(heap) <= MaxObjects
          /\ Len(heap) \in Nat /\ u \in Nat /\ VersionMod \in Nat /\ MaxObjects \in Nat
          /\ stores[k].version[t] \in Nat
      BY <2>1, <2>3, ViewFacts, StoreAssumption, EntitiesAssumption
    <2>6. /\ f.version[t] = stores[k].version[t] + 1
          /\ f.version[t] <= Len(heap)
      <3>1. stores[k].version[t] + 1 <= Len(heap)
        BY <2>4, <2>5
      <3>2. stores[k].version[t] + 1 < VersionMod
        BY <3>1, <2>5 DEF NoVersionWrap
      <3>3. (stores[k].version[t] + 1) % VersionMod = stores[k].version[t] + 1
        BY <3>2, <2>5, SmallMod
      <3>4. f.version[t] = (stores[k].version[t] + 1) % VersionMod
        BY <2>1, <2>2, <2>3
      <3> QED BY <3>1, <3>3, <3>4
    <2>7. \A s \in Rows(stores[k].capacity) \ {t} : f.version[s] = stores[k].version[s]
      BY <2>2, <2>3
    <2>8. /\ Freed(id)[k] = f
          /\ \A c \in Classes \ {k} : Freed(id)[c] = stores[c]
      BY <1>2, <2>1 DEF Freed, IInv, TypeOK
    <2> HIDE DEF f
    <2>9. \A c \in Classes : \A s \in Rows(stores[c].capacity) :
             Freed(id)[c].version[s] <= Len(heap)
      BY <2>6, <2>7, <2>8 DEF Versions
    <2>10. ASSUME NEW v \in Objects
           PROVE  /\ Gone(id, v) =>
                       heap[v].version < StoreIn(Freed(id), v).version[heap[v].slot]
                  /\ ~ Gone(id, v) =>
                       heap[v].version = StoreIn(Freed(id), v).version[heap[v].slot]
      <3> DEFINE d == heap[v].class
                 s == heap[v].slot
      <3>1. /\ d \in Classes
            /\ s \in Rows(stores[d].capacity)
            /\ heap[v].version \in Nat
            /\ Listed(v) => heap[v].version = stores[d].version[s]
            /\ ~ Listed(v) => heap[v].version < stores[d].version[s]
        BY ViewFacts DEF Versions, EntityObject
      <3>2. CASE d = k /\ s = t
        <4>1. StoreIn(Freed(id), v).version[s] = stores[k].version[t] + 1
          BY <2>6, <2>8, <3>2 DEF StoreIn
        <4>2. Gone(id, v)
          BY <2>1, <3>2, ListedSlot DEF Gone
        <4>3. heap[v].version < stores[k].version[t] + 1
          BY <2>5, <3>1, <3>2
        <4> QED BY <4>1, <4>2, <4>3
      <3>3. CASE ~ (d = k /\ s = t)
        <4>1. StoreIn(Freed(id), v).version[s] = stores[d].version[s]
          BY <2>7, <2>8, <3>1, <3>3 DEF StoreIn
        <4>2. v # u
          BY <3>3
        <4> QED BY <3>1, <4>1, <4>2 DEF Gone
      <3> QED BY <3>2, <3>3
    <2> QED BY <2>9, <2>10
  <1> QED BY <1>1, <1>2

\* Once the entry at id has replaced or removed what was listed there, the views still
\* listed are those that are not gone.
LEMMA ListedAfter ==
    ASSUME IInv, NEW id \in EntityIds, NEW v \in Objects,
           list'[id] \notin Objects,
           \A i \in EntityIds \ {id} : list'[i] = list[i],
           heap'[v].id = heap[v].id
    PROVE  Listed(v)' <=> ~ Gone(id, v)
  <1>1. heap[v].id \in EntityIds /\ v # NoEntity
    BY ViewFacts DEF NoEntity
  <1>2. CASE heap[v].id = id
    BY <1>1, <1>2 DEF Listed, Gone
  <1>3. CASE heap[v].id # id
    <2>1. v # list[id]
      BY <1>1, <1>3, ListedObject
    <2>2. Listed(v)' <=> Listed(v)
      BY <1>1, <1>3 DEF Listed
    <2> QED BY <2>1, <2>2 DEF Gone
  <1> QED BY <1>2, <1>3

\* The versions a step keeps: the same objects and list, and no version moves.
LEMMA QuietKeepsVersions ==
    ASSUME IInv, Versions, list' = list, Len(heap') = Len(heap),
           \A w \in Objects : /\ heap'[w].id = heap[w].id
                              /\ heap'[w].class = heap[w].class
                              /\ heap'[w].slot = heap[w].slot
                              /\ heap'[w].version = heap[w].version,
           \A c \in Classes : /\ stores'[c].capacity = stores[c].capacity
                              /\ stores'[c].version = stores[c].version
    PROVE  Versions'
  <1>1. Objects' = Objects
    BY DEF Objects
  <1>2. \A v \in Objects : heap[v].class \in Classes
    BY ViewFacts
  <1>3. \A v \in Objects : Listed(v)' <=> Listed(v)
    BY DEF Listed
  <1> QED BY <1>1, <1>2, <1>3 DEF Versions

LEMMA DeleteVersions ==
    ASSUME IInv, Versions, NoVersionWrap, NEW id \in EntityIds, DeleteEntry(id)
    PROVE  Versions'
  <1>1. /\ list \in [EntityIds -> {NoEntity} \cup Objects]
        /\ Get(id) = list[id]
        /\ list[id] \in Objects
    BY DEF IInv, TypeOK, DeleteEntry, Get
  <1>2. heap' = [heap EXCEPT ![list[id]].state = "free"]
    BY <1>1 DEF DeleteEntry
  <1>3. /\ heap' \in Seq(EntityObject)
        /\ Len(heap') = Len(heap)
        /\ Objects' = Objects
        /\ \A w \in Objects : /\ heap'[w].id = heap[w].id
                              /\ heap'[w].class = heap[w].class
                              /\ heap'[w].slot = heap[w].slot
                              /\ heap'[w].version = heap[w].version
    BY <1>1, <1>2, StateChangeKeepsHeap
  <1>4. list'[id] = NoEntity /\ \A i \in EntityIds \ {id} : list'[i] = list[i]
    BY <1>1 DEF DeleteEntry
  <1>5. list'[id] \notin Objects
    BY <1>4, ViewFacts DEF NoEntity
  <1>6. \A v \in Objects : Listed(v)' <=> ~ Gone(id, v)
    BY <1>3, <1>4, <1>5, ListedAfter
  <1>7. stores' = Freed(id)
    BY DEF DeleteEntry
  <1>8. \A c \in Classes : Freed(id)[c].capacity = stores[c].capacity
    BY FreedStores
  <1>9. \A c \in Classes : \A s \in Rows(stores'[c].capacity) :
           stores'[c].version[s] <= Len(heap')
    BY <1>3, <1>7, <1>8, FreedVersions
  <1>10. ASSUME NEW v \in Objects
         PROVE  LET st == stores[heap[v].class]' IN
                /\ heap'[v].slot \in Rows(st.capacity)
                /\ heap'[v].version < v
                /\ Listed(v)' => heap'[v].version = st.version[heap'[v].slot]
                /\ ~ Listed(v)' => heap'[v].version < st.version[heap'[v].slot]
    <2>1. heap[v].class \in Classes
      BY ViewFacts
    <2>2. heap[v].slot \in Rows(stores[heap[v].class].capacity) /\ heap[v].version < v
      BY DEF Versions
    <2>3. /\ Gone(id, v) => heap[v].version < StoreIn(Freed(id), v).version[heap[v].slot]
          /\ ~ Gone(id, v) => heap[v].version = StoreIn(Freed(id), v).version[heap[v].slot]
      BY FreedVersions
    <2> QED BY <1>3, <1>6, <1>7, <1>8, <2>1, <2>2, <2>3 DEF StoreIn
  <1> QED BY <1>3, <1>9, <1>10 DEF Versions

LEMMA EnterVersions ==
    ASSUME IInv, Versions, NoVersionWrap, NEW id \in EntityIds, NEW c \in Classes,
           NEW base \in Deltas, NEW delta \in Deltas,
           Create(id, c), stores' = Entered(id, c, base, delta)
    PROVE  Versions'
  <1> DEFINE from == Freed(id)[c]
             a == AllocatedSlot(from)
             o == Allocate(from)
             n == Len(heap) + 1
  <1>1. /\ list \in [EntityIds -> {NoEntity} \cup Objects]
        /\ Len(heap) \in Nat
    BY DEF IInv, TypeOK
  <1>2. /\ list'[id] = n
        /\ \A i \in EntityIds \ {id} : list'[i] = list[i]
    BY <1>1 DEF Create
  <1>3. /\ Len(heap') = n
        /\ heap'[n] = NewEntity(id, c, from)
        /\ \A w \in Objects : /\ heap'[w].id = heap[w].id
                              /\ heap'[w].class = heap[w].class
                              /\ heap'[w].slot = heap[w].slot
                              /\ heap'[w].version = heap[w].version
    <2>1. /\ heap' \in Seq(EntityObject)
          /\ Len(heap') = Len(heap) + 1
          /\ Len(heap') <= MaxObjects
          /\ heap'[Len(heap) + 1] = NewEntity(id, c, Freed(id)[c])
          /\ NewEntity(id, c, Freed(id)[c]) \in EntityObject
          /\ \A w \in Objects : /\ heap'[w].id = heap[w].id
                                /\ heap'[w].class = heap[w].class
                                /\ heap'[w].slot = heap[w].slot
                                /\ heap'[w].version = heap[w].version
      BY CreatedHeap
    <2> QED BY <2>1
  <1>4. Objects' = Objects \cup {n} /\ n \notin Objects
    BY <1>1, <1>3 DEF Objects
  <1>5. \A v \in Objects : Listed(v)' <=> ~ Gone(id, v)
    BY <1>2, <1>3, <1>4, ListedAfter
  <1>6. /\ \A d \in Classes \ {c} : stores'[d] = Freed(id)[d]
        /\ stores'[c].version = o.version
        /\ a \in Rows(stores'[c].capacity)
        /\ from.capacity <= stores'[c].capacity
        /\ \A d \in Classes : WellFormed(stores'[d])
    BY EnteredStores
  <1>7. \A d \in Classes : /\ WellFormed(Freed(id)[d])
                           /\ Freed(id)[d].capacity = stores[d].capacity
    BY FreedStores
  <1>8. /\ WellFormed(o)
        /\ a \in Rows(o.capacity)
        /\ \A s \in Rows(from.capacity) : o.version[s] = from.version[s]
        /\ \A s \in Rows(o.capacity) \ Rows(from.capacity) : o.version[s] = 0
    BY <1>7, AllocateWellFormed
  <1>9. \A s \in Rows(o.capacity) : o.version[s] <= Len(heap)
    BY <1>1, <1>7, <1>8, FreedVersions
  <1>10. Rows(stores'[c].capacity) = Rows(o.capacity)
    <2>1. DOMAIN stores'[c].version = Rows(stores'[c].capacity)
      BY <1>6 DEF WellFormed, StoreOf
    <2>2. DOMAIN o.version = Rows(o.capacity)
      BY <1>8 DEF WellFormed, StoreOf
    <2> QED BY <1>6, <2>1, <2>2
  <1>11. \A d \in Classes : stores[d].capacity \in Nat /\ stores'[d].capacity \in Nat
    BY <1>6 DEF WellFormed, IInv, TypeOK
  <1>12. /\ NewEntity(id, c, from).id = id
         /\ NewEntity(id, c, from).class = c
         /\ NewEntity(id, c, from).slot = a
         /\ NewEntity(id, c, from).version = o.version[a]
    BY <1>8 DEF NewEntity, GetVersion
  <1>13. o.version[a] \in Nat
    BY <1>8, StoreAssumption DEF WellFormed, StoreOf
  <1> HIDE DEF from, a, o, n
  <1>14. \A d \in Classes : \A s \in Rows(stores'[d].capacity) :
           stores'[d].version[s] <= Len(heap')
    <2> SUFFICES ASSUME NEW d \in Classes, NEW s \in Rows(stores'[d].capacity)
                 PROVE  stores'[d].version[s] <= Len(heap) /\ stores'[d].version[s] \in Nat
      BY <1>1, <1>3 DEF n
    <2>1. stores'[d].version[s] \in Nat
      BY <1>6, StoreAssumption DEF WellFormed, StoreOf
    <2>2. stores'[d].version[s] <= Len(heap)
      <3>1. CASE d = c
        BY <1>6, <1>9, <1>10, <3>1
      <3>2. CASE d # c
        BY <1>6, <1>7, <3>2, FreedVersions
      <3> QED BY <3>1, <3>2
    <2> QED BY <2>1, <2>2
  <1>15. ASSUME NEW v \in Objects
         PROVE  LET st == stores[heap[v].class]' IN
                /\ heap'[v].slot \in Rows(st.capacity)
                /\ heap'[v].version < v
                /\ Listed(v)' => heap'[v].version = st.version[heap'[v].slot]
                /\ ~ Listed(v)' => heap'[v].version < st.version[heap'[v].slot]
    <2> DEFINE d == heap[v].class
               s == heap[v].slot
    <2>1. d \in Classes
      BY ViewFacts
    <2>2. s \in Rows(stores[d].capacity) /\ heap[v].version < v
      BY DEF Versions
    <2>3. /\ Gone(id, v) => heap[v].version < StoreIn(Freed(id), v).version[s]
          /\ ~ Gone(id, v) => heap[v].version = StoreIn(Freed(id), v).version[s]
      BY FreedVersions
    <2>4. stores'[d].version[s] = Freed(id)[d].version[s] /\ s \in Rows(stores'[d].capacity)
      <3>1. CASE d = c
        BY <1>6, <1>7, <1>8, <1>11, <2>1, <2>2, <3>1 DEF from, Rows
      <3>2. CASE d # c
        BY <1>6, <1>7, <2>1, <2>2, <3>2
      <3> QED BY <3>1, <3>2
    <2>5. heap'[v].class = d /\ heap'[v].slot = s /\ heap'[v].version = heap[v].version
      BY <1>3
    <2> QED BY <1>5, <2>2, <2>3, <2>4, <2>5 DEF StoreIn
  <1>16. LET st == stores'[heap'[n].class] IN
           /\ heap'[n].slot \in Rows(st.capacity)
           /\ heap'[n].version < n
           /\ list'[heap'[n].id] = n
           /\ heap'[n].version = st.version[heap'[n].slot]
    <2>1. o.version[a] < n
      BY <1>1, <1>8, <1>9, <1>13 DEF n
    <2> QED BY <1>2, <1>3, <1>6, <1>12, <2>1
  <1> QED BY <1>4, <1>14, <1>15, <1>16 DEF Versions, Listed

\* Every entry keeps the versions in order.
LEMMA StepVersions ==
    ASSUME IInv, Versions, NoVersionWrap, [Next]_vars
    PROVE  Versions'
  <1>1. ASSUME NEW id \in EntityIds, DeleteEntry(id)
        PROVE  Versions'
    BY <1>1, DeleteVersions
  <1>2. ASSUME NEW id \in EntityIds, LeaveEntry(id)
        PROVE  Versions'
    <2>1. list[id] \in Objects
      BY <1>2 DEF IInv, TypeOK, LeaveEntry
    <2>2. /\ heap' \in Seq(EntityObject)
          /\ Len(heap') = Len(heap)
          /\ Objects' = Objects
          /\ \A w \in Objects : /\ heap'[w].id = heap[w].id
                                /\ heap'[w].class = heap[w].class
                                /\ heap'[w].slot = heap[w].slot
                                /\ heap'[w].version = heap[w].version
      BY <1>2, <2>1, StateChangeKeepsHeap DEF LeaveEntry
    <2>3. list' = list /\ stores' = stores
      BY <1>2 DEF LeaveEntry
    <2> QED BY <2>2, <2>3, QuietKeepsVersions
  <1>3. ASSUME NEW id \in EntityIds, NEW c \in Classes, NEW delta \in Changes,
               EnterEntry(id, c, delta)
        PROVE  Versions'
    <2> DEFINE base == IF Baseline(c) = Absent THEN NoProps ELSE Baseline(c)
    <2>1. Baseline(c) \in Blobs \cup {Absent}
      BY <1>3 DEF IInv, TypeOK, Baseline, EnterEntry, BaselineDecodes
    <2>2. base \in Deltas /\ delta \in Deltas
      BY <2>1, NoPropsInDeltas, EntitiesAssumption
    <2>3. Create(id, c) /\ stores' = Entered(id, c, base, delta)
      BY <1>3 DEF EnterEntry
    <2> HIDE DEF base
    <2> QED BY <2>2, <2>3, EnterVersions
  <1>4. ASSUME NEW id \in EntityIds, NEW c \in Classes, EnterWithoutBaseline(id, c)
        PROVE  Versions'
    BY <1>4, NoPropsInDeltas, EnterVersions DEF EnterWithoutBaseline
  <1>5. ASSUME NEW id \in EntityIds, NEW delta \in Changes, PreserveEntry(id, delta)
        PROVE  Versions'
    <2> DEFINE k == heap[list[id]].class
               t == heap[list[id]].slot
               w == WriteAll(stores[k], t, delta)
    <2>1. Get(id) = list[id] /\ list[id] # NoEntity
      BY <1>5 DEF PreserveEntry, Get
    <2>2. /\ k \in Classes /\ t \in stores[k].occupied /\ WellFormed(stores[k])
          /\ delta \in Deltas
      BY <2>1, ListedObject, EntitiesAssumption DEF IInv, Ownership
    <2>3. w.capacity = stores[k].capacity /\ w.version = stores[k].version
      BY <2>2 DEF WriteAll, WellFormed, StoreOf
    <2>4. stores' = [stores EXCEPT ![k] = w] /\ list' = list /\ heap' = heap
      BY <1>5, <2>1 DEF PreserveEntry
    <2> HIDE DEF w, k
    <2>5. \A c \in Classes : /\ stores'[c].capacity = stores[c].capacity
                             /\ stores'[c].version = stores[c].version
      BY <2>2, <2>3, <2>4 DEF IInv, TypeOK
    <2> QED BY <2>4, <2>5, QuietKeepsVersions
  <1>6. ASSUME NEW c \in Classes, NEW b \in Blobs \cup {Absent, Corrupt},
               SetBaselineEntry(c, b)
        PROVE  Versions'
    BY <1>6, QuietKeepsVersions DEF SetBaselineEntry
  <1>7. CASE UNCHANGED vars
    BY <1>7, QuietKeepsVersions DEF vars
  <1> QED BY <1>1, <1>2, <1>3, <1>4, <1>5, <1>6, <1>7 DEF Next

\* While fewer entities are created than a version has values, the staleness check never
\* lets a read through an object that was replaced, and never rejects one that was not.
THEOREM StalenessExact ==
    ASSUME NoVersionWrap
    PROVE  Spec => []StaleIffUnlisted
  <1>1. Init => Versions
    <2> SUFFICES ASSUME Init PROVE Versions
      OBVIOUS
    <2>1. \A c \in Classes : stores[c] = NewStore(InitialCapacity(c))
      BY DEF Init
    <2>2. Len(heap) = 0 /\ Objects = {}
      BY DEF Init, Objects
    <2>3. \A n \in Nat \ {0} : \A s \in Rows(NewStore(n).capacity) : NewStore(n).version[s] = 0
      BY DEF NewStore
    <2>4. \A c \in Classes : InitialCapacity(c) \in Nat \ {0}
      BY EntitiesAssumption DEF InitialCapacity
    <2>5. \A c \in Classes : \A s \in Rows(stores[c].capacity) : stores[c].version[s] = 0
      BY <2>1, <2>3, <2>4
    <2> QED BY <2>2, <2>5 DEF Versions
  <1>2. IInv /\ Versions /\ [Next]_vars => Versions'
    BY StepVersions
  <1>3. IInv /\ Versions => StaleIffUnlisted
    <2> SUFFICES ASSUME IInv, Versions, NEW v \in Objects
                 PROVE  Fresh(v) <=> Listed(v)
      BY DEF StaleIffUnlisted
    <2> DEFINE x == stores[heap[v].class].version[heap[v].slot]
    <2>1. /\ heap[v].slot \in Rows(stores[heap[v].class].capacity)
          /\ Listed(v) => heap[v].version = x
          /\ ~ Listed(v) => heap[v].version < x
      BY DEF Versions
    <2>2. heap[v].version \in Nat
      BY ViewFacts DEF EntityObject
    <2> DEFINE st == stores[heap[v].class]
    <2>3. x \in Nat
      <3>1. st.version \in [Rows(st.capacity) -> 0 .. VersionMod - 1]
        BY ViewFacts DEF WellFormed, StoreOf
      <3> QED BY <2>1, <3>1, StoreAssumption
    <2>4. Fresh(v) <=> x = heap[v].version
      BY <2>1 DEF Fresh, GetVersion
    <2> HIDE DEF x
    <2> QED BY <2>1, <2>2, <2>3, <2>4
  <1> QED BY <1>1, <1>2, <1>3, InvariantHolds, PTL DEF Spec


-----------------------------------------------------------------------------
(* What one scan of the list finds *)

\* List l names objects of heap h, each at its own id.
Registered(l, h) ==
    /\ h \in Seq(EntityObject)
    /\ l \in [EntityIds -> {NoEntity} \cup 1 .. Len(h)]
    /\ \A id \in EntityIds : l[id] # NoEntity => h[l[id]].id = id

\* The listed objects of the classes of getter g.
Shown(g, l, h) == {v \in 1 .. Len(h) : l[h[v].id] = v /\ h[v].class \in Members(g)}

LEMMA InvRegisters ==
    ASSUME IInv
    PROVE  Registered(list, heap)
  BY DEF IInv, TypeOK, Ownership, Objects, Registered

LEMMA FoundAreShown ==
    ASSUME NEW l, NEW h, NEW g, Registered(l, h), NEW id \in Found(g, l, h)
    PROVE  l[id] \in Shown(g, l, h)
  <1>1. id \in EntityIds /\ l[id] # NoEntity /\ h[l[id]].class \in Members(g)
    BY DEF Found
  <1>2. l[id] \in 1 .. Len(h) /\ h[l[id]].id = id
    BY <1>1 DEF Registered
  <1> QED BY <1>1, <1>2 DEF Shown

LEMMA ShownAreFound ==
    ASSUME NEW l, NEW h, NEW g, Registered(l, h), NEW v \in Shown(g, l, h)
    PROVE  h[v].id \in Found(g, l, h) /\ l[h[v].id] = v
  <1>1. v \in 1 .. Len(h) /\ l[h[v].id] = v /\ h[v].class \in Members(g)
    BY DEF Shown
  <1>2. h[v] \in EntityObject
    BY <1>1 DEF Registered
  <1>3. h[v].id \in EntityIds
    BY <1>2 DEF EntityObject
  <1>4. v # NoEntity
    BY <1>1 DEF Registered
  <1> QED BY <1>1, <1>3, <1>4 DEF Found

\* An array getter collects exactly the listed objects of its classes.
LEMMA ArrayScan ==
    ASSUME NEW l, NEW h, NEW g \in Arrays, Registered(l, h)
    PROVE  Build(g, l, h) = Shown(g, l, h)
  <1>1. Build(g, l, h) = {l[id] : id \in Found(g, l, h)}
    BY DEF Build
  <1>2. {l[id] : id \in Found(g, l, h)} \subseteq Shown(g, l, h)
    BY FoundAreShown
  <1>3. Shown(g, l, h) \subseteq {l[id] : id \in Found(g, l, h)}
    BY ShownAreFound
  <1> QED BY <1>1, <1>2, <1>3

\* A singleton getter, when one object at most can answer, takes it or stays unbuilt.
LEMMA SingletonScan ==
    ASSUME NEW l, NEW h, NEW g \in Getters \ Arrays, Registered(l, h),
           \A v, w \in Shown(g, l, h) : v = w
    PROVE  Build(g, l, h) = NotBuilt \/ Build(g, l, h) \subseteq Shown(g, l, h)
  <1> DEFINE ids == Found(g, l, h)
             first == CHOOSE id \in ids : \A j \in ids : id <= j
  <1>1. CASE ids = {}
    BY <1>1 DEF Build
  <1>2. CASE ids # {}
    <2>1. PICK i \in ids : TRUE
      BY <1>2
    <2>2. \A j \in ids : j = i
      <3> TAKE j \in ids
      <3>1. l[i] = l[j]
        BY <2>1, FoundAreShown
      <3>2. h[l[i]].id = i /\ h[l[j]].id = j
        BY <2>1 DEF Found, Registered
      <3> QED BY <3>1, <3>2
    <2>3. i \in Nat
      BY <2>1, EntitiesAssumption DEF Found
    <2>4. \A j \in ids : i <= j
      BY <2>2, <2>3
    <2>5. first \in ids
      BY <2>1, <2>4
    <2>6. Build(g, l, h) = {l[first]}
      BY <1>2 DEF Build
    <2> HIDE DEF first, ids
    <2> QED BY <2>5, <2>6, FoundAreShown DEF ids
  <1> QED BY <1>1, <1>2

\* An entity of a class some array shows drops that array.
LEMMA DropsCoverMembers ==
    ASSUME NEW g \in Arrays, NEW k \in Members(g)
    PROVE  g \in Drops(k)
  <1>1. CASE g = "players"
    BY <1>1 DEF Members, Drops
  <1>2. CASE g = "weapons"
    BY <1>2, OverlaysAssumption DEF Members, Drops
  <1>3. CASE g = "teams"
    BY <1>3 DEF Members, Drops
  <1> QED BY <1>1, <1>2, <1>3 DEF Arrays

\* A getter read after a drop: unbuilt, scanned now, or as before and not dropped.
LEMMA ReadAfterDrop ==
    ASSUME NEW cs, NEW k, NEW R, NEW l, NEW h, NEW g \in Getters
    PROVE  \/ AfterReads(Dropped(cs, k), R, l, h)[g] = NotBuilt
           \/ g \in R /\ AfterReads(Dropped(cs, k), R, l, h)[g] = Build(g, l, h)
           \/ g \notin Drops(k) /\ AfterReads(Dropped(cs, k), R, l, h)[g] = cs[g]
  BY DEF AfterReads, Dropped

LEMMA ReadOnly ==
    ASSUME NEW cs, NEW R, NEW l, NEW h, NEW g \in Getters
    PROVE  \/ AfterReads(cs, R, l, h)[g] = Build(g, l, h)
           \/ AfterReads(cs, R, l, h)[g] = cs[g]
  BY DEF AfterReads

-----------------------------------------------------------------------------
(* What an entry does to the list and to the objects *)

\* Every object stays what it is, and only its state may differ.
ObjectsStay ==
    /\ Objects \subseteq Objects'
    /\ \A w \in Objects : /\ heap'[w].id = heap[w].id
                          /\ heap'[w].class = heap[w].class
                          /\ heap'[w].slot = heap[w].slot

\* The entry touches the list at id only.
OnlyAt(id) == \A i \in EntityIds \ {id} : list'[i] = list[i]

LEMMA DeleteEffect ==
    ASSUME IInv, NEW id \in EntityIds, DeleteEntry(id)
    PROVE  /\ ObjectsStay
           /\ Objects' = Objects
           /\ OnlyAt(id)
           /\ list[id] \in Objects /\ Get(id) = list[id]
           /\ list'[id] = NoEntity
  <1>1. /\ list \in [EntityIds -> {NoEntity} \cup Objects]
        /\ Get(id) = list[id]
        /\ list[id] \in Objects
    BY DEF IInv, TypeOK, DeleteEntry, Get
  <1>2. heap' = [heap EXCEPT ![list[id]].state = "free"]
    BY <1>1 DEF DeleteEntry
  <1>3. /\ heap' \in Seq(EntityObject)
        /\ Len(heap') = Len(heap)
        /\ Objects' = Objects
        /\ \A w \in Objects : /\ heap'[w].id = heap[w].id
                              /\ heap'[w].class = heap[w].class
                              /\ heap'[w].slot = heap[w].slot
                              /\ heap'[w].version = heap[w].version
    BY <1>1, <1>2, StateChangeKeepsHeap
  <1>4. list'[id] = NoEntity /\ OnlyAt(id)
    BY <1>1 DEF DeleteEntry, OnlyAt
  <1> QED BY <1>1, <1>3, <1>4 DEF ObjectsStay

LEMMA LeaveEffect ==
    ASSUME IInv, NEW id \in EntityIds, LeaveEntry(id)
    PROVE  ObjectsStay /\ Objects' = Objects /\ list' = list /\ stores' = stores
  <1>1. list[id] \in Objects
    BY DEF IInv, TypeOK, LeaveEntry
  <1>2. heap' = [heap EXCEPT ![list[id]].state = "dormant"]
    BY DEF LeaveEntry
  <1>3. /\ heap' \in Seq(EntityObject)
        /\ Len(heap') = Len(heap)
        /\ Objects' = Objects
        /\ \A w \in Objects : /\ heap'[w].id = heap[w].id
                              /\ heap'[w].class = heap[w].class
                              /\ heap'[w].slot = heap[w].slot
                              /\ heap'[w].version = heap[w].version
    BY <1>1, <1>2, StateChangeKeepsHeap
  <1> QED BY <1>3 DEF ObjectsStay, LeaveEntry

\* create() adds one object, lists it at id, and goes over another class's object only
\* when the decoder has seen it.
LEMMA CreateEffect ==
    ASSUME IInv, NEW id \in EntityIds, NEW c \in Classes, Create(id, c)
    PROVE  /\ ObjectsStay
           /\ Len(heap') \notin Objects
           /\ Objects' = Objects \cup {Len(heap')}
           /\ \A v \in Objects : Len(heap') > v
           /\ heap'[Len(heap')].id = id
           /\ heap'[Len(heap')].class = c
           /\ heap'[Len(heap')].slot = AllocatedSlot(Freed(id)[c])
           /\ OnlyAt(id)
           /\ list'[id] = Len(heap')
           /\ list[id] \in {NoEntity} \cup Objects
           /\ ~ Mismatch(id, c) => list[id] = NoEntity \/ heap[list[id]].class = c
           /\ Mismatch(id, c) => list[id] # NoEntity /\ Get(id) = list[id]
  <1>1. /\ list \in [EntityIds -> {NoEntity} \cup Objects]
        /\ Len(heap) \in Nat
    BY DEF IInv, TypeOK
  <1>2. /\ heap' \in Seq(EntityObject)
        /\ Len(heap') = Len(heap) + 1
        /\ Len(heap') <= MaxObjects
        /\ heap'[Len(heap) + 1] = NewEntity(id, c, Freed(id)[c])
        /\ NewEntity(id, c, Freed(id)[c]) \in EntityObject
        /\ \A w \in Objects : /\ heap'[w].id = heap[w].id
                              /\ heap'[w].class = heap[w].class
                              /\ heap'[w].slot = heap[w].slot
                              /\ heap'[w].version = heap[w].version
    BY CreatedHeap
  <1>3. /\ NewEntity(id, c, Freed(id)[c]).id = id
        /\ NewEntity(id, c, Freed(id)[c]).class = c
        /\ NewEntity(id, c, Freed(id)[c]).slot = AllocatedSlot(Freed(id)[c])
    BY DEF NewEntity
  <1>4. /\ Len(heap') \notin Objects
        /\ Objects' = Objects \cup {Len(heap')}
        /\ \A v \in Objects : Len(heap') > v
    BY <1>1, <1>2 DEF Objects
  <1>5. list'[id] = Len(heap') /\ OnlyAt(id)
    BY <1>1, <1>2 DEF Create, OnlyAt
  <1>6. /\ ~ Mismatch(id, c) => list[id] = NoEntity \/ heap[list[id]].class = c
        /\ Mismatch(id, c) => list[id] # NoEntity /\ Get(id) = list[id]
    BY DEF Create, CreateThrows, Mismatch, Get
  <1> QED BY <1>1, <1>2, <1>3, <1>4, <1>5, <1>6 DEF ObjectsStay

\* Both entries that enter create an object and take its row from the freed store.
LEMMA EnterEffect ==
    ASSUME IInv, NEW id \in EntityIds, NEW c \in Classes, NEW delta \in Changes,
           EnterEntry(id, c, delta) \/ EnterWithoutBaseline(id, c)
    PROVE  /\ Create(id, c)
           /\ \E base, d \in Deltas : stores' = Entered(id, c, base, d)
  <1>1. CASE EnterEntry(id, c, delta)
    <2> DEFINE base == IF Baseline(c) = Absent THEN NoProps ELSE Baseline(c)
    <2>1. Baseline(c) \in Blobs \cup {Absent}
      BY <1>1 DEF IInv, TypeOK, Baseline, EnterEntry, BaselineDecodes
    <2>2. base \in Deltas /\ delta \in Deltas
      BY <2>1, NoPropsInDeltas, EntitiesAssumption
    <2>3. Create(id, c) /\ stores' = Entered(id, c, base, delta)
      BY <1>1 DEF EnterEntry
    <2> HIDE DEF base
    <2> QED BY <2>2, <2>3
  <1>2. CASE EnterWithoutBaseline(id, c)
    BY <1>2, NoPropsInDeltas DEF EnterWithoutBaseline
  <1> QED BY <1>1, <1>2

\* An overlay action is an entry of the entity layer or leaves it alone.
LEMMA EntryOrNothing ==
    ASSUME NextOverlays
    PROVE  [Next]_vars
  <1>1. ASSUME NEW id \in EntityIds, NEW c \in Classes, NEW delta \in Changes,
               EnterEntry(id, c, delta) \/ EnterWithoutBaseline(id, c)
        PROVE  Next
    BY <1>1 DEF Next
  <1>2. ASSUME NEW id \in EntityIds, NEW c \in Classes, NEW delta \in Changes,
               NEW D, NEW R, NEW throws,
               Enter(id, c, delta, D, R, throws) \/ EnterFails(id, c, delta, D)
        PROVE  Next
    BY <1>1, <1>2 DEF Enter, EnterFails
  <1>3. ASSUME NEW id \in EntityIds, NEW delta \in Changes, PreserveEntry(id, delta)
        PROVE  Next
    BY <1>3 DEF Next
  <1>4. ASSUME NEW id \in EntityIds, DeleteEntry(id) \/ LeaveEntry(id)
        PROVE  Next
    BY <1>4 DEF Next
  <1>5. ASSUME NEW c \in Classes, NEW b \in Blobs \cup {Absent, Corrupt},
               SetBaselineEntry(c, b)
        PROVE  Next
    BY <1>5 DEF Next
  <1>6. ASSUME NEW id \in EntityIds, NEW D, DeleteListenerThrows(id, D)
        PROVE  UNCHANGED vars
    BY <1>6 DEF DeleteListenerThrows
  <1>7. ASSUME NEW R, ReadGetters(R)
        PROVE  UNCHANGED vars
    BY <1>7 DEF ReadGetters
  <1> QED
    BY <1>2, <1>3, <1>4, <1>5, <1>6, <1>7
    DEF NextOverlays, Delete, Leave, Preserve, PreserveFails, SetBaseline

-----------------------------------------------------------------------------
(* The one row of a singleton class *)

\* An unoccupied store that has handed out row 0 at most hands out row 0 again.
LEMMA SoleAllocation ==
    ASSUME NEW st, WellFormed(st), st.occupied = {}, st.nextSlot <= 1
    PROVE  AllocatedSlot(st) = 0 /\ Allocate(st).nextSlot <= 1
  <1>1. /\ st \in StoreOf(st.capacity)
        /\ st.nextSlot \in Nat
        /\ st.freeList \in Seq(Rows(st.capacity))
    BY DEF WellFormed, StoreOf
  <1>2. CASE st.freeList # << >>
    <2>1. Len(st.freeList) \in 1 .. Len(st.freeList)
      BY <1>1, <1>2
    <2>2. st.freeList[Len(st.freeList)] \in Rows(st.nextSlot)
      BY <2>1 DEF WellFormed
    <2>3. AllocatedSlot(st) = 0
      BY <1>1, <1>2, <2>2 DEF AllocatedSlot, Rows
    <2>4. Allocate(st).nextSlot = st.nextSlot
      BY <1>1, <1>2 DEF Allocate, StoreOf
    <2> QED BY <2>3, <2>4
  <1>3. CASE st.freeList = << >>
    <2>1. st.nextSlot = 0
      <3>1. Len(st.freeList) = 0
        BY <1>3
      <3>2. ~ OnFreeList(st, 0)
        BY <3>1 DEF OnFreeList
      <3>3. 0 \notin Rows(st.nextSlot)
        BY <3>2 DEF WellFormed
      <3> QED BY <1>1, <3>3 DEF Rows
    <2>2. Allocate(st).nextSlot = 1
      <3>1. CASE st.nextSlot >= st.capacity
        BY <1>1, <1>3, <2>1, <3>1 DEF Allocate, Grow, StoreOf
      <3>2. CASE ~ (st.nextSlot >= st.capacity)
        BY <1>1, <1>3, <2>1, <3>2 DEF Allocate, StoreOf
      <3> QED BY <3>1, <3>2
    <2> QED BY <1>3, <2>1, <2>2 DEF AllocatedSlot
  <1> QED BY <1>2, <1>3

\* free() and the writes leave the high-water mark.
LEMMA FreedRows ==
    ASSUME IInv, NEW id \in EntityIds, NEW c \in Classes
    PROVE  Freed(id)[c].nextSlot = stores[c].nextSlot
  <1>1. CASE list[id] = NoEntity
    BY <1>1 DEF Freed
  <1>2. CASE list[id] # NoEntity
    <2> DEFINE k == heap[list[id]].class
               t == heap[list[id]].slot
    <2>1. k \in Classes
      BY <1>2, ListedObject
    <2>2. stores[k] \in StoreOf(stores[k].capacity) /\ DOMAIN stores = Classes
      BY <2>1 DEF IInv, TypeOK
    <2>3. Free(stores[k], t).nextSlot = stores[k].nextSlot
      BY <2>2 DEF Free, StoreOf
    <2>4. Freed(id) = [stores EXCEPT ![k] = Free(stores[k], t)]
      BY <1>2 DEF Freed
    <2> QED BY <2>1, <2>2, <2>3, <2>4
  <1> QED BY <1>1, <1>2

LEMMA WrittenRows ==
    ASSUME NEW st, WellFormed(st), NEW slot \in st.occupied, NEW delta \in Deltas
    PROVE  WriteAll(st, slot, delta).nextSlot = st.nextSlot
  BY DEF WriteAll, WellFormed, StoreOf

LEMMA EnteredRows ==
    ASSUME IInv, NEW id \in EntityIds, NEW c \in Classes,
           NEW base \in Deltas, NEW delta \in Deltas
    PROVE  /\ Entered(id, c, base, delta)[c].nextSlot = Allocate(Freed(id)[c]).nextSlot
           /\ \A d \in Classes \ {c} :
                 Entered(id, c, base, delta)[d].nextSlot = stores[d].nextSlot
  <1> DEFINE from == Freed(id)[c]
             a == AllocatedSlot(from)
             o == Allocate(from)
             w == WriteAll(o, a, base)
             x == WriteAll(w, a, delta)
  <1>1. DOMAIN Freed(id) = Classes /\ WellFormed(from)
    BY FreedStores
  <1>2. WellFormed(o) /\ a \in o.occupied
    BY <1>1, AllocateWellFormed
  <1>3. Entered(id, c, base, delta) = [Freed(id) EXCEPT ![c] = x]
    BY DEF Entered
  <1> HIDE DEF from, a, o
  <1>4. WellFormed(w) /\ w.occupied = o.occupied /\ w.nextSlot = o.nextSlot
    BY <1>2, WritesKeepSlots, WrittenRows
  <1> HIDE DEF w
  <1>5. x.nextSlot = o.nextSlot
    BY <1>2, <1>4, WrittenRows
  <1> HIDE DEF x
  <1>6. Entered(id, c, base, delta)[c].nextSlot = o.nextSlot
    BY <1>1, <1>3, <1>5
  <1>7. \A d \in Classes \ {c} :
           Entered(id, c, base, delta)[d].nextSlot = stores[d].nextSlot
    BY <1>1, <1>3, FreedRows
  <1> QED BY <1>6, <1>7 DEF o, from

\* An object known to the heap has an id, a class and a reference that is not NoEntity.
LEMMA ObjectFacts ==
    ASSUME IInv, NEW v \in Objects
    PROVE  v # NoEntity /\ heap[v].id \in EntityIds /\ heap[v].class \in Classes
  <1>1. heap \in Seq(EntityObject)
    BY DEF IInv, TypeOK
  <1>2. heap[v] \in EntityObject /\ v # NoEntity
    BY <1>1 DEF Objects
  <1> QED BY <1>2 DEF EntityObject

\* After an entry that took the list away from what it had at id, the objects listed
\* before are listed still, but for the one at id.
LEMMA ListedStill ==
    ASSUME IInv, ObjectsStay, NEW id \in EntityIds, OnlyAt(id), list'[id] \notin Objects,
           NEW v \in Objects
    PROVE  Listed(v)' <=> Listed(v) /\ heap[v].id # id
  <1>1. heap[v].id \in EntityIds /\ heap'[v].id = heap[v].id
    BY ObjectFacts DEF ObjectsStay
  <1> QED BY <1>1 DEF Listed, OnlyAt

LEMMA QuietRows ==
    ASSUME IInv, SingleRow, ObjectsStay, Objects' = Objects,
           \A v \in Objects : Listed(v)' => Listed(v),
           \A c \in Classes : stores'[c].nextSlot = stores[c].nextSlot
    PROVE  SingleRow'
  <1> SUFFICES ASSUME NEW c \in Classes, c \in {RulesClass, ResourceClass}
               PROVE  /\ stores'[c].nextSlot <= 1
                      /\ \A v, w \in Live(c)' : v = w
                      /\ \A v \in Objects : heap'[v].class = c => heap'[v].slot = 0
    BY DEF SingleRow
  <1>1. Live(c)' \subseteq Live(c)
    BY DEF Live, ObjectsStay
  <1>2. \A v \in Objects : heap'[v].class = heap[v].class /\ heap'[v].slot = heap[v].slot
    BY DEF ObjectsStay
  <1>3. /\ stores[c].nextSlot <= 1
        /\ \A v, w \in Live(c) : v = w
        /\ \A v \in Objects : heap[v].class = c => heap[v].slot = 0
    BY DEF SingleRow
  <1> QED BY <1>1, <1>2, <1>3

\* Where the server keeps one entity of a class, the row of the entity before is free, and
\* it is row 0, when the next one enters.
LEMMA EnterRows ==
    ASSUME IInv, SingleRow, NEW id \in EntityIds, NEW c \in Classes, ServerAllows(id, c),
           NEW base \in Deltas, NEW delta \in Deltas,
           Create(id, c), stores' = Entered(id, c, base, delta)
    PROVE  SingleRow'
  <1> DEFINE n == Len(heap')
  <1>1. /\ ObjectsStay
        /\ n \notin Objects
        /\ Objects' = Objects \cup {n}
        /\ heap'[n].id = id
        /\ heap'[n].class = c
        /\ heap'[n].slot = AllocatedSlot(Freed(id)[c])
        /\ OnlyAt(id)
        /\ list'[id] = n
    BY CreateEffect
  <1>2. /\ stores'[c].nextSlot = Allocate(Freed(id)[c]).nextSlot
        /\ \A d \in Classes \ {c} : stores'[d].nextSlot = stores[d].nextSlot
    BY EnteredRows
  <1> HIDE DEF n
  <1>3. \A v \in Objects : Listed(v)' <=> Listed(v) /\ heap[v].id # id
    BY <1>1, ListedStill
  <1>4. \A v \in Objects : /\ heap'[v].class = heap[v].class
                           /\ heap'[v].slot = heap[v].slot
    BY <1>1 DEF ObjectsStay
  <1> SUFFICES ASSUME NEW d \in Classes, d \in {RulesClass, ResourceClass}
               PROVE  /\ stores'[d].nextSlot <= 1
                      /\ \A v, w \in Live(d)' : v = w
                      /\ \A v \in Objects' : heap'[v].class = d => heap'[v].slot = 0
    BY DEF SingleRow
  <1>5. /\ stores[d].nextSlot <= 1
        /\ \A v, w \in Live(d) : v = w
        /\ \A v \in Objects : heap[v].class = d => heap[v].slot = 0
    BY DEF SingleRow
  <1>6. CASE d = c
    <2>1. \A j \in EntityIds \ {id} : list[j] # NoEntity => heap[list[j]].class # c
      BY <1>6 DEF ServerAllows
    <2>2. /\ WellFormed(Freed(id)[c])
          /\ Freed(id)[c].occupied = {s \in stores[c].occupied : ~ Owns(id, c, s)}
      BY FreedStores
    <2>3. Freed(id)[c].occupied = {}
      <3> SUFFICES ASSUME NEW s \in stores[c].occupied, ~ Owns(id, c, s)
                   PROVE  FALSE
        BY <2>2
      <3>1. PICK i \in EntityIds : Owns(i, c, s)
        BY DEF IInv, Ownership
      <3> QED BY <2>1, <3>1 DEF Owns
    <2>4. Freed(id)[c].nextSlot <= 1
      BY <1>5, <1>6, FreedRows
    <2>5. AllocatedSlot(Freed(id)[c]) = 0 /\ Allocate(Freed(id)[c]).nextSlot <= 1
      BY <2>2, <2>3, <2>4, SoleAllocation
    <2>6. \A v \in Live(d)' : v = n
      <3> SUFFICES ASSUME NEW v \in Objects, Listed(v)', heap'[v].class = c
                   PROVE  FALSE
        BY <1>1, <1>6 DEF Live
      <3>1. /\ Listed(v) /\ heap[v].id # id /\ heap[v].class = c
            /\ heap[v].id \in EntityIds /\ v # NoEntity
        BY <1>3, <1>4, ObjectFacts
      <3> QED BY <2>1, <3>1 DEF Listed
    <2>7. \A v \in Objects' : heap'[v].class = d => heap'[v].slot = 0
      BY <1>1, <1>4, <1>5, <2>5
    <2>8. \A v, w \in Live(d)' : v = w
      BY <2>6
    <2> QED BY <1>2, <1>6, <2>5, <2>7, <2>8
  <1>7. CASE d # c
    <2>1. Live(d)' \subseteq Live(d)
      BY <1>1, <1>3, <1>4, <1>7 DEF Live
    <2>2. \A v \in Objects' : heap'[v].class = d => heap'[v].slot = 0
      BY <1>1, <1>4, <1>5, <1>7
    <2>3. \A v, w \in Live(d)' : v = w
      BY <1>5, <2>1
    <2>4. stores'[d].nextSlot <= 1
      BY <1>2, <1>5, <1>7
    <2> QED BY <2>2, <2>3, <2>4
  <1> QED BY <1>6, <1>7

\* Writing the changed props of the entity at id moves no high-water mark.
LEMMA PreserveRows ==
    ASSUME IInv, NEW id \in EntityIds, NEW delta \in Changes, PreserveEntry(id, delta)
    PROVE  \A c \in Classes : stores'[c].nextSlot = stores[c].nextSlot
  <1> DEFINE k == heap[list[id]].class
             t == heap[list[id]].slot
             w == WriteAll(stores[k], t, delta)
  <1>1. Get(id) = list[id] /\ list[id] # NoEntity
    BY DEF PreserveEntry, Get
  <1>2. k \in Classes /\ t \in stores[k].occupied /\ WellFormed(stores[k])
    BY <1>1, ListedObject DEF IInv, Ownership
  <1>3. w.nextSlot = stores[k].nextSlot
    BY <1>2, WrittenRows, EntitiesAssumption
  <1>4. stores' = [stores EXCEPT ![k] = w] /\ DOMAIN stores = Classes
    BY <1>1 DEF PreserveEntry, IInv, TypeOK
  <1> HIDE DEF w, k
  <1> QED BY <1>2, <1>3, <1>4

-----------------------------------------------------------------------------
(* What a step makes of the caches *)

\* The objects of g's classes.
OfClass(g) == {v \in Objects : heap[v].class \in Members(g)}

\* A scan finds objects of the getter's classes, and an array getter all that are listed.
ScansShown ==
    \A g \in Getters :
        \/ Build(g, list, heap) = NotBuilt
        \/ /\ Build(g, list, heap) \subseteq OfClass(g)
           /\ g \in Arrays => Build(g, list, heap) = {v \in OfClass(g) : Listed(v)}

LEMMA ScanShows == IInv /\ SingleRow => ScansShown
  <1> SUFFICES ASSUME IInv, SingleRow, NEW g \in Getters
               PROVE  \/ Build(g, list, heap) = NotBuilt
                      \/ /\ Build(g, list, heap) \subseteq OfClass(g)
                         /\ g \in Arrays =>
                               Build(g, list, heap) = {v \in OfClass(g) : Listed(v)}
    BY DEF ScansShown
  <1>1. Registered(list, heap)
    BY InvRegisters
  <1>2. Shown(g, list, heap) = {v \in OfClass(g) : Listed(v)}
    BY DEF Shown, OfClass, Objects, Listed
  <1>3. CASE g \in Arrays
    BY <1>1, <1>2, <1>3, ArrayScan
  <1>4. CASE g \in Getters \ Arrays
    <2>1. Members(g) \in {{RulesClass}, {ResourceClass}}
      <3>1. g = "gameRules" \/ g = "playerResource"
        BY <1>4 DEF Getters, Arrays
      <3> QED BY <3>1 DEF Members
    <2>2. \A v, w \in Shown(g, list, heap) : v = w
      <3> TAKE v, w \in Shown(g, list, heap)
      <3>1. PICK c \in {RulesClass, ResourceClass} : Members(g) = {c}
        BY <2>1
      <3>2. c \in Classes /\ v \in Live(c) /\ w \in Live(c)
        BY <1>2, <3>1, ObjectFacts DEF OfClass, Live
      <3> QED BY <3>2 DEF SingleRow
    <2>3. Build(g, list, heap) = NotBuilt \/ Build(g, list, heap) \subseteq Shown(g, list, heap)
      BY <1>1, <1>4, <2>2, SingletonScan
    <2> QED BY <1>2, <1>4, <2>3
  <1> QED BY <1>3, <1>4

LEMMA ScanShowsNext == IInv' /\ SingleRow' => ScansShown'
  BY ScanShows, PTL

\* The newly announced objects, if any, are not of g's classes.
NoNews(g) == \A v \in created' \ created : heap'[v].class \notin Members(g)

\* What any step makes of a cache: it is unbuilt, or scanned after the entry, or scanned
\* before it or kept, and then nobody whom its array should show was announced.
CacheStep ==
    \A g \in Getters :
        \/ caches'[g] = NotBuilt
        \/ caches'[g] = Build(g, list', heap')
        \/ /\ caches'[g] = Build(g, list, heap) \/ caches'[g] = caches[g]
           /\ g \in Arrays => NoNews(g)

LEMMA TypesKept ==
    ASSUME IInv, IInv', SingleRow, SingleRow', HooksKnown, ObjectsStay, CacheStep,
           created' \subseteq created \cup Objects', deleted' \subseteq deleted \cup Objects
    PROVE  HooksKnown'
  <1>1. ScansShown /\ ScansShown'
    BY ScanShows, ScanShowsNext
  <1>2. \A g \in Getters : OfClass(g) \subseteq OfClass(g)'
    BY DEF OfClass, ObjectsStay
  <1>3. ASSUME NEW g \in Getters, caches'[g] # NotBuilt
        PROVE  caches'[g] \subseteq OfClass(g)'
    <2>1. CASE caches'[g] = Build(g, list', heap')
      BY <1>1, <1>3, <2>1 DEF ScansShown
    <2>2. CASE caches'[g] = Build(g, list, heap)
      BY <1>1, <1>2, <1>3, <2>2 DEF ScansShown
    <2>3. CASE caches'[g] = caches[g]
      BY <1>2, <1>3, <2>3 DEF HooksKnown, OfClass
    <2> QED BY <1>3, <2>1, <2>2, <2>3 DEF CacheStep
  <1>4. created' \subseteq Objects' /\ deleted' \subseteq Objects'
    BY DEF HooksKnown, ObjectsStay
  <1> QED BY <1>3, <1>4 DEF HooksKnown, OfClass

\* Nothing announced is missed, as long as nothing that was listed nowhere is listed now
\* unless it was announced now.
LEMMA CompleteKept ==
    ASSUME IInv, IInv', SingleRow, SingleRow', HooksKnown, HooksKnown', CacheComplete,
           ObjectsStay, CacheStep, \A v \in Objects : Listed(v)' => Listed(v)
    PROVE  CacheComplete'
  <1>1. ScansShown /\ ScansShown'
    BY ScanShows, ScanShowsNext
  <1> SUFFICES ASSUME NEW g \in Arrays, caches'[g] # NotBuilt,
                      NEW v \in created', Listed(v)', heap'[v].class \in Members(g)
               PROVE  v \in caches'[g]
    BY DEF CacheComplete
  <1>2. g \in Getters
    BY DEF Arrays, Getters
  <1>3. v \in Objects'
    BY DEF HooksKnown
  <1>4. CASE caches'[g] = Build(g, list', heap')
    BY <1>1, <1>2, <1>3, <1>4 DEF ScansShown, OfClass
  <1>5. CASE /\ caches'[g] = Build(g, list, heap) \/ caches'[g] = caches[g]
             /\ NoNews(g)
    <2>1. v \in created
      BY <1>5 DEF NoNews
    <2>2. v \in Objects /\ heap[v].class \in Members(g) /\ Listed(v)
      BY <2>1 DEF HooksKnown, ObjectsStay
    <2>3. CASE caches'[g] = Build(g, list, heap)
      BY <1>1, <1>2, <2>2, <2>3 DEF ScansShown, OfClass
    <2>4. CASE caches'[g] = caches[g]
      BY <2>1, <2>2, <2>4 DEF CacheComplete
    <2> QED BY <1>5, <2>3, <2>4
  <1> QED BY <1>2, <1>4, <1>5 DEF CacheStep

\* Whoever leaves the list is announced or replaced by a younger object of its class, and
\* whoever is announced anew is listed.
Accounted ==
    /\ deleted \subseteq deleted'
    /\ \A v \in created' \ created : Listed(v)'
    /\ \A v \in Objects : Listed(v) /\ ~ Listed(v)' =>
          \/ v \in deleted'
          \/ \E w \in Objects' : /\ w > v
                                 /\ heap'[w].id = heap[v].id
                                 /\ heap'[w].class = heap[v].class

LEMMA DeathKept ==
    ASSUME IInv, HooksKnown, DeathIsAnnounced, ObjectsStay, Accounted
    PROVE  DeathIsAnnounced'
  <1> SUFFICES ASSUME NEW v \in created', ~ Listed(v)'
               PROVE  \/ v \in deleted'
                      \/ \E w \in Objects' : /\ w > v
                                             /\ heap'[w].id = heap'[v].id
                                             /\ heap'[w].class = heap'[v].class
    BY DEF DeathIsAnnounced
  <1>1. v \in created /\ v \in Objects
    BY DEF Accounted, HooksKnown
  <1>2. heap'[v].id = heap[v].id /\ heap'[v].class = heap[v].class
    BY <1>1 DEF ObjectsStay
  <1>3. CASE Listed(v)
    BY <1>1, <1>2, <1>3 DEF Accounted
  <1>4. CASE ~ Listed(v)
    <2>1. CASE v \in deleted
      BY <2>1 DEF Accounted
    <2>2. CASE v \notin deleted
      <3>1. PICK w \in Objects : /\ w > v
                                 /\ heap[w].id = heap[v].id
                                 /\ heap[w].class = heap[v].class
        BY <1>1, <1>4, <2>2 DEF DeathIsAnnounced
      <3>2. /\ w \in Objects'
            /\ heap'[w].id = heap[w].id
            /\ heap'[w].class = heap[w].class
        BY <3>1 DEF ObjectsStay
      <3> QED BY <1>2, <3>1, <3>2
    <2> QED BY <2>1, <2>2
  <1> QED BY <1>3, <1>4

\* What every step guarantees to the properties of the overlays.
StepFacts ==
    /\ SingleRow'
    /\ ObjectsStay
    /\ CacheStep
    /\ Accounted
    /\ created' \subseteq created \cup Objects'
    /\ deleted' \subseteq deleted \cup Objects
    /\ \A v \in Objects : Listed(v)' => Listed(v)

LEMMA FactsSuffice ==
    ASSUME OverlaysInv, IInv', StepFacts
    PROVE  OverlaysInv'
  <1>1. IInv /\ SingleRow /\ HooksKnown /\ CacheComplete /\ DeathIsAnnounced
    BY DEF OverlaysInv
  <1>2. /\ SingleRow' /\ ObjectsStay /\ CacheStep /\ Accounted
        /\ created' \subseteq created \cup Objects' /\ deleted' \subseteq deleted \cup Objects
        /\ \A v \in Objects : Listed(v)' => Listed(v)
    BY DEF StepFacts
  <1>3. HooksKnown'
    BY <1>1, <1>2, TypesKept
  <1>4. CacheComplete'
    BY <1>1, <1>2, <1>3, CompleteKept
  <1>5. DeathIsAnnounced'
    BY <1>1, <1>2, DeathKept
  <1> QED BY <1>2, <1>3, <1>4, <1>5 DEF OverlaysInv

-----------------------------------------------------------------------------
(* One lemma per kind of entry *)

\* The listener of entityDeleted reads before the entity is gone.
LEMMA DeleteFacts ==
    ASSUME OverlaysInv, NEW id \in EntityIds, NEW D, Delete(id, D)
    PROVE  StepFacts
  <1>1. IInv /\ SingleRow /\ HooksKnown
    BY DEF OverlaysInv
  <1>2. /\ DeleteEntry(id)
        /\ caches' = AfterReads(Dropped(caches, heap[Get(id)].class), D, list, heap)
        /\ deleted' = deleted \cup {Get(id)}
        /\ created' = created
    BY DEF Delete, OnDelete
  <1>3. /\ ObjectsStay
        /\ Objects' = Objects
        /\ OnlyAt(id)
        /\ list[id] \in Objects /\ Get(id) = list[id]
        /\ list'[id] = NoEntity
    BY <1>1, <1>2, DeleteEffect
  <1>4. list'[id] \notin Objects
    BY <1>1, <1>3, ObjectFacts
  <1>5. \A v \in Objects : Listed(v)' <=> Listed(v) /\ heap[v].id # id
    BY <1>1, <1>3, <1>4, ListedStill
  <1>6. CacheStep
    BY <1>2, ReadAfterDrop DEF CacheStep, NoNews
  <1>7. \A v \in Objects : Listed(v) /\ ~ Listed(v)' => v = Get(id)
    BY <1>3, <1>5 DEF Listed
  <1>8. Accounted
    BY <1>2, <1>7 DEF Accounted
  <1>9. \A c \in Classes : stores'[c].nextSlot = stores[c].nextSlot
    BY <1>1, <1>2, FreedRows DEF DeleteEntry
  <1>10. SingleRow'
    BY <1>1, <1>3, <1>5, <1>9, QuietRows
  <1> QED BY <1>2, <1>3, <1>5, <1>6, <1>8, <1>10 DEF StepFacts

\* Entries that change neither the list nor who was announced, and reads.
LEMMA QuietFacts ==
    ASSUME OverlaysInv, ObjectsStay, Objects' = Objects, list' = list, created' = created,
           deleted \subseteq deleted', deleted' \subseteq deleted \cup Objects,
           \A c \in Classes : stores'[c].nextSlot = stores[c].nextSlot,
           \A g \in Getters : \/ caches'[g] = NotBuilt
                              \/ caches'[g] = Build(g, list, heap)
                              \/ caches'[g] = caches[g]
    PROVE  StepFacts
  <1>1. IInv /\ SingleRow
    BY DEF OverlaysInv
  <1>2. \A v \in Objects : Listed(v)' <=> Listed(v)
    BY DEF Listed, ObjectsStay
  <1>3. SingleRow'
    BY <1>1, <1>2, QuietRows
  <1>4. CacheStep
    BY DEF CacheStep, NoNews
  <1>5. Accounted
    BY <1>2 DEF Accounted
  <1> QED BY <1>2, <1>3, <1>4, <1>5 DEF StepFacts

LEMMA ListenerThrowsFacts ==
    ASSUME OverlaysInv, NEW id \in EntityIds, NEW D, DeleteListenerThrows(id, D)
    PROVE  StepFacts
  <1>1. /\ Get(id) # NoEntity
        /\ caches' = AfterReads(Dropped(caches, heap[Get(id)].class), D, list, heap)
        /\ deleted' = deleted \cup {Get(id)}
        /\ created' = created /\ list' = list /\ heap' = heap /\ stores' = stores
    BY DEF DeleteListenerThrows, OnDelete, vars
  <1>2. Get(id) \in Objects
    BY <1>1 DEF OverlaysInv, IInv, TypeOK, Get
  <1>3. ObjectsStay /\ Objects' = Objects
    BY <1>1 DEF ObjectsStay, Objects
  <1>4. \A g \in Getters : \/ caches'[g] = NotBuilt
                           \/ caches'[g] = Build(g, list, heap)
                           \/ caches'[g] = caches[g]
    BY <1>1, ReadAfterDrop
  <1> QED BY <1>1, <1>2, <1>3, <1>4, QuietFacts

\* What the synthetic onDelete of a mismatch makes of a cache.
LEMMA ClearedCache ==
    ASSUME NEW id, NEW c, NEW D, NEW g \in Getters
    PROVE  \/ ClearedCaches(id, c, D)[g] = NotBuilt
           \/ g \in D /\ ClearedCaches(id, c, D)[g] = Build(g, list, heap)
           \/ /\ ClearedCaches(id, c, D)[g] = caches[g]
              /\ Mismatch(id, c) => g \notin Drops(heap[Get(id)].class)
  BY ReadAfterDrop DEF ClearedCaches, OnDelete

\* An entry that creates an object, announced or not.
LEMMA CreateFacts ==
    ASSUME OverlaysInv, NEW id \in EntityIds, NEW c \in Classes, NEW delta \in Changes,
           ServerAllows(id, c),
           EnterEntry(id, c, delta) \/ EnterWithoutBaseline(id, c),
           CacheStep, deleted' = deleted \cup Cleared(id, c),
           created' = created \/ created' = created \cup {Len(heap')}
    PROVE  StepFacts
  <1> DEFINE n == Len(heap')
  <1>1. IInv /\ SingleRow
    BY DEF OverlaysInv
  <1>2. PICK base, d \in Deltas : Create(id, c) /\ stores' = Entered(id, c, base, d)
    BY <1>1, EnterEffect
  <1>3. /\ ObjectsStay
        /\ n \notin Objects
        /\ Objects' = Objects \cup {n}
        /\ \A v \in Objects : n > v
        /\ heap'[n].id = id
        /\ heap'[n].class = c
        /\ OnlyAt(id)
        /\ list'[id] = n
        /\ list[id] \in {NoEntity} \cup Objects
        /\ ~ Mismatch(id, c) => list[id] = NoEntity \/ heap[list[id]].class = c
        /\ Mismatch(id, c) => list[id] # NoEntity /\ Get(id) = list[id]
    BY <1>1, <1>2, CreateEffect
  <1> HIDE DEF n
  <1>4. SingleRow'
    BY <1>1, <1>2, EnterRows
  <1>5. \A v \in Objects : Listed(v)' <=> Listed(v) /\ heap[v].id # id
    BY <1>1, <1>3, ListedStill
  <1>6. created' \subseteq created \cup {n}
    BY DEF n
  <1>7. deleted' \subseteq deleted \cup Objects
    BY <1>3 DEF Cleared
  <1>8. Accounted
    <2>1. \A v \in created' \ created : Listed(v)'
      BY <1>3, <1>6 DEF Listed
    <2>2. ASSUME NEW v \in Objects, Listed(v), ~ Listed(v)'
          PROVE  \/ v \in deleted'
                 \/ \E w \in Objects' : /\ w > v
                                        /\ heap'[w].id = heap[v].id
                                        /\ heap'[w].class = heap[v].class
      <3>1. heap[v].id = id /\ v = list[id] /\ v # NoEntity
        BY <1>1, <1>5, <2>2, ObjectFacts DEF Listed
      <3>2. CASE Mismatch(id, c)
        BY <1>3, <3>1, <3>2 DEF Cleared
      <3>3. CASE ~ Mismatch(id, c)
        BY <1>3, <3>1, <3>3
      <3> QED BY <3>2, <3>3
    <2> QED BY <2>1, <2>2 DEF Accounted
  <1> QED BY <1>3, <1>4, <1>5, <1>6, <1>7, <1>8 DEF StepFacts

LEMMA EnterFacts ==
    ASSUME OverlaysInv, NEW id \in EntityIds, NEW c \in Classes, NEW delta \in Changes,
           NEW D, NEW R, NEW throws, Enter(id, c, delta, D, R, throws)
    PROVE  StepFacts
  <1> DEFINE n == Len(heap')
             cs == ClearedCaches(id, c, D)
             S == R \cup Feed(c, throws)
  <1>1. /\ ServerAllows(id, c)
        /\ EnterEntry(id, c, delta)
        /\ caches' = AfterReads(Dropped(cs, c), S, list', heap')
        /\ deleted' = deleted \cup Cleared(id, c)
        /\ created' = created \cup {n}
    BY DEF Enter, OnCreate
  <1>2. Create(id, c) /\ heap'[n].class = c
    <2>1. IInv
      BY DEF OverlaysInv
    <2>2. Create(id, c)
      BY <1>1 DEF EnterEntry
    <2> QED BY <2>1, <2>2, CreateEffect
  <1> HIDE DEF n, cs, S
  <1>3. CacheStep
    <2> SUFFICES ASSUME NEW g \in Getters
                 PROVE  \/ caches'[g] = NotBuilt
                        \/ caches'[g] = Build(g, list', heap')
                        \/ /\ caches'[g] = Build(g, list, heap) \/ caches'[g] = caches[g]
                           /\ g \in Arrays => NoNews(g)
      BY DEF CacheStep
    <2>1. g \in Arrays /\ g \notin Drops(c) => NoNews(g)
      BY <1>1, <1>2, DropsCoverMembers DEF NoNews
    <2>2. \/ caches'[g] = NotBuilt
          \/ caches'[g] = Build(g, list', heap')
          \/ g \notin Drops(c) /\ caches'[g] = cs[g]
      BY <1>1, ReadAfterDrop
    <2>3. \/ cs[g] = NotBuilt
          \/ cs[g] = Build(g, list, heap)
          \/ cs[g] = caches[g]
      BY ClearedCache DEF cs
    <2> QED BY <2>1, <2>2, <2>3
  <1> QED BY <1>1, <1>3, CreateFacts DEF n

\* The entry that fails announces nobody; the caches are those its synthetic onDelete left.
LEMMA EnterFailsFacts ==
    ASSUME OverlaysInv, NEW id \in EntityIds, NEW c \in Classes, NEW delta \in Changes,
           NEW D, EnterFails(id, c, delta, D)
    PROVE  StepFacts
  <1>1. /\ ServerAllows(id, c)
        /\ EnterEntry(id, c, delta) \/ EnterWithoutBaseline(id, c)
        /\ caches' = ClearedCaches(id, c, D)
        /\ deleted' = deleted \cup Cleared(id, c)
        /\ created' = created
    BY DEF EnterFails
  <1>2. \A g : NoNews(g)
    BY <1>1 DEF NoNews
  <1>3. \A g \in Getters : \/ caches'[g] = NotBuilt
                           \/ caches'[g] = Build(g, list, heap)
                           \/ caches'[g] = caches[g]
    BY <1>1, ClearedCache
  <1>4. CacheStep
    BY <1>2, <1>3 DEF CacheStep
  <1> QED BY <1>1, <1>4, CreateFacts

LEMMA PreserveFacts ==
    ASSUME OverlaysInv, NEW id \in EntityIds, NEW delta \in Changes, PreserveEntry(id, delta),
           created' = created, deleted' = deleted,
           \A g \in Getters : caches'[g] \in {Build(g, list, heap), caches[g]}
    PROVE  StepFacts
  <1>1. IInv
    BY DEF OverlaysInv
  <1>2. list' = list /\ heap' = heap
    BY DEF PreserveEntry
  <1>3. ObjectsStay /\ Objects' = Objects
    BY <1>2 DEF ObjectsStay, Objects
  <1>4. \A c \in Classes : stores'[c].nextSlot = stores[c].nextSlot
    BY <1>1, PreserveRows
  <1> QED BY <1>2, <1>3, <1>4, QuietFacts

\* Every step of the overlays has the facts.
LEMMA StepHasFacts ==
    ASSUME OverlaysInv, NextOverlays
    PROVE  StepFacts
  <1>1. ASSUME NEW id \in EntityIds, NEW D \in DeleteReads,
               Delete(id, D) \/ DeleteListenerThrows(id, D)
        PROVE  StepFacts
    BY <1>1, DeleteFacts, ListenerThrowsFacts
  <1>2. ASSUME NEW id \in EntityIds, Leave(id)
        PROVE  StepFacts
    <2>1. /\ LeaveEntry(id) /\ IInv
          /\ caches' = caches /\ created' = created /\ deleted' = deleted
      BY <1>2 DEF Leave, hooks, OverlaysInv
    <2>2. ObjectsStay /\ Objects' = Objects /\ list' = list /\ stores' = stores
      BY <2>1, LeaveEffect
    <2> QED BY <2>1, <2>2, QuietFacts
  <1>3. ASSUME NEW id \in EntityIds, NEW c \in Classes, NEW delta \in Changes,
               NEW D \in DeleteReads, NEW R \in Reads, NEW throws \in BOOLEAN,
               Enter(id, c, delta, D, R, throws)
        PROVE  StepFacts
    BY <1>3, EnterFacts
  <1>4. ASSUME NEW id \in EntityIds, NEW c \in Classes, NEW delta \in Changes,
               NEW D \in DeleteReads, EnterFails(id, c, delta, D)
        PROVE  StepFacts
    BY <1>4, EnterFailsFacts
  <1>5. ASSUME NEW id \in EntityIds, NEW delta \in Changes, NEW R \in Reads,
               NEW throws \in BOOLEAN, Preserve(id, delta, R, throws)
        PROVE  StepFacts
    <2>1. /\ PreserveEntry(id, delta) /\ created' = created /\ deleted' = deleted
          /\ \A g \in Getters : caches'[g] \in {Build(g, list, heap), caches[g]}
      BY <1>5, ReadOnly DEF Preserve
    <2> QED BY <2>1, PreserveFacts
  <1>6. ASSUME NEW id \in EntityIds, NEW delta \in Changes, PreserveFails(id, delta)
        PROVE  StepFacts
    BY <1>6, PreserveFacts DEF PreserveFails, hooks
  <1>7. ASSUME NEW c \in Classes, NEW b \in Blobs \cup {Absent, Corrupt}, SetBaseline(c, b)
        PROVE  StepFacts
    <2>1. /\ list' = list /\ heap' = heap /\ stores' = stores
          /\ caches' = caches /\ created' = created /\ deleted' = deleted
      BY <1>7 DEF SetBaseline, SetBaselineEntry, hooks
    <2>2. ObjectsStay /\ Objects' = Objects
      BY <2>1 DEF ObjectsStay, Objects
    <2> QED BY <2>1, <2>2, QuietFacts
  <1>8. ASSUME NEW R \in Reads, ReadGetters(R)
        PROVE  StepFacts
    <2>1. /\ list' = list /\ heap' = heap /\ stores' = stores
          /\ created' = created /\ deleted' = deleted
          /\ \A g \in Getters : caches'[g] \in {Build(g, list, heap), caches[g]}
      BY <1>8, ReadOnly DEF ReadGetters, vars
    <2>2. ObjectsStay /\ Objects' = Objects
      BY <2>1 DEF ObjectsStay, Objects
    <2> QED BY <2>1, <2>2, QuietFacts
  <1> QED BY <1>1, <1>2, <1>3, <1>4, <1>5, <1>6, <1>7, <1>8 DEF NextOverlays

\* Every step preserves the invariant of the overlays.
LEMMA InvKept ==
    ASSUME OverlaysInv, [NextOverlays]_allVars
    PROVE  OverlaysInv'
  <1>1. IInv
    BY DEF OverlaysInv
  <1>2. CASE NextOverlays
    <2>1. IInv'
      BY <1>1, <1>2, EntryOrNothing, NextPreserves
    <2> QED BY <1>2, <2>1, StepHasFacts, FactsSuffice
  <1>3. CASE UNCHANGED allVars
    <2>1. UNCHANGED vars /\ UNCHANGED hooks
      BY <1>3 DEF allVars
    <2>2. IInv'
      BY <1>1, <2>1, NextPreserves
    <2>3. /\ list' = list /\ heap' = heap /\ stores' = stores
          /\ caches' = caches /\ created' = created /\ deleted' = deleted
      BY <2>1 DEF vars, hooks
    <2>4. ObjectsStay /\ Objects' = Objects
      BY <2>3 DEF ObjectsStay, Objects
    <2> QED BY <2>2, <2>3, <2>4, QuietFacts, FactsSuffice
  <1> QED BY <1>2, <1>3

-----------------------------------------------------------------------------
(* Nothing that is gone is shown *)

\* A listed object of g's classes stays, or makes way for one of its class that is not
\* announced.
Harmless(g) ==
    \A i \in EntityIds : list[i] # NoEntity /\ heap[list[i]].class \in Members(g) =>
        \/ list'[i] = list[i] /\ list[i] \notin created' \ created
        \/ /\ list'[i] # NoEntity
           /\ heap'[list'[i]].class = heap[list[i]].class
           /\ list'[i] \notin created'

\* What a step makes of an array, when no listener reads it in entityDeleted.
SoundStep ==
    \A g \in Arrays :
        \/ caches'[g] = NotBuilt
        \/ caches'[g] = Build(g, list', heap')
        \/ caches'[g] = caches[g] /\ Harmless(g)

LEMMA SoundKept ==
    ASSUME OverlaysInv, OverlaysInv', CacheSound, ObjectsStay, SoundStep
    PROVE  CacheSound'
  <1>1. /\ IInv /\ SingleRow /\ HooksKnown
        /\ IInv' /\ SingleRow' /\ HooksKnown'
    BY DEF OverlaysInv
  <1>2. ScansShown'
    BY <1>1, ScanShowsNext
  <1> SUFFICES ASSUME NEW g \in Arrays, caches'[g] # NotBuilt,
                      NEW v \in caches'[g], ~ Listed(v)'
               PROVE  /\ list'[heap'[v].id] # NoEntity
                      /\ heap'[list'[heap'[v].id]].class = heap'[v].class
                      /\ list'[heap'[v].id] \notin created'
    BY DEF CacheSound
  <1>3. g \in Getters
    BY DEF Arrays, Getters
  <1>4. CASE caches'[g] = Build(g, list', heap')
    BY <1>2, <1>3, <1>4 DEF ScansShown
  <1>5. CASE caches'[g] = caches[g] /\ Harmless(g)
    <2> DEFINE x == heap[v].id
    <2>1. v \in Objects /\ heap[v].class \in Members(g)
      BY <1>1, <1>3, <1>5 DEF HooksKnown
    <2>2. /\ heap'[v].id = x /\ heap'[v].class = heap[v].class
          /\ x \in EntityIds /\ v # NoEntity
      BY <1>1, <2>1, ObjectFacts DEF ObjectsStay
    <2>3. /\ list[x] # NoEntity
          /\ heap[list[x]].class = heap[v].class
          /\ Listed(v) \/ list[x] \notin created
      BY <1>5, <2>2 DEF CacheSound, Listed
    <2>4. list[x] \in Objects
      BY <1>1, <2>2, <2>3, ListedObject
    <2>5. CASE list'[x] = list[x] /\ list[x] \notin created' \ created
      BY <2>2, <2>3, <2>4, <2>5 DEF Listed, ObjectsStay
    <2>6. CASE /\ list'[x] # NoEntity
               /\ heap'[list'[x]].class = heap[list[x]].class
               /\ list'[x] \notin created'
      BY <2>2, <2>3, <2>6
    <2> QED BY <1>5, <2>1, <2>2, <2>3, <2>5, <2>6 DEF Harmless
  <1> QED BY <1>4, <1>5 DEF SoundStep

\* An entry that leaves the list alone and announces nobody.
LEMMA QuietIsSound ==
    ASSUME list' = list, created' = created,
           \A g \in Getters : \/ caches'[g] = NotBuilt
                              \/ caches'[g] = Build(g, list', heap')
                              \/ caches'[g] = caches[g]
    PROVE  SoundStep
  <1>1. \A g \in Arrays : Harmless(g)
    BY DEF Harmless
  <1>2. Arrays \subseteq Getters
    BY DEF Arrays, Getters
  <1> QED BY <1>1, <1>2 DEF SoundStep

LEMMA DeleteIsSound ==
    ASSUME QuietDeletes, IInv, NEW id \in EntityIds, NEW D \in DeleteReads, Delete(id, D)
    PROVE  SoundStep
  <1>1. /\ DeleteEntry(id)
        /\ caches' = AfterReads(Dropped(caches, heap[Get(id)].class), D, list, heap)
        /\ created' = created
    BY DEF Delete, OnDelete
  <1>2. OnlyAt(id) /\ Get(id) = list[id]
    BY <1>1, DeleteEffect
  <1> SUFFICES ASSUME NEW g \in Arrays
               PROVE  \/ caches'[g] = NotBuilt
                      \/ caches'[g] = caches[g] /\ Harmless(g)
    BY DEF SoundStep
  <1>3. g \in Getters /\ g \notin D
    BY DEF QuietDeletes, Arrays, Getters
  <1>4. \/ caches'[g] = NotBuilt
        \/ g \notin Drops(heap[list[id]].class) /\ caches'[g] = caches[g]
    BY <1>1, <1>2, <1>3, ReadAfterDrop
  <1>5. g \notin Drops(heap[list[id]].class) => heap[list[id]].class \notin Members(g)
    BY DropsCoverMembers
  <1>6. heap[list[id]].class \notin Members(g) => Harmless(g)
    BY <1>1, <1>2 DEF Harmless, OnlyAt
  <1> QED BY <1>4, <1>5, <1>6

\* What create() puts in the place of an object is of its class, unless the array that
\* showed that object is dropped.
LEMMA CreateIsHarmless ==
    ASSUME IInv, HooksKnown, NEW id \in EntityIds, NEW c \in Classes, Create(id, c),
           NEW g \in Arrays,
           Mismatch(id, c) => g \notin Drops(heap[Get(id)].class),
           \/ created' = created
           \/ created' = created \cup {Len(heap')} /\ c \notin Members(g)
    PROVE  Harmless(g)
  <1> DEFINE n == Len(heap')
  <1>1. /\ n \notin Objects
        /\ Objects' = Objects \cup {n}
        /\ heap'[n].class = c
        /\ OnlyAt(id)
        /\ list'[id] = n
        /\ list[id] \in {NoEntity} \cup Objects
        /\ ~ Mismatch(id, c) => list[id] = NoEntity \/ heap[list[id]].class = c
        /\ Mismatch(id, c) => list[id] # NoEntity /\ Get(id) = list[id]
    BY CreateEffect
  <1>2. n # NoEntity
    <2>1. n = Len(heap) + 1 /\ Len(heap) \in Nat
      <3>1. /\ heap' \in Seq(EntityObject)
            /\ Len(heap') = Len(heap) + 1
            /\ Len(heap') <= MaxObjects
            /\ heap'[Len(heap) + 1] = NewEntity(id, c, Freed(id)[c])
            /\ NewEntity(id, c, Freed(id)[c]) \in EntityObject
            /\ \A w \in Objects : /\ heap'[w].id = heap[w].id
                                  /\ heap'[w].class = heap[w].class
                                  /\ heap'[w].slot = heap[w].slot
                                  /\ heap'[w].version = heap[w].version
        BY CreatedHeap
      <3> QED BY <3>1 DEF IInv, TypeOK
    <2> QED BY <2>1
  <1>3. n \notin created
    BY <1>1 DEF HooksKnown
  <1>4. \/ created' = created
        \/ created' = created \cup {n} /\ c \notin Members(g)
    OBVIOUS
  <1> HIDE DEF n
  <1>5. ASSUME NEW i \in EntityIds, list[i] # NoEntity, heap[list[i]].class \in Members(g)
        PROVE  \/ list'[i] = list[i] /\ list[i] \notin created' \ created
               \/ /\ list'[i] # NoEntity
                  /\ heap'[list'[i]].class = heap[list[i]].class
                  /\ list'[i] \notin created'
    <2>1. CASE i # id
      <3>1. list[i] \in Objects
        BY <1>5, ListedObject
      <3>2. list'[i] = list[i]
        BY <1>1, <2>1 DEF OnlyAt
      <3> QED BY <1>1, <1>4, <3>1, <3>2
    <2>2. CASE i = id
      <3>1. ~ Mismatch(id, c)
        BY <1>1, <1>5, <2>2, DropsCoverMembers
      <3>2. heap[list[id]].class = c /\ c \in Members(g)
        BY <1>1, <1>5, <2>2, <3>1
      <3> QED BY <1>1, <1>2, <1>3, <1>4, <2>2, <3>2
    <2> QED BY <2>1, <2>2
  <1> QED BY <1>5 DEF Harmless

LEMMA EnterIsSound ==
    ASSUME QuietDeletes, IInv, HooksKnown, NEW id \in EntityIds, NEW c \in Classes,
           NEW delta \in Changes, NEW D \in DeleteReads, NEW R, NEW throws,
           Enter(id, c, delta, D, R, throws)
    PROVE  SoundStep
  <1> DEFINE cs == ClearedCaches(id, c, D)
             S == R \cup Feed(c, throws)
  <1>1. /\ EnterEntry(id, c, delta)
        /\ caches' = AfterReads(Dropped(cs, c), S, list', heap')
        /\ created' = created \cup {Len(heap')}
    BY DEF Enter, OnCreate
  <1>2. Create(id, c)
    BY <1>1 DEF EnterEntry
  <1> HIDE DEF cs, S
  <1> SUFFICES ASSUME NEW g \in Arrays
               PROVE  \/ caches'[g] = NotBuilt
                      \/ caches'[g] = Build(g, list', heap')
                      \/ caches'[g] = caches[g] /\ Harmless(g)
    BY DEF SoundStep
  <1>3. g \in Getters /\ g \notin D
    BY DEF QuietDeletes, Arrays, Getters
  <1>4. \/ caches'[g] = NotBuilt
        \/ caches'[g] = Build(g, list', heap')
        \/ g \notin Drops(c) /\ caches'[g] = cs[g]
    BY <1>1, <1>3, ReadAfterDrop
  <1>5. \/ cs[g] = NotBuilt
        \/ /\ cs[g] = caches[g]
           /\ Mismatch(id, c) => g \notin Drops(heap[Get(id)].class)
    BY <1>3, ClearedCache DEF cs
  <1>6. g \notin Drops(c) => c \notin Members(g)
    BY DropsCoverMembers
  <1>7. ASSUME c \notin Members(g), Mismatch(id, c) => g \notin Drops(heap[Get(id)].class)
        PROVE  Harmless(g)
    BY <1>1, <1>2, <1>7, CreateIsHarmless
  <1> QED BY <1>4, <1>5, <1>6, <1>7

LEMMA EnterFailsIsSound ==
    ASSUME QuietDeletes, IInv, HooksKnown, NEW id \in EntityIds, NEW c \in Classes,
           NEW delta \in Changes, NEW D \in DeleteReads, EnterFails(id, c, delta, D)
    PROVE  SoundStep
  <1>1. /\ Create(id, c)
        /\ caches' = ClearedCaches(id, c, D)
        /\ created' = created
    BY DEF EnterFails, EnterEntry, EnterWithoutBaseline
  <1> SUFFICES ASSUME NEW g \in Arrays
               PROVE  \/ caches'[g] = NotBuilt
                      \/ caches'[g] = caches[g] /\ Harmless(g)
    BY DEF SoundStep
  <1>2. g \in Getters /\ g \notin D
    BY DEF QuietDeletes, Arrays, Getters
  <1>3. \/ caches'[g] = NotBuilt
        \/ /\ caches'[g] = caches[g]
           /\ Mismatch(id, c) => g \notin Drops(heap[Get(id)].class)
    BY <1>1, <1>2, ClearedCache
  <1>4. ASSUME Mismatch(id, c) => g \notin Drops(heap[Get(id)].class)
        PROVE  Harmless(g)
    BY <1>1, <1>4, CreateIsHarmless
  <1> QED BY <1>3, <1>4

LEMMA StepIsSound ==
    ASSUME QuietDeletes, OverlaysInv, NextOverlays
    PROVE  SoundStep
  <1> USE DEF OverlaysInv
  <1>1. ASSUME NEW id \in EntityIds, NEW D \in DeleteReads, Delete(id, D)
        PROVE  SoundStep
    BY <1>1, DeleteIsSound
  <1>2. ASSUME NEW id \in EntityIds, NEW D \in DeleteReads, DeleteListenerThrows(id, D)
        PROVE  SoundStep
    <2>1. /\ list' = list /\ heap' = heap /\ created' = created
          /\ \A g \in Getters : \/ caches'[g] = NotBuilt
                                \/ caches'[g] = Build(g, list, heap)
                                \/ caches'[g] = caches[g]
      BY <1>2, ReadAfterDrop DEF DeleteListenerThrows, OnDelete, vars
    <2> QED BY <2>1, QuietIsSound
  <1>3. ASSUME NEW id \in EntityIds,
               Leave(id) \/ \E delta \in Changes : PreserveFails(id, delta)
        PROVE  SoundStep
    BY <1>3, QuietIsSound DEF Leave, LeaveEntry, PreserveFails, PreserveEntry, hooks
  <1>4. ASSUME NEW id \in EntityIds, NEW c \in Classes, NEW delta \in Changes,
               NEW D \in DeleteReads, NEW R \in Reads, NEW throws \in BOOLEAN,
               Enter(id, c, delta, D, R, throws)
        PROVE  SoundStep
    BY <1>4, EnterIsSound
  <1>5. ASSUME NEW id \in EntityIds, NEW c \in Classes, NEW delta \in Changes,
               NEW D \in DeleteReads, EnterFails(id, c, delta, D)
        PROVE  SoundStep
    BY <1>5, EnterFailsIsSound
  <1>6. ASSUME NEW id \in EntityIds, NEW delta \in Changes, NEW R \in Reads,
               NEW throws \in BOOLEAN, Preserve(id, delta, R, throws)
        PROVE  SoundStep
    <2>1. /\ list' = list /\ heap' = heap /\ created' = created
          /\ \A g \in Getters : \/ caches'[g] = Build(g, list, heap)
                                \/ caches'[g] = caches[g]
      BY <1>6, ReadOnly DEF Preserve, PreserveEntry
    <2> QED BY <2>1, QuietIsSound
  <1>7. ASSUME NEW R \in Reads, ReadGetters(R)
        PROVE  SoundStep
    <2>1. /\ list' = list /\ heap' = heap /\ created' = created
          /\ \A g \in Getters : \/ caches'[g] = Build(g, list, heap)
                                \/ caches'[g] = caches[g]
      BY <1>7, ReadOnly DEF ReadGetters, vars
    <2> QED BY <2>1, QuietIsSound
  <1>8. ASSUME NEW c \in Classes, NEW b \in Blobs \cup {Absent, Corrupt}, SetBaseline(c, b)
        PROVE  SoundStep
    BY <1>8, QuietIsSound DEF SetBaseline, SetBaselineEntry, hooks
  <1> HIDE DEF OverlaysInv
  <1> QED BY <1>1, <1>2, <1>3, <1>4, <1>5, <1>6, <1>7, <1>8 DEF NextOverlays

-----------------------------------------------------------------------------
(* Theorems *)

\* OverlaysInv holds at the start and every step preserves it: the types, the owner of every
\* row, the one row of the singletons, and what the caches show.
THEOREM OverlaysHold == SpecOverlays => []OverlaysInv
  <1>1. InitOverlays => OverlaysInv
    <2> SUFFICES ASSUME InitOverlays PROVE OverlaysInv
      OBVIOUS
    <2>1. Init /\ (\A g \in Getters : caches[g] = NotBuilt) /\ created = {} /\ deleted = {}
      BY DEF InitOverlays
    <2>2. IInv
      BY <2>1, InitEstablishes
    <2>3. Objects = {}
      BY <2>1 DEF Init, Objects
    <2>4. \A c \in Classes : stores[c].nextSlot = 0
      BY <2>1 DEF Init, NewStore
    <2>5. SingleRow
      BY <2>3, <2>4 DEF SingleRow, Live
    <2>6. HooksKnown /\ CacheComplete /\ DeathIsAnnounced
      BY <2>1 DEF HooksKnown, CacheComplete, DeathIsAnnounced, Arrays, Getters
    <2> QED BY <2>2, <2>5, <2>6 DEF OverlaysInv
  <1>2. OverlaysInv /\ [NextOverlays]_allVars => OverlaysInv'
    BY InvKept
  <1> QED BY <1>1, <1>2, PTL DEF SpecOverlays

\* No memoized array misses an entity that was announced and is still in the list, whatever
\* entries failed, whichever listeners threw and whatever they had read.
THEOREM CachesMissNobody == SpecOverlays => []CacheComplete
  <1>1. OverlaysInv => CacheComplete
    BY DEF OverlaysInv
  <1> QED BY <1>1, OverlaysHold, PTL

\* An announced entity leaves the list with an entityDeleted or by the entry of another
\* entity of its class at its id.
THEOREM DeathsAnnounced == SpecOverlays => []DeathIsAnnounced
  <1>1. OverlaysInv => DeathIsAnnounced
    BY DEF OverlaysInv
  <1> QED BY <1>1, OverlaysHold, PTL

\* The overlay of a singleton, built once and kept, reads the row of the entity that has
\* the role now, however often the server re-created it.
THEOREM SingletonsFollow == SpecOverlays => []SingletonFollows
  <1>1. OverlaysInv => SingletonFollows
    <2> SUFFICES ASSUME OverlaysInv, NEW g \in Getters \ Arrays, caches[g] # NotBuilt,
                        NEW v \in caches[g], NEW w \in Objects,
                        heap[w].class = heap[v].class
                 PROVE  heap[w].slot = heap[v].slot
      BY DEF SingletonFollows
    <2>1. v \in Objects /\ heap[v].class \in Members(g)
      BY DEF OverlaysInv, HooksKnown
    <2>2. heap[v].class \in {RulesClass, ResourceClass}
      <3>1. g = "gameRules" \/ g = "playerResource"
        BY DEF Getters, Arrays
      <3> QED BY <2>1, <3>1 DEF Members
    <2>3. heap[v].class \in Classes
      BY <2>1, ObjectFacts DEF OverlaysInv
    <2> QED BY <2>1, <2>2, <2>3 DEF OverlaysInv, SingleRow
  <1> QED BY <1>1, OverlaysHold, PTL

\* As long as no listener of entityDeleted reads an array, the arrays show nobody that is
\* gone, but for one whose successor at its id failed to decode and was not announced.
THEOREM CachesShowNobodyGone ==
    ASSUME QuietDeletes
    PROVE  SpecOverlays => []CacheSound
  <1>1. InitOverlays => CacheSound
    BY DEF InitOverlays, CacheSound, Arrays, Getters
  <1>2. OverlaysInv /\ OverlaysInv' /\ CacheSound /\ [NextOverlays]_allVars => CacheSound'
    <2> SUFFICES ASSUME OverlaysInv, OverlaysInv', CacheSound, [NextOverlays]_allVars
                 PROVE  CacheSound'
      OBVIOUS
    <2>1. CASE NextOverlays
      <3>1. ObjectsStay
        BY <2>1, StepHasFacts DEF StepFacts
      <3> QED BY <2>1, <3>1, StepIsSound, SoundKept
    <2>2. CASE UNCHANGED allVars
      BY <2>2 DEF CacheSound, Listed, allVars, vars, hooks
    <2> QED BY <2>1, <2>2
  <1> QED BY <1>1, <1>2, OverlaysHold, PTL DEF SpecOverlays

=============================================================================
