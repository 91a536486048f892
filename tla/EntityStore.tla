----------------------------- MODULE EntityStore -----------------------------
(***************************************************************************)
(* One EntityStore (src/entities/EntityStore.ts): the storage shared by    *)
(* every entity of one ServerClass.  A store is a record                   *)
(*                                                                         *)
(*   capacity   number of rows the columns have room for                   *)
(*   nextSlot   high-water mark: slots nextSlot.. were never handed out    *)
(*   occupied   slots whose occupied bit is set                            *)
(*   freeList   returned slots; the code pushes and pops at the end        *)
(*   version    the slotVersions column                                    *)
(*   written    per slot, the props whose written bit is set               *)
(*   column     per slot, the typed columns; free() does not clear them    *)
(*                                                                         *)
(* The functions version, written and column have the domain               *)
(* 0..capacity-1, as the typed arrays have that length.  The seven kinds   *)
(* of column (int, float, vector, ...) differ in layout only and are one   *)
(* column here; the bit arithmetic of the two bitsets is abstracted to     *)
(* sets.                                                                   *)
(***************************************************************************)
EXTENDS Integers, Sequences

CONSTANTS
    Props,        \* flat prop indices of a class
    Values,       \* decoded property values
    Zero,         \* what a typed array holds before any write
    Undefined,    \* what read() answers for a prop never written
    VersionMod    \* slotVersions wraps: 2^32 in the code (">>> 0")

ASSUME StoreAssumption ==
    /\ Zero \in Values
    /\ Undefined \notin Values
    /\ VersionMod \in Nat \ {0}

\* The rows of a store with n of them.
Rows(n) == 0 .. n - 1

\* The stores with capacity n: the type of a store.
StoreOf(n) ==
    [ capacity : {n},
      nextSlot : 0 .. n,
      occupied : SUBSET Rows(n),
      freeList : Seq(Rows(n)),
      version  : [Rows(n) -> 0 .. VersionMod - 1],
      written  : [Rows(n) -> SUBSET Props],
      column   : [Rows(n) -> [Props -> Values]] ]

\* A set of changed props with their new values, in a message or a baseline.
Deltas == UNION {[S -> Values] : S \in SUBSET Props}

NewStore(n) ==
    [ capacity |-> n,
      nextSlot |-> 0,
      occupied |-> {},
      freeList |-> << >>,
      version  |-> [s \in Rows(n) |-> 0],
      written  |-> [s \in Rows(n) |-> {}],
      column   |-> [s \in Rows(n) |-> [p \in Props |-> Zero]] ]

-----------------------------------------------------------------------------
(* Capacity: grow() doubles every column, old rows first. *)

Grow(st) ==
    LET n == 2 * st.capacity
        Extend(f, x) == [s \in Rows(n) |-> IF s < st.capacity THEN f[s] ELSE x]
    IN  [ st EXCEPT !.capacity = n,
                    !.version  = Extend(@, 0),
                    !.written  = Extend(@, {}),
                    !.column   = Extend(@, [p \in Props |-> Zero]) ]

-----------------------------------------------------------------------------
(* allocate(): the slot it returns and the store it leaves. *)

AllocatedSlot(st) ==
    IF st.freeList # << >> THEN st.freeList[Len(st.freeList)] ELSE st.nextSlot

AllocateForgetPop(st) ==        \* variant: peeks at the free list, does not pop
    IF st.freeList # << >>
    THEN [st EXCEPT !.occupied = @ \cup {AllocatedSlot(st)}]
    ELSE LET room == IF st.nextSlot >= st.capacity THEN Grow(st) ELSE st
         IN  [ room EXCEPT !.occupied = @ \cup {st.nextSlot},
                           !.nextSlot = @ + 1 ]

AllocateNeverGrow(st) ==        \* variant: takes the next slot without room for it
    IF st.freeList # << >>
    THEN [ st EXCEPT !.occupied = @ \cup {AllocatedSlot(st)},
                     !.freeList = SubSeq(@, 1, Len(@) - 1) ]
    ELSE [ st EXCEPT !.occupied = @ \cup {st.nextSlot},
                     !.nextSlot = @ + 1 ]

Allocate(st) ==
    IF st.freeList # << >>
    THEN [ st EXCEPT !.occupied = @ \cup {AllocatedSlot(st)},
                     !.freeList = SubSeq(@, 1, Len(@) - 1) ]
    ELSE LET room == IF st.nextSlot >= st.capacity THEN Grow(st) ELSE st
         IN  [ room EXCEPT !.occupied = @ \cup {st.nextSlot},
                           !.nextSlot = @ + 1 ]

-----------------------------------------------------------------------------
(* free(slot): out of range or already free is ignored. *)

FreeKeepVersion(st, slot) ==    \* variant: the slot's version is not bumped
    [ st EXCEPT !.occupied = @ \ {slot},
                !.written[slot] = {},
                !.freeList = Append(@, slot) ]

FreeKeepWritten(st, slot) ==    \* variant: the written bits survive the free
    [ st EXCEPT !.occupied = @ \ {slot},
                !.version[slot] = (@ + 1) % VersionMod,
                !.freeList = Append(@, slot) ]

FreeForgetPush(st, slot) ==     \* variant: the slot is never handed out again
    IF slot < st.nextSlot /\ slot \in st.occupied
    THEN [ st EXCEPT !.occupied = @ \ {slot},
                     !.written[slot] = {},
                     !.version[slot] = (@ + 1) % VersionMod ]
    ELSE st

Free(st, slot) ==
    IF slot < st.nextSlot /\ slot \in st.occupied
    THEN [ st EXCEPT !.occupied = @ \ {slot},
                     !.written[slot] = {},
                     !.version[slot] = (@ + 1) % VersionMod,
                     !.freeList = Append(@, slot) ]
    ELSE st

\* getVersion(slot), 0 past the end of the column.
GetVersion(st, slot) == IF slot \in Rows(st.capacity) THEN st.version[slot] ELSE 0

-----------------------------------------------------------------------------
(* write() for every prop of a delta, and read(). *)

WriteAll(st, slot, delta) ==
    [ st EXCEPT
        !.written[slot] = @ \cup DOMAIN delta,
        !.column[slot] =
            [p \in Props |-> IF p \in DOMAIN delta THEN delta[p] ELSE @[p]] ]

Read(st, slot, p) ==
    IF p \in st.written[slot] THEN st.column[slot][p] ELSE Undefined

-----------------------------------------------------------------------------
(* The discipline a store keeps between two calls. *)

\* slot is on the free list.
OnFreeList(st, slot) == \E i \in 1 .. Len(st.freeList) : st.freeList[i] = slot

\* Every slot ever handed out is either occupied or on the free list once, and a slot
\* that is not occupied shows no value.
WellFormed(st) ==
    /\ st.capacity \in Nat \ {0}
    /\ st \in StoreOf(st.capacity)
    /\ st.occupied \subseteq Rows(st.nextSlot)
    /\ \A i \in 1 .. Len(st.freeList) : st.freeList[i] \in Rows(st.nextSlot)
    /\ \A s \in Rows(st.nextSlot) : s \in st.occupied <=> ~ OnFreeList(st, s)
    /\ \A i, j \in 1 .. Len(st.freeList) : st.freeList[i] = st.freeList[j] => i = j
    /\ \A s \in Rows(st.capacity) : s \notin st.occupied => st.written[s] = {}

=============================================================================
