----------------------------- MODULE EntityHandles -----------------------------
(***************************************************************************)
(* Entity handles (src/state/EntityHandle.ts): an entity's id in the low   *)
(* bits and its serial number above them.  The engine's own handle has     *)
(* room for RawSerials serials, the one a prop carries for Serials; which  *)
(* of the two a number is has to be seen from its size.                    *)
(*                                                                         *)
(* The sizes are parameters: 2^11, 2^10 and 2^21 in the code.              *)
(***************************************************************************)
EXTENDS Integers

CONSTANTS Indices, Serials, RawSerials

ASSUME HandlesAssumption ==
    /\ Indices \in Nat \ {0} /\ Serials \in Nat \ {0} /\ RawSerials \in Nat
    /\ Serials < RawSerials

\* All bits set, the engine's "no entity".
InvalidHandle == Indices * RawSerials - 1

IsPacked(h) == h # InvalidHandle /\ h < Indices * Serials

HandleToIndex(h) == h % Indices

SerialMask(h) == IF IsPacked(h) THEN Serials ELSE RawSerials

HandleToSerial(h) == (h \div Indices) % SerialMask(h)

\* What a prop of the entity (id, serial) carries, and what an empty one does: all
\* bits of the packed form, to the code a handle like any other.
PackedHandle(id, serial) == id + Indices * serial
EmptyPacked == PackedHandle(Indices - 1, Serials - 1)

IgnoresSerial(list, h, none) ==         \* variant: whatever sits at the index
    IF h # InvalidHandle /\ HandleToIndex(h) \in DOMAIN list
    THEN list[HandleToIndex(h)] ELSE none

\* resolveHandle; list is the entity list, none stands for undefined.
ResolveHandle(list, h, none) ==
    LET i == HandleToIndex(h)
        e == IF i \in DOMAIN list THEN list[i] ELSE none
    IN  IF \/ h = InvalidHandle
           \/ e = none
           \/ e.serial % SerialMask(h) # HandleToSerial(h)
        THEN none
        ELSE e
=============================================================================
