------------------------------ MODULE EntityMap ------------------------------
(***************************************************************************)
(* What the entity layer promises, without storage: a map from entity ids  *)
(* to entities.  An entity has a class and, per prop, a value or nothing   *)
(* (never written).  A step changes one id, and nothing an entity shows    *)
(* was ever written to another one: a new entity shows its class's         *)
(* baseline overridden by the props of its own create-delta.               *)
(*                                                                         *)
(* Entities implements this specification (src/entities/EntityList.ts,     *)
(* EntityStore.ts and PacketEntitiesDecoder.ts).                           *)
(***************************************************************************)
CONSTANTS
    EntityIds,    \* entity ids on the wire
    Classes,      \* ServerClasses
    Props, Values, Undefined,
    Absent        \* no entity at an id; no baseline for a class

VARIABLES
    world,        \* [EntityIds -> entity, or Absent]
    template      \* [Classes -> the decoded baseline, or Absent]

vars == <<world, template>>

Shown == [Props -> Values \cup {Undefined}]
Delta == UNION {[S -> Values] : S \in SUBSET Props}
Entity == [class : Classes, props : Shown]

Nothing == [p \in Props |-> Undefined]

Overridden(props, delta) ==
    [p \in Props |-> IF p \in DOMAIN delta THEN delta[p] ELSE props[p]]

TypeOK ==
    /\ world \in [EntityIds -> Entity \cup {Absent}]
    /\ template \in [Classes -> Delta \cup {Absent}]

Init ==
    /\ world = [id \in EntityIds |-> Absent]
    /\ template = [c \in Classes |-> Absent]

\* An entity of class c appears at id, replacing whatever was there.  The first
\* baseline found for c is the baseline of c from then on.
Enter(id, c, delta) ==
    \E base \in Delta \cup {Absent} :
        /\ template[c] # Absent => base = template[c]
        /\ template' = [template EXCEPT ![c] = base]
        /\ LET start == IF base = Absent THEN Nothing ELSE Overridden(Nothing, base)
           IN  world' = [world EXCEPT ![id] =
                            [class |-> c, props |-> Overridden(start, delta)]]

Update(id, delta) ==
    /\ world[id] # Absent
    /\ world' = [world EXCEPT ![id].props = Overridden(@, delta)]
    /\ UNCHANGED template

Delete(id) ==
    /\ world[id] # Absent
    /\ world' = [world EXCEPT ![id] = Absent]
    /\ UNCHANGED template

Next ==
    \E id \in EntityIds :
        \/ \E c \in Classes, delta \in Delta : Enter(id, c, delta)
        \/ \E delta \in Delta : Update(id, delta)
        \/ Delete(id)

Spec == Init /\ [][Next]_vars

=============================================================================
