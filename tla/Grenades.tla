------------------------------- MODULE Grenades -------------------------------
(***************************************************************************)
(* The two trackers that follow entities rather than rounds:               *)
(* GrenadeTrajectoryTracker (src/convenience/GrenadeTrajectoryTracker.ts)  *)
(* and, extended here, PositionTracker.  They hear entityCreated, -Updated *)
(* and -Deleted and the raw game events, and find a grenade's thrower      *)
(* through a handle (module EntityHandles).                                *)
(*                                                                         *)
(* The game server is the environment.  It owns the entities, an entity's  *)
(* unique name being its id and how often that id has been used; the       *)
(* demo's entries and events tell the parser later.  An id may be given to *)
(* a new entity before its delete entry went out: the new one then enters  *)
(* in place of the old, as the decoder provides for.                       *)
(***************************************************************************)
EXTENDS EntityHandles, Positions, SequencesExt

CONSTANTS
    PlayerIds, ProjectileIds,   \* entity ids
    Classes,                    \* of the projectile classes, those in play
    Places,                     \* values of m_vecOrigin
    MaxTick, MaxUses, MaxSteps  \* bounds: the ticks, the uses of one id, the steps

ProjectileClasses ==
    {"CSmokeGrenadeProjectile", "CMolotovProjectile", "CDecoyProjectile",
     "CBaseCSGrenadeProjectile"}

Ids == PlayerIds \cup ProjectileIds
Names == Ids \X (1 .. MaxUses)

GrenadeTypes == {"he", "flash", "smoke", "molotov", "decoy"}

Origin == Places \cup {None}
Entity == [name : Names, serial : Nat, class : ProjectileClasses \cup {"CCSPlayer"},
           handle : Int, origin : Origin]
Explosion == [origin : Origin, tick : Int]
Trajectory == [of : Names, thrower : Names \cup {None}, type : GrenadeTypes, throwTick : Int,
               trajectory : Seq([origin : Places, tick : Int]),
               blast : Explosion \cup {None}]
Detonation == [origin : Origin, type : GrenadeTypes]

ASSUME GrenadesAssumption ==
    /\ Classes \subseteq ProjectileClasses
    /\ PlayerIds \subseteq 1 .. (Indices - 2)       \* the last id is no player's
    /\ ProjectileIds \subseteq 1 .. (Indices - 1)
    /\ PlayerIds \cap ProjectileIds = {}
    /\ None \notin Places
    /\ None \notin Int \X Int
    /\ None \notin Entity
    /\ None \notin Trajectory
    /\ None \notin Detonation
    /\ None \notin Explosion
    /\ MaxTick \in Nat /\ MaxUses \in Nat /\ MaxSteps \in Nat

VARIABLES
    server,         \* the entities of the game: id -> entity or None
    uses,           \* how often each id has been used
    events,         \* detonate events under way to the demo
    list,           \* the parser's entity list, each entity as last seen
    outside,        \* ids of entities outside the recording's PVS
    tracked,        \* GrenadeTrajectoryTracker.tracked: id -> record or None
    completed,      \* and its completed records
    steps,          \* what MaxSteps bounds
    seen            \* (history) of a grenade: who threw it, how often it entered, the
                    \* origins sent of it, all and since it last entered, how it blew
                    \* up, whether the demo told that while the parser had it, and
                    \* whether another of its class has entered in its place

game == <<server, uses, events>>
tracker == <<tracked, completed>>
vars == <<tick, positions, game, list, outside, tracker, steps, seen>>

\* PROJECTILE_CLASS_TO_TYPE; and DETONATE_EVENT_TO_TYPE, an event named by its type.
TypeOfClass ==
    [c \in ProjectileClasses |->
        IF c = "CSmokeGrenadeProjectile" THEN "smoke"
        ELSE IF c = "CMolotovProjectile" THEN "molotov"
        ELSE IF c = "CDecoyProjectile" THEN "decoy"
        ELSE "he"]

EventTypes(class) ==
    IF class = "CBaseCSGrenadeProjectile" THEN {"he", "flash"} ELSE {TypeOfClass[class]}

Init ==
    /\ tick = 0
    /\ PositionsInit
    /\ server = [i \in Ids |-> None]
    /\ uses = [i \in Ids |-> 0]
    /\ events = {}
    /\ list = [i \in Ids |-> None]
    /\ outside = {}
    /\ tracked = [i \in Ids |-> None]
    /\ completed = << >>
    /\ steps = 0
    /\ seen = [g \in Names |->
                [by |-> None, enters |-> 0, path |-> << >>, origins |-> << >>, blast |-> None,
                 told |-> FALSE, replaced |-> FALSE]]

-----------------------------------------------------------------------------
(* The tracker's handlers *)

\* m_vecOrigin is sampled when it is there and is not the last one sampled.
SampleOrigin(record, origin) ==
    LET n == Len(record.trajectory)
    IN  IF origin = None \/ (n > 0 /\ record.trajectory[n].origin = origin) THEN record
        ELSE [record EXCEPT !.trajectory = Append(@, [origin |-> origin, tick |-> tick])]

LivePlayers(entities) == {i \in Ids : entities[i] # None /\ entities[i].class = "CCSPlayer"}

\* resolveThrower; entities is the list with the new projectile in it.
ResolveThrower(entities, handle) ==
    LET e == ResolveHandle(entities, handle, None)
    IN  IF e = None \/ e.class # "CCSPlayer" THEN None ELSE e.name

OnEntityCreated(entities, tracking, i) ==
    LET e == entities[i]
        record == [of |-> e.name, thrower |-> ResolveThrower(entities, e.handle),
                   type |-> TypeOfClass[e.class], trajectory |-> << >>,
                   throwTick |-> tick, blast |-> None]
    IN  IF e.class \notin DOMAIN TypeOfClass THEN tracking
        ELSE [tracking EXCEPT ![i] = SampleOrigin(record, e.origin)]

OnEntityUpdated(i, e) ==
    tracked' = IF tracked[i] = None THEN tracked
               ELSE [tracked EXCEPT ![i] = SampleOrigin(@, e.origin)]

\* onEntityDeleted on id i: what it leaves in tracked and in completed.
Untracked(i) == [tracked EXCEPT ![i] = None]
CompletedIfBlown(i) ==                  \* variant: a record without a detonation is dropped
    IF tracked[i] = None \/ tracked[i].blast = None THEN completed
    ELSE Append(completed, tracked[i])

CompletedWith(i) == IF tracked[i] = None THEN completed ELSE Append(completed, tracked[i])

\* onGameEvent; entityid 0 and unknown ids are passed over.
OnGameEvent(e) ==
    /\ tracked' = IF tracked[e.id] = None THEN tracked
                  ELSE [tracked EXCEPT ![e.id].blast = [origin |-> e.origin, tick |-> tick],
                                       ![e.id].type = e.type]
    /\ UNCHANGED completed

\* toFrozen of the completed records, then of the tracked ones.
Snapshot ==
    ({completed[n] : n \in DOMAIN completed} \cup {tracked[i] : i \in Ids}) \ {None}

-----------------------------------------------------------------------------
(* The game *)

Named(i) == <<i, uses[i] + 1>>
NewSerial(i) == (uses[i] + 1) % Serials    \* as wide as an entry carries it

\* No id is given away while an event that names it is under way.
Free(i) ==
    /\ server[i] = None
    /\ \A e \in events : e.id # i
    /\ uses[i] < MaxUses

Join(i) ==
    /\ Free(i)
    /\ server' = [server EXCEPT ![i] =
            [name |-> Named(i), serial |-> NewSerial(i), class |-> "CCSPlayer", origin |-> None,
             handle |-> InvalidHandle]]
    /\ uses' = [uses EXCEPT ![i] = @ + 1]
    /\ UNCHANGED <<tick, positions, events, list, outside, tracker, seen>>

\* A grenade is thrown by the player p, or by nobody.
Throw(i, p, class, origin) ==
    /\ Free(i)
    /\ p # None => server[p] # None
    /\ server' = [server EXCEPT ![i] =
            [name |-> Named(i), serial |-> NewSerial(i), class |-> class, origin |-> origin,
             handle |-> IF p = None THEN EmptyPacked ELSE PackedHandle(p, server[p].serial)]]
    /\ uses' = [uses EXCEPT ![i] = @ + 1]
    /\ seen' = [seen EXCEPT ![Named(i)].by = IF p = None THEN None ELSE server[p].name]
    /\ UNCHANGED <<tick, positions, events, list, outside, tracker>>

\* An entity is gone from the game; the demo may say so later, or never.
Vanish(i) ==
    /\ server[i] # None
    /\ server' = [server EXCEPT ![i] = None]
    /\ UNCHANGED <<tick, positions, uses, events, list, outside, tracker, seen>>

\* No grenade explodes before the demo has shown it.
Detonate(i, type) ==
    /\ server[i] # None /\ server[i].class \in Classes
    /\ seen[server[i].name].enters > 0
    /\ type \in EventTypes(server[i].class)
    /\ seen[server[i].name].blast = None
    /\ events' = events \cup {[id |-> i, origin |-> server[i].origin, type |-> type]}
    /\ seen' = [seen EXCEPT ![server[i].name].blast = [origin |-> server[i].origin, type |-> type]]
    /\ UNCHANGED <<tick, positions, server, uses, list, outside, tracker>>

-----------------------------------------------------------------------------
(* What the demo tells the parser *)

NextFrame(t) ==
    /\ t # tick
    /\ tick' = t
    /\ UNCHANGED <<positions, game, list, outside, tracker, seen>>

\* The parser has the entity that sits at i now.
Known(i) == server[i] # None /\ list[i] # None /\ list[i].name = server[i].name

\* An entity enters, for the first time, again or in place of another; the entry may
\* leave the origin to a later one.  An entity of another class at the id is
\* announced as deleted first, one of the same class is not.
Enter(i, origin) ==
    /\ server[i] # None
    /\ ~Known(i) \/ i \in outside
    /\ origin \in {server[i].origin, None}
    /\ LET e == [server[i] EXCEPT !.origin = origin]
           mismatch == list[i] # None /\ list[i].class # e.class
           sent == IF origin = None THEN << >> ELSE <<origin>>
       IN  /\ list' = [list EXCEPT ![i] = e]
           /\ tracked' = OnEntityCreated(list', IF mismatch THEN Untracked(i) ELSE tracked, i)
           /\ completed' = IF mismatch THEN CompletedWith(i) ELSE completed
           /\ seen' = [g \in Names |->
                 IF g = e.name
                   THEN [seen[g] EXCEPT !.enters = @ + 1, !.path = @ \o sent, !.origins = sent]
                 ELSE [seen[g] EXCEPT !.replaced = @ \/ (list[i] # None /\ list[i].name = g /\ ~mismatch)]]
    /\ outside' = outside \ {i}
    /\ UNCHANGED <<tick, positions, game>>

\* An update of an entity the parser knows: it moves, or something else about it
\* changes, with its origin sent along or not.
Update(i, origin) ==
    /\ Known(i) /\ i \notin outside
    /\ origin \in {list[i].origin} \cup (IF server[i].class \in Classes THEN Places ELSE {})
    /\ server' = [server EXCEPT ![i].origin = IF origin = None THEN @ ELSE origin]
    /\ list' = [list EXCEPT ![i].origin = origin]
    /\ OnEntityUpdated(i, list'[i])
    /\ Sample(LivePlayers(list))
    /\ seen' = IF origin = None THEN seen
               ELSE [seen EXCEPT ![server[i].name].path = Append(@, origin),
                                 ![server[i].name].origins = Append(@, origin)]
    /\ UNCHANGED <<tick, uses, events, outside, completed>>

Leave(i) ==
    /\ Known(i) /\ i \notin outside
    /\ outside' = outside \cup {i}
    /\ UNCHANGED <<tick, positions, game, list, tracker, seen>>

Delete(i) ==
    /\ list[i] # None
    /\ server[i] = None
    /\ completed' = CompletedWith(i)
    /\ tracked' = Untracked(i)
    /\ list' = [list EXCEPT ![i] = None]
    /\ outside' = outside \ {i}
    /\ UNCHANGED <<tick, positions, game, seen>>

GameEvent(e) ==
    /\ OnGameEvent(e)
    /\ events' = events \ {e}
    /\ seen' = IF list[e.id] = None THEN seen ELSE [seen EXCEPT ![list[e.id].name].told = TRUE]
    /\ UNCHANGED <<tick, positions, server, uses, list, outside>>

Next ==
    /\ steps < MaxSteps
    /\ steps' = steps + 1
    /\ \/ \E i \in PlayerIds : Join(i)
       \/ \E i \in ProjectileIds, p \in PlayerIds \cup {None}, c \in Classes, x \in Places :
            Throw(i, p, c, x)
       \/ \E i \in Ids : Vanish(i)
       \/ \E i \in ProjectileIds, type \in GrenadeTypes :
            Detonate(i, type)
       \/ \E t \in 0 .. MaxTick : NextFrame(t)
       \/ \E i \in Ids, x \in Places \cup {None} : Enter(i, x)
       \/ \E i \in Ids, x \in Places \cup {None} : Update(i, x)
       \/ \E i \in Ids : Leave(i)
       \/ \E i \in Ids : Delete(i)
       \/ \E e \in events : GameEvent(e)

Spec == Init /\ [][Next]_vars

-----------------------------------------------------------------------------
(* Properties *)

TypeOK ==
    /\ tick \in Int
    /\ lastSampledTick \in Int \cup {None}
    /\ samples \in Seq([tick : Int, players : SUBSET Ids])
    /\ server \in [Ids -> Entity \cup {None}]
    /\ uses \in [Ids -> 0 .. MaxUses]
    /\ events \subseteq [id : ProjectileIds, origin : Origin, type : GrenadeTypes]
    /\ list \in [Ids -> Entity \cup {None}]
    /\ outside \subseteq Ids
    /\ tracked \in [Ids -> Trajectory \cup {None}]
    /\ completed \in Seq(Trajectory)
    /\ steps \in Nat
    /\ seen \in [Names -> [by : Names \cup {None}, enters : Nat, path : Seq(Places),
                          origins : Seq(Places), blast : Detonation \cup {None},
                          told : BOOLEAN, replaced : BOOLEAN]]

Origins(r) == [n \in DOMAIN r.trajectory |-> r.trajectory[n].origin]

\* Without repetitions in a row.
Squeeze(s) == FoldLeft(LAMBDA t, x : IF t # << >> /\ t[Len(t)] = x THEN t ELSE Append(t, x),
                       << >>, s)

\* The record r tells nothing but what g, of seen, has done: its points are the origins
\* sent since g last entered, repetitions in a row left out, and an explosion it tells
\* is that of g.
TellsNoOther(r, g) ==
    /\ Origins(r) = Squeeze(g.origins)
    /\ r.blast # None =>
        /\ g.told
        /\ r.blast.origin = g.blast.origin
        /\ r.type = g.blast.type

\* Some record tells the whole flight of the grenade of that name, from the first origin
\* sent of it to the last, and its explosion if the demo told that of it.
HasWholeFlight(name) ==
    \E r \in Snapshot :
        /\ r.of = name
        /\ Origins(r) = Squeeze(seen[name].path)
        /\ TellsNoOther(r, seen[name])
        /\ seen[name].told => r.blast # None

\* A grenade that entered once and that no other of its class took the place of.
Uninterrupted(g) == g.enters = 1 /\ ~g.replaced

Projectiles == ProjectileIds \X (1 .. MaxUses)

\* Such a grenade has its whole flight recorded, whichever of the explosion's event and
\* the grenade's deletion the demo tells first, and whatever had its id before and has
\* it after.  And no record mixes two grenades, or is of one that another is of,
\* whether or not they were interrupted.
FlightIsWhole ==
    /\ \A g \in Projectiles : Uninterrupted(seen[g]) => HasWholeFlight(g)
    /\ \A r \in Snapshot : TellsNoOther(r, seen[r.of])
    /\ \A m, n \in DOMAIN completed : m # n => completed[m].of # completed[n].of
    /\ \A n \in DOMAIN completed, i \in Ids : tracked[i] # None => completed[n].of # tracked[i].of

\* The head of GrenadeTrajectoryTracker: every grenade that enters has its whole flight
\* recorded, also one that leaves and enters again or whose id is taken over.
EveryFlightIsWhole == \A g \in Projectiles : seen[g].enters > 0 => HasWholeFlight(g)

\* What FlightIsWhole needs to be inductive.  An entity's name says where it sits, the
\* one in the game is the last that sat there, and what it is follows from its id.
NamedAsPlaced ==
    \A i \in Ids :
        /\ server[i] # None => server[i].name = <<i, uses[i]>>
        /\ list[i] # None => list[i].name[1] = i /\ list[i].name[2] <= uses[i]
        /\ \A e \in {server[i], list[i]} \ {None} : e.class = "CCSPlayer" <=> i \in PlayerIds
        /\ Known(i) => list[i].class = server[i].class

\* The grenades of the list, and nothing else, are tracked, each under its own name.
TrackedAsListed ==
    \A i \in Ids :
        /\ tracked[i] # None <=> list[i] # None /\ i \in ProjectileIds
        /\ tracked[i] # None => tracked[i].of = list[i].name

\* A completed record is of a grenade before the one at its id, and of no other's.
CompletedAreGone ==
    /\ \A n \in DOMAIN completed :
        LET i == completed[n].of[1]
            k == completed[n].of[2]
        IN  /\ server[i] # None => k < uses[i]
            /\ list[i] # None => k < list[i].name[2]
            /\ k <= uses[i]
    /\ \A m, n \in DOMAIN completed : m # n => completed[m].of # completed[n].of

\* The record r tells the flight that g, of seen, has gone since it last entered.
TellsFlight(r, g) ==
    /\ TellsNoOther(r, g)
    /\ r.blast # None => g.blast # None
    /\ g.enters = 1 /\ g.told => r.blast # None

RecordsTellFlights ==
    /\ \A i \in Ids : tracked[i] # None => TellsFlight(tracked[i], seen[tracked[i].of])
    /\ \A n \in DOMAIN completed : TellsFlight(completed[n], seen[completed[n].of])

\* What is listed has entered; what has not entered twice has no origins but those
\* sent since it entered.
PathsBegin ==
    /\ \A i \in Ids : list[i] # None => seen[list[i].name].enters > 0
    /\ \A g \in Names :
        /\ seen[g].enters = 0 => seen[g].path = << >> /\ ~seen[g].told
        /\ seen[g].enters = 1 => seen[g].path = seen[g].origins

\* An event under way is of the last grenade at its id; the parser has that one, or none.
BlastsUnderWay ==
    \A e \in events :
        /\ <<e.id, uses[e.id]>> \in Names
        /\ seen[<<e.id, uses[e.id]>>].blast = [origin |-> e.origin, type |-> e.type]
        /\ list[e.id] # None => list[e.id].name = <<e.id, uses[e.id]>>

\* The k-th use of the id i is in the list, or has left its record behind.
HasRecord(i, k) ==
    \/ list[i] # None /\ list[i].name = <<i, k>>
    \/ \E n \in DOMAIN completed : completed[n].of = <<i, k>>

\* What has entered is in the list for as long as it is in the game, and no longer
\* than it leaves a record behind, unless interrupted; what is not yet has not entered.
EnteredIsRecorded ==
    \A i \in Ids, k \in 1 .. MaxUses : seen[<<i, k>>].enters > 0 =>
        /\ k <= uses[i]
        /\ server[i] # None /\ k = uses[i] => Known(i)
        /\ i \in ProjectileIds /\ Uninterrupted(seen[<<i, k>>]) => HasRecord(i, k)

Flights ==
    /\ NamedAsPlaced
    /\ TrackedAsListed
    /\ CompletedAreGone
    /\ RecordsTellFlights
    /\ PathsBegin
    /\ BlastsUnderWay
    /\ EnteredIsRecorded

\* The thrower of a record is the player its handle was made for, or a later one in
\* that player's slot whose serial has come round to the same number; the packed
\* "no entity" names nobody.
ThrowerIsThrower ==
    \A r \in Snapshot : r.thrower # None =>
        LET by == seen[r.of].by
        IN  /\ by # None
            /\ r.thrower[1] = by[1]
            /\ (r.thrower[2] - by[2]) % Serials = 0
=============================================================================
