----------------------------- MODULE GrenadesProofs -----------------------------
(***************************************************************************)
(* Theorems about the grenade and position trackers, for every size of the *)
(* handles, every set of entities and any number of steps.                 *)
(***************************************************************************)
EXTENDS Grenades, FiniteSetTheorems, SequenceTheorems, WellFoundedInduction, TLAPS

-----------------------------------------------------------------------------
(* Records and entities *)

\* Sampling an origin appends to the trajectory at most, and changes nothing else.
LEMMA SampleOriginKeeps ==
    ASSUME NEW r \in Trajectory, NEW x \in Origin, tick \in Int
    PROVE  /\ SampleOrigin(r, x) \in Trajectory
           /\ SampleOrigin(r, x).of = r.of
           /\ SampleOrigin(r, x).thrower = r.thrower
  <1> DEFINE point == [origin |-> x, tick |-> tick]
             longer == [r EXCEPT !.trajectory = Append(@, point)]
  <1>1. SampleOrigin(r, x) = r \/ (x \in Places /\ SampleOrigin(r, x) = longer)
    BY DEF SampleOrigin, Origin
  <1>2. CASE x \in Places
    <2>1. Append(r.trajectory, point) \in Seq([origin : Places, tick : Int])
      BY <1>2 DEF Trajectory
    <2>2. longer \in Trajectory /\ longer.of = r.of /\ longer.thrower = r.thrower
      BY <2>1 DEF Trajectory
    <2> QED
      BY <1>1, <2>2
  <1>3. CASE x \notin Places
    BY <1>1, <1>3
  <1> QED
    BY <1>2, <1>3

\* A resolved thrower is the name of a player entity of the list.
LEMMA ThrowerIsListed ==
    ASSUME NEW entities \in [Ids -> Entity \cup {None}], NEW h
    PROVE  /\ ResolveThrower(entities, h) \in Names \cup {None}
           /\ ResolveThrower(entities, h) # None =>
                 /\ h # InvalidHandle
                 /\ HandleToIndex(h) \in Ids
                 /\ entities[HandleToIndex(h)] # None
                 /\ entities[HandleToIndex(h)].class = "CCSPlayer"
                 /\ entities[HandleToIndex(h)].serial % SerialMask(h) = HandleToSerial(h)
                 /\ ResolveThrower(entities, h) = entities[HandleToIndex(h)].name
  <1> DEFINE e == ResolveHandle(entities, h, None)
  <1>1. \/ e = None
        \/ /\ h # InvalidHandle
           /\ HandleToIndex(h) \in Ids
           /\ e = entities[HandleToIndex(h)]
           /\ e.serial % SerialMask(h) = HandleToSerial(h)
    BY DEF ResolveHandle
  <1>2. ResolveThrower(entities, h) = IF e = None \/ e.class # "CCSPlayer" THEN None ELSE e.name
    BY DEF ResolveThrower
  <1> HIDE DEF e
  <1>3. CASE e = None
    BY <1>2, <1>3
  <1>4. CASE e # None
    BY <1>1, <1>2, <1>4 DEF Entity
  <1> QED
    BY <1>3, <1>4

\* The record an entity opens is its own, and no other id's record changes.
LEMMA CreatedRecord ==
    ASSUME NEW entities \in [Ids -> Entity \cup {None}],
           NEW tracking \in [Ids -> Trajectory \cup {None}],
           NEW i \in Ids, entities[i] \in Entity, tick \in Int
    PROVE  /\ OnEntityCreated(entities, tracking, i) \in [Ids -> Trajectory \cup {None}]
           /\ \A j \in Ids \ {i} : OnEntityCreated(entities, tracking, i)[j] = tracking[j]
           /\ \/ OnEntityCreated(entities, tracking, i)[i] = tracking[i]
              \/ /\ entities[i].class \in DOMAIN TypeOfClass
                 /\ OnEntityCreated(entities, tracking, i)[i] \in Trajectory
                 /\ OnEntityCreated(entities, tracking, i)[i].of = entities[i].name
                 /\ OnEntityCreated(entities, tracking, i)[i].thrower =
                        ResolveThrower(entities, entities[i].handle)
  <1> DEFINE e == entities[i]
             t == ResolveThrower(entities, e.handle)
             record == [of |-> e.name, thrower |-> t, type |-> TypeOfClass[e.class],
                        trajectory |-> << >>, throwTick |-> tick, blast |-> None]
             new == SampleOrigin(record, e.origin)
  <1>1. e \in Entity
    OBVIOUS
  <1>2. OnEntityCreated(entities, tracking, i) =
            IF e.class \notin DOMAIN TypeOfClass THEN tracking ELSE [tracking EXCEPT ![i] = new]
    BY DEF OnEntityCreated
  <1>3. CASE e.class \in DOMAIN TypeOfClass
    <2>1. t \in Names \cup {None}
      BY ThrowerIsListed
    <2>2. TypeOfClass[e.class] \in GrenadeTypes
      BY <1>3 DEF TypeOfClass, GrenadeTypes
    <2>3. e.name \in Names /\ e.origin \in Origin
      BY <1>1 DEF Entity
    <2> HIDE DEF e, t
    <2>4. record \in Trajectory
      <3>1. << >> \in Seq([origin : Places, tick : Int])
        OBVIOUS
      <3> QED
        BY <2>1, <2>2, <2>3, <3>1 DEF Trajectory
    <2>5. record.of = e.name /\ record.thrower = t
      OBVIOUS
    <2> HIDE DEF record
    <2>6. new \in Trajectory /\ new.of = e.name /\ new.thrower = t
      BY <2>3, <2>4, <2>5, SampleOriginKeeps
    <2> HIDE DEF new
    <2>7. OnEntityCreated(entities, tracking, i) = [tracking EXCEPT ![i] = new]
      BY <1>2, <1>3
    <2>8. [tracking EXCEPT ![i] = new] \in [Ids -> Trajectory \cup {None}]
      BY <2>6
    <2>9. [tracking EXCEPT ![i] = new][i] = new
      OBVIOUS
    <2> QED
      BY <1>3, <2>6, <2>7, <2>8, <2>9 DEF e, t
  <1>4. CASE e.class \notin DOMAIN TypeOfClass
    BY <1>2, <1>4
  <1> QED
    BY <1>3, <1>4

-----------------------------------------------------------------------------
(* Handles *)

LEMMA DivMod ==
    ASSUME NEW n \in Nat \ {0}, NEW q \in Nat, NEW r \in 0 .. n - 1
    PROVE  (r + n * q) % n = r /\ (r + n * q) \div n = q
  <1> DEFINE a == r + n * q
             d == a \div n
             m == a % n
  <1>1. a \in Nat
    OBVIOUS
  <1> HIDE DEF a
  <1>2. d \in Int /\ m \in 0 .. n - 1 /\ a = n * d + m
    BY <1>1
  <1> HIDE DEF d, m
  <1>3. n * (d - q) = r - m
    BY <1>2 DEF a
  <1>4. d - q >= 1 => n * (d - q) >= n
    BY <1>2
  <1>5. d - q <= -1 => n * (d - q) <= -n
    BY <1>2
  <1>6. d = q
    BY <1>2, <1>3, <1>4, <1>5
  <1>7. m = r
    BY <1>2, <1>3, <1>6
  <1> QED
    BY <1>6, <1>7 DEF a, d, m

\* Two numbers of the same remainder differ by a multiple.
LEMMA SameRemainder ==
    ASSUME NEW n \in Nat \ {0}, NEW a \in Nat, NEW b \in Nat, a % n = b % n
    PROVE  (a - b) % n = 0
  <1> DEFINE da == a \div n
             db == b \div n
  <1>1. da \in Int /\ db \in Int /\ a = n * da + (a % n) /\ b = n * db + (b % n)
    OBVIOUS
  <1>2. a - b = n * (da - db)
    BY <1>1
  <1> HIDE DEF da, db
  <1>3. (n * (da - db)) % n = 0
    BY <1>1
  <1> QED
    BY <1>2, <1>3

\* The handle a prop carries for a player gives back the player's id and serial.
LEMMA HandleOfPlayer ==
    ASSUME NEW p \in 0 .. Indices - 1, NEW s \in 0 .. Serials - 1
    PROVE  LET h == PackedHandle(p, s)
           IN  /\ HandleToIndex(h) = p
               /\ SerialMask(h) = Serials
               /\ HandleToSerial(h) = s
  <1> DEFINE h == PackedHandle(p, s)
  <1> USE HandlesAssumption
  <1>1. h % Indices = p /\ h \div Indices = s
    BY DivMod DEF PackedHandle
  <1>2. Indices * s <= Indices * (Serials - 1)
    OBVIOUS
  <1>3. Indices * (Serials - 1) = Indices * Serials - Indices
    OBVIOUS
  <1>4. h < Indices * Serials
    BY <1>2, <1>3 DEF PackedHandle
  <1>5. Indices * Serials <= Indices * (RawSerials - 1)
    OBVIOUS
  <1>6. Indices * (RawSerials - 1) = Indices * RawSerials - Indices
    OBVIOUS
  <1>7. h # InvalidHandle
    BY <1>4, <1>5, <1>6 DEF InvalidHandle, PackedHandle
  <1> HIDE DEF h
  <1>8. SerialMask(h) = Serials
    BY <1>4, <1>7 DEF SerialMask, IsPacked
  <1>9. s % Serials = s
    OBVIOUS
  <1>10. HandleToIndex(h) = p /\ HandleToSerial(h) = s
    BY <1>1, <1>8, <1>9 DEF HandleToIndex, HandleToSerial
  <1> QED
    BY <1>8, <1>10 DEF h

-----------------------------------------------------------------------------
(* Types *)

SeenRecord == [by : Names \cup {None}, enters : Nat, path : Seq(Places), origins : Seq(Places),
               blast : Detonation \cup {None}, told : BOOLEAN, replaced : BOOLEAN]

\* What is remembered of one grenade changes, but not who threw it.
LEMMA SeenChanged ==
    ASSUME TypeOK, NEW g \in Names, NEW s \in SeenRecord, s.by = seen[g].by,
           seen' = [seen EXCEPT ![g] = s]
    PROVE  seen' \in [Names -> SeenRecord] /\ \A h \in Names : seen'[h].by = seen[h].by
  <1>1. seen \in [Names -> SeenRecord]
    BY DEF TypeOK, SeenRecord
  <1> QED
    BY <1>1

\* An entity is still one when its origin changes, and nothing else about it does.
LEMMA MovedEntity ==
    ASSUME NEW e \in Entity, NEW x \in Origin
    PROVE  /\ [e EXCEPT !.origin = x] \in Entity
           /\ [e EXCEPT !.origin = x].origin = x
           /\ [e EXCEPT !.origin = x].name = e.name
           /\ [e EXCEPT !.origin = x].serial = e.serial
           /\ [e EXCEPT !.origin = x].class = e.class
           /\ [e EXCEPT !.origin = x].handle = e.handle
  BY DEF Entity

\* The name a new entity gets is a name, and its serial a number.
LEMMA NewName ==
    ASSUME TypeOK, NEW i \in Ids, Free(i)
    PROVE  /\ Named(i) \in Names
           /\ uses[i] + 1 \in 1 .. MaxUses
           /\ NewSerial(i) \in 0 .. Serials - 1
           /\ NewSerial(i) = (uses[i] + 1) % Serials
  <1>1. uses[i] \in 0 .. MaxUses /\ uses[i] < MaxUses /\ MaxUses \in Nat
    BY GrenadesAssumption DEF TypeOK, Free
  <1> QED
    BY <1>1, HandlesAssumption DEF Named, Names, NewSerial

LEMMA InitType == Init => TypeOK
  <1> SUFFICES ASSUME Init PROVE TypeOK
    OBVIOUS
  <1>1. samples \in Seq([tick : Int, players : SUBSET Ids]) /\ completed \in Seq(Trajectory)
    BY DEF Init, PositionsInit
  <1>2. seen \in [Names -> SeenRecord]
    <2>1. << >> \in Seq(Places)
      OBVIOUS
    <2> QED
      BY <2>1 DEF Init, SeenRecord
  <1>3. uses \in [Ids -> 0 .. MaxUses]
    BY GrenadesAssumption DEF Init
  <1> QED
    BY <1>1, <1>2, <1>3 DEF Init, TypeOK, PositionsInit, SeenRecord

LEMMA JoinType ==
    ASSUME TypeOK, NEW i \in PlayerIds, Join(i)
    PROVE  server' \in [Ids -> Entity \cup {None}] /\ uses' \in [Ids -> 0 .. MaxUses]
  <1> DEFINE e == [name |-> Named(i), serial |-> NewSerial(i), class |-> "CCSPlayer",
                   origin |-> None, handle |-> InvalidHandle]
  <1>1. i \in Ids /\ Free(i)
    BY DEF Ids, Join
  <1>2. InvalidHandle \in Int
    BY HandlesAssumption DEF InvalidHandle
  <1>3. e \in Entity
    BY <1>1, <1>2, NewName, HandlesAssumption DEF Entity, Origin
  <1> HIDE DEF e
  <1>4. server' = [server EXCEPT ![i] = e]
    BY DEF Join, e
  <1>5. uses' = [uses EXCEPT ![i] = uses[i] + 1]
    BY DEF Join
  <1>6. server \in [Ids -> Entity \cup {None}] /\ uses \in [Ids -> 0 .. MaxUses]
    BY DEF TypeOK
  <1>7. uses[i] + 1 \in 0 .. MaxUses
    BY <1>1, <1>6, NewName, GrenadesAssumption
  <1> QED
    BY <1>1, <1>3, <1>4, <1>5, <1>6, <1>7

LEMMA ThrowType ==
    ASSUME TypeOK, NEW i \in ProjectileIds, NEW p \in PlayerIds \cup {None}, NEW c \in Classes,
           NEW x \in Places, Throw(i, p, c, x)
    PROVE  /\ server' \in [Ids -> Entity \cup {None}]
           /\ uses' \in [Ids -> 0 .. MaxUses]
           /\ seen' \in [Names -> SeenRecord]
  <1> DEFINE h == IF p = None THEN EmptyPacked ELSE PackedHandle(p, server[p].serial)
             e == [name |-> Named(i), serial |-> NewSerial(i), class |-> c, origin |-> x,
                   handle |-> h]
             by == IF p = None THEN None ELSE server[p].name
  <1>1. i \in Ids /\ Free(i)
    BY DEF Ids, Throw
  <1>2. p # None => p \in Ids /\ p \in Int /\ server[p] \in Entity
    BY GrenadesAssumption, HandlesAssumption DEF Ids, Throw, TypeOK
  <1>3. h \in Int
    <2>1. p # None => server[p].serial \in Int
      BY <1>2 DEF Entity
    <2> QED
      BY <1>2, <2>1, HandlesAssumption DEF EmptyPacked, PackedHandle
  <1>4. by \in Names \cup {None}
    BY <1>2 DEF Entity
  <1> HIDE DEF h, by
  <1>5. e \in Entity
    BY <1>1, <1>3, NewName, HandlesAssumption, GrenadesAssumption DEF Entity, Origin
  <1> HIDE DEF e
  <1>6. server' = [server EXCEPT ![i] = e]
    BY DEF Throw, e, h
  <1>7. uses' = [uses EXCEPT ![i] = uses[i] + 1]
    BY DEF Throw
  <1>8. seen' = [seen EXCEPT ![Named(i)].by = by]
    BY DEF Throw, by
  <1>9. seen' \in [Names -> SeenRecord]
    BY <1>1, <1>4, <1>8, NewName DEF TypeOK, SeenRecord
  <1> QED
    BY <1>1, <1>5, <1>6, <1>7, <1>9, NewName, GrenadesAssumption DEF TypeOK

LEMMA DetonateType ==
    ASSUME TypeOK, NEW i \in ProjectileIds, NEW type \in GrenadeTypes, Detonate(i, type)
    PROVE  /\ events' \subseteq [id : ProjectileIds, origin : Origin, type : GrenadeTypes]
           /\ seen' \in [Names -> SeenRecord]
           /\ \A g \in Names : seen'[g].by = seen[g].by
  <1>1. server[i] \in Entity
    BY DEF TypeOK, Detonate, Ids
  <1>2. server[i].origin \in Origin /\ server[i].name \in Names
    BY <1>1 DEF Entity
  <1> DEFINE b == [origin |-> server[i].origin, type |-> type]
  <1>3. b \in Detonation
    BY <1>2 DEF Detonation
  <1>4. seen' = [seen EXCEPT ![server[i].name].blast = b]
    BY DEF Detonate
  <1> HIDE DEF b
  <1>5. seen' \in [Names -> SeenRecord] /\ \A g \in Names : seen'[g].by = seen[g].by
    BY <1>2, <1>3, <1>4 DEF TypeOK, SeenRecord
  <1> QED
    BY <1>2, <1>5 DEF TypeOK, Detonate

LEMMA EnterType ==
    ASSUME TypeOK, NEW i \in Ids, NEW x \in Origin, Enter(i, x)
    PROVE  /\ server[i] \in Entity
           /\ list' = [list EXCEPT ![i] = [server[i] EXCEPT !.origin = x]]
           /\ list' \in [Ids -> Entity \cup {None}]
           /\ list'[i] \in Entity
           /\ \/ tracked' = OnEntityCreated(list', tracked, i) /\ completed' = completed
              \/ tracked' = OnEntityCreated(list', Untracked(i), i) /\ completed' = CompletedWith(i)
           /\ seen' \in [Names -> SeenRecord]
           /\ \A g \in Names : seen'[g].by = seen[g].by
  <1> DEFINE e == [server[i] EXCEPT !.origin = x]
             o == IF x = None THEN << >> ELSE <<x>>
             m == list[i] # None /\ list[i].class # e.class
  <1>1. server[i] \in Entity
    BY DEF TypeOK, Enter
  <1>2. e \in Entity /\ e.name = server[i].name
    BY <1>1, MovedEntity
  <1>3. e.name \in Names
    BY <1>2 DEF Entity
  <1>4. list' = [list EXCEPT ![i] = e]
    BY DEF Enter
  <1>5. \/ tracked' = OnEntityCreated(list', tracked, i) /\ completed' = completed
        \/ tracked' = OnEntityCreated(list', Untracked(i), i) /\ completed' = CompletedWith(i)
    BY DEF Enter
  <1>6. seen' = [g \in Names |->
                   IF g = e.name
                     THEN [seen[g] EXCEPT !.enters = @ + 1, !.path = @ \o o, !.origins = o]
                   ELSE [seen[g] EXCEPT !.replaced = @ \/ (list[i] # None /\ list[i].name = g /\ ~m)]]
    BY DEF Enter
  <1>7. o \in Seq(Places)
    BY DEF Origin
  <1> HIDE DEF e, o, m
  <1>8. ASSUME NEW g \in Names
        PROVE  seen'[g] \in SeenRecord /\ seen'[g].by = seen[g].by
    <2>1. seen[g] \in SeenRecord /\ seen[g].enters + 1 \in Nat /\ seen[g].path \o o \in Seq(Places)
      BY <1>7 DEF TypeOK, SeenRecord
    <2>2. CASE g = e.name
      <3>1. seen'[g] = [seen[g] EXCEPT !.enters = @ + 1, !.path = @ \o o, !.origins = o]
        BY <1>6, <2>2
      <3> QED BY <1>7, <2>1, <3>1 DEF SeenRecord
    <2>3. CASE g # e.name
      <3> DEFINE b == seen[g].replaced \/ (list[i] # None /\ list[i].name = g /\ ~m)
      <3>1. seen'[g] = [seen[g] EXCEPT !.replaced = b]
        BY <1>6, <2>3
      <3>2. b \in BOOLEAN
        OBVIOUS
      <3> HIDE DEF b
      <3> QED BY <2>1, <3>1, <3>2 DEF SeenRecord
    <2> QED BY <2>2, <2>3
  <1>9. seen' \in [Names -> SeenRecord] /\ \A g \in Names : seen'[g].by = seen[g].by
    BY <1>6, <1>8
  <1>10. list' \in [Ids -> Entity \cup {None}] /\ list'[i] \in Entity
    BY <1>2, <1>4 DEF TypeOK
  <1> QED
    BY <1>1, <1>4, <1>5, <1>9, <1>10 DEF e

LEMMA UpdateType ==
    ASSUME TypeOK, NEW i \in Ids, NEW x \in Origin, Update(i, x)
    PROVE  /\ server[i] \in Entity /\ list[i] \in Entity
           /\ \E y \in Origin : server' = [server EXCEPT ![i] = [server[i] EXCEPT !.origin = y]]
           /\ list' = [list EXCEPT ![i] = [list[i] EXCEPT !.origin = x]]
           /\ server' \in [Ids -> Entity \cup {None}]
           /\ list' \in [Ids -> Entity \cup {None}]
           /\ tracked' = IF tracked[i] = None THEN tracked
                         ELSE [tracked EXCEPT ![i] = SampleOrigin(tracked[i], x)]
           /\ tracked' \in [Ids -> Trajectory \cup {None}]
           /\ seen' \in [Names -> SeenRecord]
           /\ \A g \in Names : seen'[g].by = seen[g].by
  <1> DEFINE y == IF x = None THEN server[i].origin ELSE x
             s == [server[i] EXCEPT !.origin = y]
             l == [list[i] EXCEPT !.origin = x]
             g == server[i].name
             q == IF x = None THEN seen[g].path ELSE Append(seen[g].path, x)
             o == IF x = None THEN seen[g].origins ELSE Append(seen[g].origins, x)
  <1>1. server[i] \in Entity /\ list[i] \in Entity
    BY DEF TypeOK, Update, Known
  <1>2. y \in Origin /\ g \in Names
    BY <1>1 DEF Entity
  <1>3. server' = [server EXCEPT ![i] = s]
    BY DEF Update
  <1>4. list' = [list EXCEPT ![i] = l]
    BY DEF Update
  <1>5. s \in Entity
    BY <1>1, <1>2, MovedEntity
  <1>6. l \in Entity /\ l.origin = x
    BY <1>1, MovedEntity
  <1>7. list'[i] = l
    BY <1>4 DEF TypeOK
  <1>8. tracked' = IF tracked[i] = None THEN tracked
                   ELSE [tracked EXCEPT ![i] = SampleOrigin(tracked[i], x)]
    <2>1. OnEntityUpdated(i, list'[i])
      BY DEF Update
    <2>2. (list'[i]).origin = x
      BY <1>6, <1>7
    <2> HIDE DEF l
    <2> QED
      BY <2>1, <2>2 DEF OnEntityUpdated
  <1>9. tracked' \in [Ids -> Trajectory \cup {None}]
    <2>1. tracked \in [Ids -> Trajectory \cup {None}] /\ tick \in Int
      BY DEF TypeOK
    <2>2. CASE tracked[i] = None
      BY <1>8, <2>1, <2>2
    <2>3. CASE tracked[i] # None
      <3> DEFINE r == SampleOrigin(tracked[i], x)
      <3>1. tracked[i] \in Trajectory
        BY <2>1, <2>3
      <3>2. r \in Trajectory
        BY <2>1, <3>1, SampleOriginKeeps
      <3>3. tracked' = [tracked EXCEPT ![i] = r]
        BY <1>8, <2>3
      <3> HIDE DEF r
      <3> QED
        BY <2>1, <3>2, <3>3
    <2> QED
      BY <2>2, <2>3
  <1>10. seen' = IF x = None THEN seen ELSE [seen EXCEPT ![g].path = q, ![g].origins = o]
    BY DEF Update
  <1>11. q \in Seq(Places) /\ o \in Seq(Places)
    BY <1>2 DEF TypeOK, Origin
  <1> HIDE DEF q, o, g
  <1>12. seen' \in [Names -> SeenRecord] /\ \A h \in Names : seen'[h].by = seen[h].by
    <2> DEFINE t == [seen[g] EXCEPT !.path = q, !.origins = o]
    <2>1. seen \in [Names -> SeenRecord]
      BY DEF TypeOK, SeenRecord
    <2>2. t \in SeenRecord /\ t.by = seen[g].by
      BY <1>2, <1>11, <2>1 DEF SeenRecord
    <2>3. seen' = seen \/ seen' = [seen EXCEPT ![g] = t]
      BY <1>2, <1>10, <2>1
    <2> HIDE DEF t
    <2> QED
      BY <1>2, <2>1, <2>2, <2>3, SeenChanged
  <1>13. \E z \in Origin : server' = [server EXCEPT ![i] = [server[i] EXCEPT !.origin = z]]
    BY <1>2, <1>3
  <1> HIDE DEF s, l, y
  <1>14. server' \in [Ids -> Entity \cup {None}] /\ list' \in [Ids -> Entity \cup {None}]
    <2>1. server \in [Ids -> Entity \cup {None}] /\ list \in [Ids -> Entity \cup {None}]
      BY DEF TypeOK
    <2> QED
      BY <1>3, <1>4, <1>5, <1>6, <2>1
  <1> QED
    BY <1>1, <1>4, <1>8, <1>9, <1>12, <1>13, <1>14 DEF l

\* Completing a record keeps what is tracked and completed records.
LEMMA CompletedType ==
    ASSUME TypeOK, NEW i \in Ids
    PROVE  /\ Untracked(i) \in [Ids -> Trajectory \cup {None}]
           /\ CompletedWith(i) \in Seq(Trajectory)
           /\ \A n \in DOMAIN CompletedWith(i) :
                 \/ n \in DOMAIN completed /\ CompletedWith(i)[n] = completed[n]
                 \/ tracked[i] # None /\ CompletedWith(i)[n] = tracked[i]
  BY DEF TypeOK, Untracked, CompletedWith

LEMMA GameEventType ==
    ASSUME TypeOK, NEW e \in events, GameEvent(e)
    PROVE  /\ tracked' \in [Ids -> Trajectory \cup {None}]
           /\ \A i \in Ids : \/ tracked'[i] = tracked[i]
                            \/ /\ tracked[i] # None
                               /\ tracked'[i] \in Trajectory
                               /\ tracked'[i].of = tracked[i].of
                               /\ tracked'[i].thrower = tracked[i].thrower
           /\ seen' \in [Names -> SeenRecord]
           /\ \A g \in Names : seen'[g].by = seen[g].by
  <1>1. e.id \in Ids /\ e.origin \in Origin /\ e.type \in GrenadeTypes
    BY DEF TypeOK, Ids
  <1>4. seen' \in [Names -> SeenRecord] /\ \A g \in Names : seen'[g].by = seen[g].by
    <2>1. \/ seen' = seen
          \/ list[e.id] # None /\ seen' = [seen EXCEPT ![list[e.id].name].told = TRUE]
      BY DEF GameEvent
    <2>2. list[e.id] # None => list[e.id].name \in Names
      BY <1>1 DEF TypeOK, Entity
    <2>3. seen \in [Names -> SeenRecord]
      BY DEF TypeOK, SeenRecord
    <2> DEFINE t == [seen[list[e.id].name] EXCEPT !.told = TRUE]
    <2>4. list[e.id] # None => t \in SeenRecord /\ t.by = seen[list[e.id].name].by
      BY <2>2, <2>3 DEF SeenRecord
    <2>5. seen' = seen \/ (list[e.id] # None /\ seen' = [seen EXCEPT ![list[e.id].name] = t])
      BY <2>1
    <2> HIDE DEF t
    <2> QED BY <2>2, <2>3, <2>4, <2>5, SeenChanged
  <1>5. tracked \in [Ids -> Trajectory \cup {None}]
    BY DEF TypeOK
  <1>2. CASE tracked[e.id] = None
    BY <1>2, <1>4, <1>5 DEF GameEvent, OnGameEvent
  <1>3. CASE tracked[e.id] # None
    <2> DEFINE b == [origin |-> e.origin, tick |-> tick]
               r == [tracked[e.id] EXCEPT !.blast = b, !.type = e.type]
    <2>1. b \in Explosion
      BY <1>1 DEF TypeOK, Explosion
    <2>2. tracked[e.id] \in Trajectory
      BY <1>1, <1>3 DEF TypeOK
    <2>3. tracked' = [tracked EXCEPT ![e.id] = r]
      BY <1>1, <1>3 DEF GameEvent, OnGameEvent, TypeOK
    <2> HIDE DEF b
    <2>4. r \in Trajectory /\ r.of = tracked[e.id].of /\ r.thrower = tracked[e.id].thrower
      BY <1>1, <2>1, <2>2 DEF Trajectory
    <2> HIDE DEF r
    <2> QED
      BY <1>1, <1>3, <1>4, <1>5, <2>3, <2>4
  <1> QED
    BY <1>2, <1>3

LEMMA SampleType ==
    ASSUME TypeOK, NEW players \in SUBSET Ids, Sample(players)
    PROVE  /\ lastSampledTick' \in Int \cup {None}
           /\ samples' \in Seq([tick : Int, players : SUBSET Ids])
  <1> DEFINE s == [tick |-> tick, players |-> players]
  <1>1. s \in [tick : Int, players : SUBSET Ids]
    BY DEF TypeOK
  <1>2. samples \in Seq([tick : Int, players : SUBSET Ids]) /\ tick \in Int
    BY DEF TypeOK
  <1>3. \/ lastSampledTick' = lastSampledTick /\ samples' = samples
        \/ lastSampledTick' = tick /\ samples' = Append(samples, s)
    BY DEF Sample, positions
  <1> HIDE DEF s
  <1>4. Append(samples, s) \in Seq([tick : Int, players : SUBSET Ids])
    BY <1>1, <1>2
  <1> QED
    BY <1>2, <1>3, <1>4 DEF TypeOK

LEMMA TypeStep == TypeOK /\ [Next]_vars => TypeOK'
  <1> SUFFICES ASSUME TypeOK, [Next]_vars PROVE TypeOK'
    OBVIOUS
  <1> USE DEF SeenRecord
  <1>1. CASE UNCHANGED vars
    BY <1>1 DEF TypeOK, vars, positions, game, tracker
  <1>2. CASE Next
    <2>1. steps' \in Nat
      BY <1>2 DEF Next, TypeOK
    <2>2. ASSUME NEW i \in PlayerIds, Join(i) PROVE TypeOK'
      BY <2>1, <2>2, JoinType DEF TypeOK, Join, positions, tracker
    <2>3. ASSUME NEW i \in ProjectileIds, NEW p \in PlayerIds \cup {None}, NEW c \in Classes,
                 NEW x \in Places, Throw(i, p, c, x)
          PROVE  TypeOK'
      BY <2>1, <2>3, ThrowType DEF TypeOK, Throw, positions, tracker
    <2>4. ASSUME NEW i \in Ids, Vanish(i) PROVE TypeOK'
      BY <2>1, <2>4 DEF TypeOK, Vanish, positions, tracker
    <2>5. ASSUME NEW i \in ProjectileIds, NEW type \in GrenadeTypes, Detonate(i, type) PROVE TypeOK'
      BY <2>1, <2>5, DetonateType DEF TypeOK, Detonate, positions, tracker
    <2>6. ASSUME NEW t \in 0 .. MaxTick, NextFrame(t) PROVE TypeOK'
      BY <2>1, <2>6 DEF TypeOK, NextFrame, positions, tracker, game
    <2>7. ASSUME NEW i \in Ids, NEW x \in Origin, Enter(i, x) PROVE TypeOK'
      <3>1. Untracked(i) \in [Ids -> Trajectory \cup {None}] /\ CompletedWith(i) \in Seq(Trajectory)
        BY CompletedType
      <3>2. list' \in [Ids -> Entity \cup {None}] /\ list'[i] \in Entity
        BY <2>7, EnterType
      <3>3. tracked' \in [Ids -> Trajectory \cup {None}] /\ completed' \in Seq(Trajectory)
        <4>1. tracked \in [Ids -> Trajectory \cup {None}] /\ completed \in Seq(Trajectory) /\ tick \in Int
          BY DEF TypeOK
        <4>2. /\ OnEntityCreated(list', tracked, i) \in [Ids -> Trajectory \cup {None}]
              /\ OnEntityCreated(list', Untracked(i), i) \in [Ids -> Trajectory \cup {None}]
          BY <3>1, <3>2, <4>1, CreatedRecord
        <4> QED
          BY <2>7, <3>1, <4>1, <4>2, EnterType
      <3>4. seen' \in [Names -> SeenRecord]
        BY <2>7, EnterType
      <3> QED
        BY <2>1, <2>7, <3>2, <3>3, <3>4 DEF TypeOK, Enter, positions, game
    <2>8. ASSUME NEW i \in Ids, NEW x \in Origin, Update(i, x) PROVE TypeOK'
      <3>1. LivePlayers(list) \in SUBSET Ids
        BY DEF LivePlayers
      <3>2. /\ lastSampledTick' \in Int \cup {None}
            /\ samples' \in Seq([tick : Int, players : SUBSET Ids])
        BY <2>8, <3>1, SampleType DEF Update
      <3>3. /\ server' \in [Ids -> Entity \cup {None}]
            /\ list' \in [Ids -> Entity \cup {None}]
            /\ tracked' \in [Ids -> Trajectory \cup {None}]
            /\ seen' \in [Names -> SeenRecord]
        BY <2>8, UpdateType
      <3> QED
        BY <2>1, <2>8, <3>2, <3>3 DEF TypeOK, Update
    <2>9. ASSUME NEW i \in Ids, Leave(i) PROVE TypeOK'
      BY <2>1, <2>9 DEF TypeOK, Leave, positions, tracker, game
    <2>10. ASSUME NEW i \in Ids, Delete(i) PROVE TypeOK'
      BY <2>1, <2>10, CompletedType DEF TypeOK, Delete, positions, game
    <2>11. ASSUME NEW e \in events, GameEvent(e) PROVE TypeOK'
      BY <2>1, <2>11, GameEventType DEF TypeOK, GameEvent, OnGameEvent, positions
    <2> QED
      BY <1>2, <2>2, <2>3, <2>4, <2>5, <2>6, <2>7, <2>8, <2>9, <2>10, <2>11 DEF Next, Origin
  <1> QED
    BY <1>1, <1>2

\* The variables of the two trackers and of their environment keep their types.
THEOREM TypeInvariant == Spec => []TypeOK
  BY InitType, TypeStep, PTL DEF Spec

-----------------------------------------------------------------------------
(* Positions *)

\* What PositionsAscend needs to be inductive: no sample is later than the last tick
\* sampled, and before the first there is none.
SamplesKnown ==
    /\ lastSampledTick = None => samples = << >>
    /\ \A n \in DOMAIN samples : samples[n].tick <= lastSampledTick

LEMMA SampleAscends ==
    ASSUME TypeOK, SamplesKnown, PositionsAscend, NEW players, Sample(players)
    PROVE  SamplesKnown' /\ PositionsAscend'
  <1> DEFINE s == [tick |-> tick, players |-> players]
             n == Len(samples)
  <1> USE PositionsAssumption
  <1>1. /\ tick \in Int /\ n \in Nat /\ DOMAIN samples = 1 .. n
        /\ \A m \in 1 .. n : samples[m].tick \in Int
    <2> DEFINE T == [tick : Int, players : SUBSET Ids]
    <2>1. tick \in Int /\ samples \in Seq(T)
      BY DEF TypeOK
    <2>2. \A e \in T : e.tick \in Int
      OBVIOUS
    <2> HIDE DEF T
    <2> QED
      BY <2>1, <2>2
  <1>2. CASE UNCHANGED positions
    BY <1>2 DEF positions, SamplesKnown, PositionsAscend
  <1>3. CASE ~ UNCHANGED positions
    <2>1. /\ lastSampledTick' = tick
          /\ samples' = Append(samples, s)
          /\ lastSampledTick # None => tick - lastSampledTick >= SampleRate
      <3>1. lastSampledTick # None => lastSampledTick \in Int
        BY DEF TypeOK
      <3>2. SampleRate \in Int
        BY DEF SampleRate
      <3> QED
        BY <1>1, <1>3, <3>1, <3>2 DEF Sample
    <2>2. /\ DOMAIN samples' = 1 .. n + 1
          /\ \A m \in 1 .. n : samples'[m] = samples[m]
          /\ samples'[n + 1] = s
      BY <1>1, <2>1 DEF TypeOK
    <2>3. s.tick = tick
      OBVIOUS
    <2> HIDE DEF s, n
    <2>4. \A m \in 1 .. n : /\ tick > samples[m].tick
                             /\ tick - samples[m].tick >= SampleRateTicks
      <3> SUFFICES ASSUME NEW m \in 1 .. n
                   PROVE  /\ tick > samples[m].tick
                          /\ tick - samples[m].tick >= SampleRateTicks
        OBVIOUS
      <3>1. lastSampledTick # None
        BY <1>1 DEF SamplesKnown
      <3>2. samples[m].tick <= lastSampledTick /\ lastSampledTick \in Int
        BY <1>1, <3>1 DEF SamplesKnown, TypeOK
      <3>3. SampleRate >= 1 /\ SampleRate >= SampleRateTicks /\ SampleRate \in Int
        BY DEF SampleRate
      <3> QED
        BY <1>1, <2>1, <3>1, <3>2, <3>3
    <2>5. SamplesKnown'
      <3>1. \A m \in 1 .. n + 1 : samples'[m].tick <= tick
        BY <1>1, <2>2, <2>3, <2>4
      <3> QED
        BY <1>1, <2>1, <2>2, <3>1 DEF SamplesKnown
    <2>6. PositionsAscend'
      <3> SUFFICES ASSUME NEW l \in 1 .. n + 1, NEW m \in 1 .. n + 1, l < m
                   PROVE  /\ samples'[m].tick > samples'[l].tick
                          /\ samples'[m].tick - samples'[l].tick >= SampleRateTicks
        BY <2>2 DEF PositionsAscend
      <3>1. CASE m = n + 1
        BY <1>1, <2>2, <2>3, <2>4, <3>1
      <3>2. CASE m # n + 1
        BY <1>1, <2>2, <3>2 DEF PositionsAscend
      <3> QED
        BY <3>1, <3>2
    <2> QED
      BY <2>5, <2>6
  <1> QED
    BY <1>2, <1>3

\* Only an update samples.
LEMMA OnlyUpdatesSample ==
    ASSUME [Next]_vars
    PROVE  UNCHANGED positions \/ Sample(LivePlayers(list))
  BY DEF Next, vars, Join, Throw, Vanish, Detonate, NextFrame, Enter, Update, Leave, Delete, GameEvent

\* Position samples are in tick-ascending order and at least the requested rate apart,
\* for every option and every order of the frames' ticks.
THEOREM PositionsInOrder == Spec => []PositionsAscend
  <1>1. Init => SamplesKnown /\ PositionsAscend
    BY DEF Init, PositionsInit, SamplesKnown, PositionsAscend
  <1>2. TypeOK /\ SamplesKnown /\ PositionsAscend /\ [Next]_vars => SamplesKnown' /\ PositionsAscend'
    <2> SUFFICES ASSUME TypeOK, SamplesKnown, PositionsAscend, [Next]_vars
                 PROVE  SamplesKnown' /\ PositionsAscend'
      OBVIOUS
    <2>1. CASE UNCHANGED positions
      BY <2>1 DEF positions, SamplesKnown, PositionsAscend
    <2>2. CASE Sample(LivePlayers(list))
      BY <2>2, SampleAscends
    <2> QED
      BY <2>1, <2>2, OnlyUpdatesSample
  <1> QED
    BY <1>1, <1>2, TypeInvariant, PTL DEF Spec

-----------------------------------------------------------------------------
(* Throwers *)

\* The handle h was made for the player named by, or is the empty one.
MadeFor(h, by) ==
    \/ by = None /\ h = EmptyPacked
    \/ \E p \in PlayerIds, k \in 1 .. MaxUses :
            by = <<p, k>> /\ h = PackedHandle(p, k % Serials)

EntityKnown(e, i) ==
    /\ e.name = <<i, e.name[2]>> /\ e.name[2] \in 1 .. uses[i]
    /\ e.serial = e.name[2] % Serials
    /\ e.class = "CCSPlayer" => i \in PlayerIds
    /\ e.class # "CCSPlayer" => MadeFor(e.handle, seen[e.name].by)

ThrowerKnown(r) ==
    /\ r.of[2] <= uses[r.of[1]]
    /\ r.thrower # None =>
        LET by == seen[r.of].by
        IN  by # None /\ r.thrower[1] = by[1] /\ (r.thrower[2] - by[2]) % Serials = 0

\* What ThrowerIsThrower needs to be inductive: every entity, of the game or of the
\* list, carries the serial its name says and, a grenade, a handle made for the
\* player who threw it.
HandlesKnown ==
    /\ \A i \in Ids : server[i] # None => EntityKnown(server[i], i)
    /\ \A i \in Ids : list[i] # None => EntityKnown(list[i], i)
    /\ \A i \in Ids : tracked[i] # None => ThrowerKnown(tracked[i])
    /\ \A n \in DOMAIN completed : ThrowerKnown(completed[n])

\* A handle made for a grenade resolves to its thrower, or to a later player of the
\* same slot and serial.
LEMMA ResolvedThrower ==
    ASSUME TypeOK, NEW entities \in [Ids -> Entity \cup {None}],
           \A i \in Ids : entities[i] # None => EntityKnown(entities[i], i),
           NEW h, NEW by \in Names \cup {None}, MadeFor(h, by), ResolveThrower(entities, h) # None
    PROVE  LET t == ResolveThrower(entities, h)
           IN  by # None /\ t[1] = by[1] /\ (t[2] - by[2]) % Serials = 0
  <1> DEFINE j == HandleToIndex(h)
             t == ResolveThrower(entities, h)
  <1>1. /\ j \in Ids
        /\ entities[j] # None
        /\ entities[j].class = "CCSPlayer"
        /\ entities[j].serial % SerialMask(h) = HandleToSerial(h)
        /\ t = entities[j].name
    BY ThrowerIsListed
  <1>2. /\ t = <<j, t[2]>> /\ t[2] \in 1 .. uses[j]
        /\ entities[j].serial = t[2] % Serials
        /\ j \in PlayerIds
    BY <1>1 DEF EntityKnown
  <1>3. j \in 1 .. Indices - 2
    BY <1>2, GrenadesAssumption
  <1> HIDE DEF j, t
  <1>4. ~ (by = None /\ h = EmptyPacked)
    <2> SUFFICES ASSUME h = EmptyPacked PROVE FALSE
      OBVIOUS
    <2>1. HandleToIndex(h) = Indices - 1
      <3>1. Indices - 1 \in 0 .. Indices - 1 /\ Serials - 1 \in 0 .. Serials - 1
        BY HandlesAssumption
      <3> QED
        BY <3>1, HandleOfPlayer DEF EmptyPacked
    <2> QED
      BY <1>3, <2>1, HandlesAssumption DEF j
  <1>5. PICK p \in PlayerIds, k \in 1 .. MaxUses : by = <<p, k>> /\ h = PackedHandle(p, k % Serials)
    BY <1>4 DEF MadeFor
  <1>6. p \in 0 .. Indices - 1 /\ k % Serials \in 0 .. Serials - 1 /\ k \in Nat
    BY GrenadesAssumption, HandlesAssumption
  <1>7. j = p /\ SerialMask(h) = Serials /\ HandleToSerial(h) = k % Serials
    BY <1>5, <1>6, HandleOfPlayer DEF j
  <1>8. t[2] \in Nat
    BY <1>1, <1>2 DEF TypeOK
  <1>9. (t[2] % Serials) % Serials = t[2] % Serials
    <2>1. t[2] % Serials \in 0 .. Serials - 1
      BY <1>8, HandlesAssumption
    <2> QED
      BY <2>1, HandlesAssumption
  <1>10. t[2] % Serials = k % Serials
    BY <1>1, <1>2, <1>7, <1>9
  <1>11. (t[2] - k) % Serials = 0
    BY <1>6, <1>8, <1>10, SameRemainder, HandlesAssumption
  <1>12. by # None /\ by[1] = p /\ by[2] = k
    BY <1>5, <1>6, GrenadesAssumption
  <1>13. t[1] = by[1]
    BY <1>2, <1>7, <1>12
  <1> QED
    BY <1>11, <1>12, <1>13 DEF t

\* Names given so far keep their thrower, whatever the step.
NamesKept ==
    /\ \A i \in Ids : uses[i] <= uses'[i]
    /\ \A i \in Ids, k \in 1 .. MaxUses : k <= uses[i] => seen'[<<i, k>>].by = seen[<<i, k>>].by

LEMMA KnownLater ==
    ASSUME TypeOK, TypeOK', NamesKept
    PROVE  /\ \A e \in Entity, i \in Ids : EntityKnown(e, i) => EntityKnown(e, i)'
           /\ \A r \in Trajectory : ThrowerKnown(r) => ThrowerKnown(r)'
  <1>1. \A i \in Ids : uses[i] \in 0 .. MaxUses /\ uses'[i] \in 0 .. MaxUses /\ MaxUses \in Nat
    BY GrenadesAssumption DEF TypeOK
  <1>2. ASSUME NEW e \in Entity, NEW i \in Ids, EntityKnown(e, i) PROVE EntityKnown(e, i)'
    <2>1. e.name[2] \in 1 .. uses'[i] /\ e.name = <<i, e.name[2]>> /\ e.name[2] <= uses[i]
      BY <1>1, <1>2 DEF EntityKnown, NamesKept
    <2>2. seen'[e.name].by = seen[e.name].by
      BY <1>1, <2>1 DEF NamesKept
    <2> QED
      BY <1>2, <2>1, <2>2 DEF EntityKnown
  <1>3. ASSUME NEW r \in Trajectory, ThrowerKnown(r) PROVE ThrowerKnown(r)'
    <2>1. r.of \in Names
      BY DEF Trajectory
    <2>2. r.of = <<r.of[1], r.of[2]>> /\ r.of[1] \in Ids /\ r.of[2] \in 1 .. MaxUses
      BY <2>1 DEF Names
    <2>3. r.of[2] <= uses[r.of[1]]
      BY <1>3 DEF ThrowerKnown
    <2>4. r.of[2] <= uses'[r.of[1]]
      BY <1>1, <2>2, <2>3 DEF NamesKept
    <2>5. seen'[r.of].by = seen[r.of].by
      BY <2>2, <2>3 DEF NamesKept
    <2> QED
      BY <1>3, <2>4, <2>5 DEF ThrowerKnown
  <1> QED
    BY <1>2, <1>3

\* Entities and records that stay as they are stay known.
LEMMA HandlesKept ==
    ASSUME TypeOK, TypeOK', HandlesKnown, NamesKept,
           \A i \in Ids : server'[i] # None /\ server'[i] # server[i] => EntityKnown(server[i], i)',
           \A i \in Ids : list'[i] # None /\ list'[i] # list[i] => EntityKnown(list[i], i)',
           \A i \in Ids : tracked'[i] # None /\ tracked'[i] # tracked[i] => ThrowerKnown(tracked[i])',
           \A n \in DOMAIN completed' : \/ n \in DOMAIN completed /\ completed'[n] = completed[n]
                                      \/ ThrowerKnown(completed[n])'
    PROVE  HandlesKnown'
  <1>1. \A i \in Ids : server[i] # None => server[i] \in Entity
    BY DEF TypeOK
  <1>2. \A i \in Ids : list[i] # None => list[i] \in Entity
    BY DEF TypeOK
  <1>3. \A i \in Ids : tracked[i] # None => tracked[i] \in Trajectory
    BY DEF TypeOK
  <1>4. \A n \in DOMAIN completed : completed[n] \in Trajectory
    BY DEF TypeOK
  <1>5. \A i \in Ids : server'[i] # None => EntityKnown(server[i], i)'
    BY <1>1, KnownLater DEF HandlesKnown
  <1>6. \A i \in Ids : list'[i] # None => EntityKnown(list[i], i)'
    BY <1>2, KnownLater DEF HandlesKnown
  <1>7. \A i \in Ids : tracked'[i] # None => ThrowerKnown(tracked[i])'
    BY <1>3, KnownLater DEF HandlesKnown
  <1>8. \A n \in DOMAIN completed' : ThrowerKnown(completed[n])'
    BY <1>4, KnownLater DEF HandlesKnown
  <1> QED
    BY <1>5, <1>6, <1>7, <1>8 DEF HandlesKnown

LEMMA JoinKnown ==
    ASSUME TypeOK, TypeOK', HandlesKnown, NEW i \in PlayerIds, Join(i)
    PROVE  HandlesKnown'
  <1> DEFINE e == [name |-> Named(i), serial |-> NewSerial(i), class |-> "CCSPlayer",
                   origin |-> None, handle |-> InvalidHandle]
  <1>1. i \in Ids /\ Free(i) /\ uses[i] \in Nat
    BY DEF Ids, Join, TypeOK
  <1>2. server' = [server EXCEPT ![i] = e] /\ uses' = [uses EXCEPT ![i] = uses[i] + 1]
        /\ list' = list /\ tracked' = tracked /\ completed' = completed /\ seen' = seen
    BY DEF Join, tracker
  <1>3. NamesKept
    <2>1. \A j \in Ids : uses[j] \in Nat
      BY DEF TypeOK
    <2> QED
      BY <1>2, <2>1 DEF NamesKept, TypeOK
  <1>4. uses'[i] = uses[i] + 1
    BY <1>1, <1>2 DEF TypeOK
  <1>5. e.name = <<i, uses[i] + 1>> /\ e.serial = (uses[i] + 1) % Serials /\ e.class = "CCSPlayer"
    BY DEF Named, NewSerial
  <1> HIDE DEF e
  <1>6. server'[i] = e /\ \A j \in Ids \ {i} : server'[j] = server[j]
    BY <1>1, <1>2 DEF TypeOK
  <1>7. EntityKnown(server[i], i)'
    BY <1>1, <1>4, <1>5, <1>6 DEF EntityKnown
  <1> QED
    BY <1>2, <1>3, <1>6, <1>7, HandlesKept

LEMMA ThrowKnown ==
    ASSUME TypeOK, TypeOK', HandlesKnown, NEW i \in ProjectileIds, NEW p \in PlayerIds \cup {None},
           NEW c \in Classes, NEW x \in Places, Throw(i, p, c, x)
    PROVE  HandlesKnown'
  <1> DEFINE h == IF p = None THEN EmptyPacked ELSE PackedHandle(p, server[p].serial)
             e == [name |-> Named(i), serial |-> NewSerial(i), class |-> c, origin |-> x,
                   handle |-> h]
             by == IF p = None THEN None ELSE server[p].name
  <1>1. i \in Ids /\ Free(i) /\ uses[i] \in Nat /\ Named(i) \in Names
    BY NewName DEF Ids, Throw, TypeOK
  <1>2. server' = [server EXCEPT ![i] = e] /\ uses' = [uses EXCEPT ![i] = uses[i] + 1]
        /\ seen' = [seen EXCEPT ![Named(i)].by = by]
        /\ list' = list /\ tracked' = tracked /\ completed' = completed
    BY DEF Throw, tracker
  <1>3. uses'[i] = uses[i] + 1
    BY <1>1, <1>2 DEF TypeOK
  <1>4. MadeFor(h, by)
    <2>1. CASE p = None
      BY <2>1 DEF MadeFor
    <2>2. CASE p # None
      <3>1. p \in PlayerIds /\ p \in Ids /\ server[p] # None
        BY <2>2 DEF Ids, Throw
      <3>2. /\ server[p].name = <<p, server[p].name[2]>> /\ server[p].name[2] \in 1 .. uses[p]
            /\ server[p].serial = server[p].name[2] % Serials
        BY <3>1 DEF HandlesKnown, EntityKnown
      <3>3. uses[p] \in 0 .. MaxUses /\ MaxUses \in Nat
        BY <3>1, GrenadesAssumption DEF TypeOK
      <3>4. server[p].name[2] \in 1 .. MaxUses
        BY <3>2, <3>3
      <3>5. by = <<p, server[p].name[2]>> /\ h = PackedHandle(p, server[p].name[2] % Serials)
        BY <2>2, <3>2
      <3> QED
        BY <3>1, <3>4, <3>5 DEF MadeFor
    <2> QED
      BY <2>1, <2>2
  <1>5. /\ e.name = <<i, uses[i] + 1>> /\ e.name = Named(i) /\ e.serial = (uses[i] + 1) % Serials
        /\ e.class = c /\ e.handle = h
    BY DEF Named, NewSerial
  <1>6. c # "CCSPlayer"
    BY GrenadesAssumption DEF ProjectileClasses
  <1> HIDE DEF e, h, by
  <1>7. server'[i] = e /\ \A j \in Ids \ {i} : server'[j] = server[j]
    BY <1>1, <1>2 DEF TypeOK
  <1>8. seen'[Named(i)].by = by
    BY <1>1, <1>2 DEF TypeOK
  <1>9. EntityKnown(server[i], i)'
    BY <1>1, <1>3, <1>4, <1>5, <1>6, <1>7, <1>8 DEF EntityKnown
  <1>10. NamesKept
    <2>1. \A j \in Ids : uses[j] \in Nat
      BY DEF TypeOK
    <2>2. \A g \in Names : g # Named(i) => seen'[g] = seen[g]
      BY <1>1, <1>2 DEF TypeOK
    <2>3. ASSUME NEW j \in Ids, NEW k \in 1 .. MaxUses, k <= uses[j]
          PROVE  seen'[<<j, k>>].by = seen[<<j, k>>].by
      <3>1. <<j, k>> # Named(i)
        BY <2>1, <2>3 DEF Named
      <3>2. <<j, k>> \in Names
        BY DEF Names
      <3> QED
        BY <2>2, <3>1, <3>2
    <2>4. \A j \in Ids : uses[j] <= uses'[j]
      BY <1>1, <1>2, <2>1 DEF TypeOK
    <2> QED
      BY <2>3, <2>4 DEF NamesKept
  <1> QED
    BY <1>2, <1>7, <1>9, <1>10, HandlesKept

\* An entity known at its id is known there under another origin.
LEMMA KnownMoved ==
    ASSUME NEW e \in Entity, NEW i \in Ids, EntityKnown(e, i), NEW x \in Origin
    PROVE  EntityKnown([e EXCEPT !.origin = x], i)
  <1> DEFINE m == [e EXCEPT !.origin = x]
  <1>1. m.name = e.name /\ m.serial = e.serial /\ m.class = e.class /\ m.handle = e.handle
    BY MovedEntity
  <1> HIDE DEF m
  <1>2. EntityKnown(m, i)
    BY <1>1 DEF EntityKnown
  <1> QED
    BY <1>2 DEF m

\* Names stay when neither the uses nor the throwers change.
LEMMA SameNames ==
    ASSUME TypeOK, UNCHANGED uses, \A g \in Names : seen'[g].by = seen[g].by
    PROVE  NamesKept
  <1>1. \A i \in Ids : uses[i] \in Nat
    BY DEF TypeOK
  <1> QED
    BY <1>1 DEF NamesKept, Names

\* Completing a tracked record adds a record known before and after the step.
LEMMA CompletedKnown ==
    ASSUME TypeOK, TypeOK', HandlesKnown, NamesKept, NEW i \in Ids,
           completed' = completed \/ completed' = CompletedWith(i)
    PROVE  \A n \in DOMAIN completed' :
                \/ n \in DOMAIN completed /\ completed'[n] = completed[n]
                \/ ThrowerKnown(completed[n])'
  <1>1. tracked[i] # None => tracked[i] \in Trajectory /\ ThrowerKnown(tracked[i])
    BY DEF TypeOK, HandlesKnown
  <1>2. \A n \in DOMAIN completed' :
            \/ n \in DOMAIN completed /\ completed'[n] = completed[n]
            \/ completed'[n] \in Trajectory /\ ThrowerKnown(completed'[n])
    BY <1>1, CompletedType
  <1> QED
    BY <1>2, KnownLater

LEMMA EnterKnown ==
    ASSUME TypeOK, TypeOK', HandlesKnown, NEW i \in Ids, NEW x \in Origin, Enter(i, x)
    PROVE  HandlesKnown'
  <1> DEFINE e == [server[i] EXCEPT !.origin = x]
  <1>1. server[i] \in Entity /\ EntityKnown(server[i], i)
    BY EnterType DEF HandlesKnown, Enter
  <1>2. EntityKnown(e, i) /\ e \in Entity
    BY <1>1, KnownMoved, MovedEntity
  <1>3. NamesKept
    BY EnterType, SameNames DEF Enter, game
  <1> HIDE DEF e
  <1>4. list'[i] = e /\ \A j \in Ids \ {i} : list'[j] = list[j]
    <2>1. list \in [Ids -> Entity \cup {None}]
      BY DEF TypeOK
    <2>2. list' = [list EXCEPT ![i] = e]
      BY EnterType DEF e
    <2> QED
      BY <2>1, <2>2
  <1>5. EntityKnown(list[i], i)'
    BY <1>2, <1>3, <1>4, KnownLater
  <1>6. \A j \in Ids : list'[j] # None => EntityKnown(list'[j], j)
    BY <1>2, <1>4 DEF HandlesKnown
  <1>7. /\ list'[i] \in Entity /\ list' \in [Ids -> Entity \cup {None}]
        /\ tracked \in [Ids -> Trajectory \cup {None}] /\ tick \in Int
    BY EnterType DEF TypeOK
  <1>8. Untracked(i) \in [Ids -> Trajectory \cup {None}] /\ Untracked(i)[i] = None
        /\ \A j \in Ids \ {i} : Untracked(i)[j] = tracked[j]
    BY CompletedType, <1>7 DEF Untracked
  <1>9. ASSUME NEW T \in [Ids -> Trajectory \cup {None}], tracked' = OnEntityCreated(list', T, i)
        PROVE  /\ \A j \in Ids \ {i} : tracked'[j] = T[j]
               /\ tracked'[i] = T[i] \/ (tracked'[i] \in Trajectory /\ ThrowerKnown(tracked'[i]))
    <2> DEFINE R == OnEntityCreated(list', T, i)
    <2>1. \A j \in Ids \ {i} : R[j] = T[j]
      BY <1>7, CreatedRecord
    <2>2. \/ R[i] = T[i]
          \/ /\ list'[i].class \in DOMAIN TypeOfClass
             /\ R[i] \in Trajectory
             /\ R[i].of = list'[i].name
             /\ R[i].thrower = ResolveThrower(list', list'[i].handle)
      BY <1>7, CreatedRecord
    <2>3. ASSUME list'[i].class \in DOMAIN TypeOfClass,
                 R[i].of = list'[i].name,
                 R[i].thrower = ResolveThrower(list', list'[i].handle)
          PROVE  ThrowerKnown(R[i])
      <3> DEFINE n == list'[i].name
                 h == list'[i].handle
                 by == seen[n].by
      <3>1. list'[i].class # "CCSPlayer"
        BY <2>3 DEF TypeOfClass, ProjectileClasses
      <3>2. EntityKnown(list'[i], i)
        BY <1>2, <1>4
      <3>3. MadeFor(h, by) /\ n = <<i, n[2]>> /\ n[2] \in 1 .. uses[i]
        BY <3>1, <3>2 DEF EntityKnown
      <3>4. n \in Names
        BY <1>7 DEF Entity
      <3>5. by \in Names \cup {None}
        BY <3>4 DEF TypeOK
      <3>6. n[1] = i /\ uses[i] \in Nat
        BY <3>3 DEF TypeOK
      <3> HIDE DEF n, h, by, R
      <3>7. CASE R[i].thrower = None
        BY <2>3, <3>3, <3>6, <3>7 DEF ThrowerKnown, n
      <3>8. CASE R[i].thrower # None
        <4>1. ResolveThrower(list', h) # None
          BY <2>3, <3>8 DEF h
        <4> DEFINE t == ResolveThrower(list', h)
        <4>2. by # None /\ t[1] = by[1] /\ (t[2] - by[2]) % Serials = 0
          BY <1>6, <1>7, <3>3, <3>5, <4>1, ResolvedThrower
        <4>3. R[i].of = n /\ R[i].thrower = t
          BY <2>3 DEF n, h
        <4> HIDE DEF t
        <4> QED
          BY <3>3, <3>6, <4>2, <4>3 DEF ThrowerKnown, by
      <3> QED
        BY <3>7, <3>8
    <2> HIDE DEF R
    <2>4. tracked' = R
      BY <1>9 DEF R
    <2> QED
      BY <2>1, <2>2, <2>3, <2>4
  <1>10. \A j \in Ids : \/ tracked'[j] = tracked[j]
                        \/ tracked'[j] = None
                        \/ tracked'[j] \in Trajectory /\ ThrowerKnown(tracked'[j])
    BY <1>7, <1>8, <1>9, EnterType
  <1>11. \A j \in Ids : tracked'[j] # None /\ tracked'[j] # tracked[j] => ThrowerKnown(tracked[j])'
    BY <1>3, <1>10, KnownLater
  <1>12. completed' = completed \/ completed' = CompletedWith(i)
    BY EnterType
  <1>13. \A n \in DOMAIN completed' : \/ n \in DOMAIN completed /\ completed'[n] = completed[n]
                                     \/ ThrowerKnown(completed[n])'
    BY <1>3, <1>12, CompletedKnown
  <1>14. \A j \in Ids : list'[j] # None /\ list'[j] # list[j] => EntityKnown(list[j], j)'
    BY <1>4, <1>5
  <1>15. server' = server
    BY DEF Enter, game
  <1> QED
    BY <1>3, <1>11, <1>13, <1>14, <1>15, HandlesKept

LEMMA UpdateKnown ==
    ASSUME TypeOK, TypeOK', HandlesKnown, NEW i \in Ids, NEW x \in Origin, Update(i, x)
    PROVE  HandlesKnown'
  <1>1. PICK y \in Origin : server' = [server EXCEPT ![i] = [server[i] EXCEPT !.origin = y]]
    BY UpdateType
  <1> DEFINE s == [server[i] EXCEPT !.origin = y]
             l == [list[i] EXCEPT !.origin = x]
  <1>2. /\ server[i] \in Entity /\ EntityKnown(server[i], i)
        /\ list[i] \in Entity /\ EntityKnown(list[i], i)
    BY UpdateType DEF HandlesKnown, Update, Known
  <1>3. s \in Entity /\ EntityKnown(s, i) /\ l \in Entity /\ EntityKnown(l, i)
    BY <1>2, KnownMoved, MovedEntity
  <1>4. NamesKept
    BY UpdateType, SameNames DEF Update
  <1>5. list' = [list EXCEPT ![i] = l] /\ server' = [server EXCEPT ![i] = s]
    BY <1>1, UpdateType
  <1> HIDE DEF s, l
  <1>6. /\ server'[i] = s /\ \A j \in Ids \ {i} : server'[j] = server[j]
        /\ list'[i] = l /\ \A j \in Ids \ {i} : list'[j] = list[j]
    BY <1>5 DEF TypeOK
  <1>7. EntityKnown(server[i], i)' /\ EntityKnown(list[i], i)'
    BY <1>3, <1>4, <1>6, KnownLater
  <1>8. \A j \in Ids : \/ tracked'[j] = tracked[j]
                       \/ tracked'[j] \in Trajectory /\ ThrowerKnown(tracked'[j])
    <2>1. CASE tracked[i] = None
      BY <2>1, UpdateType
    <2>2. CASE tracked[i] # None
      <3> DEFINE r == SampleOrigin(tracked[i], x)
      <3>1. tracked[i] \in Trajectory /\ ThrowerKnown(tracked[i]) /\ tick \in Int
        BY <2>2 DEF TypeOK, HandlesKnown
      <3>2. r \in Trajectory /\ r.of = tracked[i].of /\ r.thrower = tracked[i].thrower
        BY <3>1, SampleOriginKeeps
      <3>3. tracked' = [tracked EXCEPT ![i] = r]
        BY <2>2, UpdateType
      <3> HIDE DEF r
      <3>4. ThrowerKnown(r)
        BY <3>1, <3>2 DEF ThrowerKnown
      <3> QED
        BY <3>2, <3>3, <3>4 DEF TypeOK
    <2> QED
      BY <2>1, <2>2
  <1>9. \A j \in Ids : tracked'[j] # None /\ tracked'[j] # tracked[j] => ThrowerKnown(tracked[j])'
    BY <1>4, <1>8, KnownLater
  <1>10. completed' = completed
    BY DEF Update
  <1> QED
    BY <1>4, <1>6, <1>7, <1>9, <1>10, HandlesKept

LEMMA DeleteKnown ==
    ASSUME TypeOK, TypeOK', HandlesKnown, NEW i \in Ids, Delete(i)
    PROVE  HandlesKnown'
  <1>1. NamesKept
    BY SameNames DEF Delete, game
  <1>2. /\ \A j \in Ids : tracked'[j] = tracked[j] \/ tracked'[j] = None
        /\ \A j \in Ids : list'[j] = list[j] \/ list'[j] = None
        /\ server' = server
    BY DEF Delete, Untracked, game, TypeOK
  <1>3. \A n \in DOMAIN completed' : \/ n \in DOMAIN completed /\ completed'[n] = completed[n]
                                    \/ ThrowerKnown(completed[n])'
    BY <1>1, CompletedKnown DEF Delete
  <1> QED
    BY <1>1, <1>2, <1>3, HandlesKept

LEMMA GameEventKnown ==
    ASSUME TypeOK, TypeOK', HandlesKnown, NEW e \in events, GameEvent(e)
    PROVE  HandlesKnown'
  <1>1. NamesKept
    BY SameNames DEF GameEvent
  <1>2. \A i \in Ids : \/ tracked'[i] = tracked[i]
                       \/ tracked'[i] \in Trajectory /\ ThrowerKnown(tracked'[i])
    BY GameEventType DEF HandlesKnown, ThrowerKnown
  <1>3. \A i \in Ids : tracked'[i] # None /\ tracked'[i] # tracked[i] => ThrowerKnown(tracked[i])'
    BY <1>1, <1>2, KnownLater
  <1>4. server' = server /\ list' = list /\ completed' = completed
    BY DEF GameEvent, OnGameEvent
  <1> QED
    BY <1>1, <1>3, <1>4, HandlesKept

LEMMA VanishKnown ==
    ASSUME TypeOK, TypeOK', HandlesKnown, NEW i \in Ids, Vanish(i)
    PROVE  HandlesKnown'
  <1>1. NamesKept
    BY SameNames DEF Vanish
  <1>2. \A j \in Ids : server'[j] = server[j] \/ server'[j] = None
    BY DEF Vanish, TypeOK
  <1>3. list' = list /\ tracked' = tracked /\ completed' = completed
    BY DEF Vanish, tracker
  <1> QED
    BY <1>1, <1>2, <1>3, HandlesKept

\* Nothing the tracker knows of throwers changes in the other steps.
LEMMA IdleKnown ==
    ASSUME TypeOK, TypeOK', HandlesKnown, UNCHANGED <<uses, server, list, tracked, completed>>,
           \A g \in Names : seen'[g].by = seen[g].by
    PROVE  HandlesKnown'
  BY SameNames, HandlesKept

LEMMA HandlesStep ==
    ASSUME TypeOK, TypeOK', HandlesKnown, [Next]_vars
    PROVE  HandlesKnown'
  <1>1. CASE UNCHANGED vars
    BY <1>1, IdleKnown DEF vars, game, tracker
  <1>2. CASE Next
    <2>1. ASSUME NEW i \in PlayerIds, Join(i) PROVE HandlesKnown'
      BY <2>1, JoinKnown
    <2>2. ASSUME NEW i \in ProjectileIds, NEW p \in PlayerIds \cup {None}, NEW c \in Classes,
                 NEW x \in Places, Throw(i, p, c, x)
          PROVE  HandlesKnown'
      BY <2>2, ThrowKnown
    <2>3. ASSUME NEW i \in Ids, Vanish(i) PROVE HandlesKnown'
      BY <2>3, VanishKnown
    <2>4. ASSUME NEW i \in ProjectileIds, NEW type \in GrenadeTypes, Detonate(i, type)
          PROVE  HandlesKnown'
      BY <2>4, DetonateType, IdleKnown DEF Detonate, tracker
    <2>5. ASSUME NEW t \in 0 .. MaxTick, NextFrame(t) PROVE HandlesKnown'
      BY <2>5, IdleKnown DEF NextFrame, tracker, game
    <2>6. ASSUME NEW i \in Ids, NEW x \in Origin, Enter(i, x) PROVE HandlesKnown'
      BY <2>6, EnterKnown
    <2>7. ASSUME NEW i \in Ids, NEW x \in Origin, Update(i, x) PROVE HandlesKnown'
      BY <2>7, UpdateKnown
    <2>8. ASSUME NEW i \in Ids, Leave(i) PROVE HandlesKnown'
      BY <2>8, IdleKnown DEF Leave, tracker, game
    <2>9. ASSUME NEW i \in Ids, Delete(i) PROVE HandlesKnown'
      BY <2>9, DeleteKnown
    <2>10. ASSUME NEW e \in events, GameEvent(e) PROVE HandlesKnown'
      BY <2>10, GameEventKnown
    <2> QED
      BY <1>2, <2>1, <2>2, <2>3, <2>4, <2>5, <2>6, <2>7, <2>8, <2>9, <2>10 DEF Next, Origin
  <1> QED
    BY <1>1, <1>2

LEMMA KnownThrowers == TypeOK /\ HandlesKnown => ThrowerIsThrower
  <1> SUFFICES ASSUME TypeOK, HandlesKnown, NEW r \in Snapshot
               PROVE  ThrowerKnown(r)
    BY DEF ThrowerIsThrower, ThrowerKnown
  <1> QED
    BY DEF Snapshot, HandlesKnown

\* The player recorded as the thrower of a grenade is the one its handle was made for,
\* up to the wrap of the serial numbers: for every width of handles and any number of
\* joins, leaves and grenades.
THEOREM ThrowerFound == Spec => []ThrowerIsThrower
  <1>1. Init => HandlesKnown
    BY DEF Init, HandlesKnown
  <1>2. TypeOK /\ TypeOK' /\ HandlesKnown /\ [Next]_vars => HandlesKnown'
    BY HandlesStep
  <1> QED
    BY <1>1, <1>2, KnownThrowers, TypeInvariant, PTL DEF Spec

-----------------------------------------------------------------------------
(* Flights *)

LEMMA FiniteInduction ==
    ASSUME NEW S, IsFiniteSet(S), NEW G,
           \A T \in SUBSET S : (\A U \in SUBSET T : U # T => U \in G) => T \in G
    PROVE  S \in G
  <1> DEFINE Bad == {T \in SUBSET S : T \notin G}
  <1>1. IsWellFoundedOn(StrictSubsetOrdering(S), SUBSET S)
    BY FS_StrictSubsetOrderingWellFounded, FS_FiniteSubsetsOfFinite
  <1>2. Bad \subseteq SUBSET S
    OBVIOUS
  <1>3. ASSUME Bad # {} PROVE FALSE
    <2> HIDE DEF Bad
    <2>1. PICK T \in Bad : \A U \in Bad : ~ (<<U, T>> \in StrictSubsetOrdering(S))
      BY <1>1, <1>2, <1>3, WFMin
    <2>2. ASSUME NEW U \in SUBSET T, U # T PROVE U \in G
      BY <2>1, <2>2, Zenon DEF Bad, StrictSubsetOrdering
    <2> QED BY <2>1, <2>2 DEF Bad
  <1> QED BY <1>3

\* The last of a finite set of places.
LEMMA LastIsThere ==
    ASSUME NEW T \in SUBSET Nat, IsFiniteSet(T), T # {}
    PROVE  Max(T) \in T /\ \A y \in T : Max(T) >= y
  <1> DEFINE G == {U \in SUBSET T : U # {} => \E x \in U : \A y \in U : x >= y}
  <1>1. ASSUME NEW U \in SUBSET T, \A V \in SUBSET U : V # U => V \in G
        PROVE  U \in G
    <2>1. CASE U = {}
      BY <2>1
    <2>2. CASE U # {}
      <3>1. PICK x \in U : TRUE
        BY <2>2
      <3> DEFINE V == U \ {x}
      <3>2. V \in G
        BY <1>1, <3>1
      <3>3. CASE V = {}
        <4>1. \A y \in U : x >= y
          BY <3>3
        <4> QED BY <3>1, <4>1
      <3>4. CASE V # {}
        <4>1. PICK m \in V : \A y \in V : m >= y
          BY <3>2, <3>4
        <4>2. m \in U /\ m \in Nat /\ x \in Nat
          BY <3>1
        <4>3. CASE m >= x
          <5>1. \A y \in U : m >= y
            BY <4>1, <4>3
          <5> QED BY <4>2, <5>1
        <4>4. CASE ~ (m >= x)
          <5>1. \A y \in U : x >= y
            BY <4>1, <4>2, <4>4
          <5> QED BY <3>1, <5>1
        <4> QED BY <4>3, <4>4
      <3> QED BY <3>3, <3>4
    <2> QED BY <2>1, <2>2
  <1> HIDE DEF G
  <1>2. T \in G
    BY <1>1, FiniteInduction
  <1>3. \E x \in T : \A y \in T : x >= y
    BY <1>2 DEF G
  <1> QED BY <1>3 DEF Max

\* One more origin at the end of a flight.
Step(t, x) == IF t # << >> /\ t[Len(t)] = x THEN t ELSE Append(t, x)

\* f squeezes the parts of s, each set of places of D by its last one.
SqueezesOn(D, s, f) ==
    f = [t \in SUBSET D |-> IF t = {} THEN << >> ELSE Step(f[t \ {Max(t)}], s[Max(t)])]

LEMMA SqueezeExists ==
    ASSUME NEW D \in SUBSET Nat, IsFiniteSet(D), NEW s
    PROVE  \E f : SqueezesOn(D, s, f)
  <1> DEFINE G == {T \in SUBSET D : \E f : SqueezesOn(T, s, f)}
  <1>1. ASSUME NEW T \in SUBSET D, \A U \in SUBSET T : U # T => U \in G
        PROVE  T \in G
    <2>1. CASE T = {}
      <3> DEFINE f == [t \in {{}} |-> << >>]
      <3>1. f = [t \in SUBSET {} |-> IF t = {} THEN << >> ELSE Step(f[t \ {Max(t)}], s[Max(t)])]
        OBVIOUS
      <3> HIDE DEF f
      <3>2. SqueezesOn(T, s, f)
        BY <2>1, <3>1 DEF SqueezesOn
      <3> QED BY <3>2
    <2>2. CASE T # {}
      <3> DEFINE x == Max(T)
                 U == T \ {x}
      <3>1. x \in T /\ \A y \in T : x >= y
        <4>1. IsFiniteSet(T)
          BY FS_Subset
        <4> QED BY <2>2, <4>1, LastIsThere
      <3>2. U \in SUBSET T /\ U # T
        BY <3>1
      <3>3. PICK f : SqueezesOn(U, s, f)
        BY <1>1, <3>2
      <3> DEFINE h == [t \in SUBSET T |-> IF t = {} THEN << >> ELSE Step(f[t \ {Max(t)}], s[Max(t)])]
      <3>4. ASSUME NEW t \in SUBSET T, t # {}
            PROVE  h[t \ {Max(t)}] = f[t \ {Max(t)}]
        <4> DEFINE r == t \ {Max(t)}
        <4>1. Max(t) \in t /\ \A y \in t : Max(t) >= y
          <5>1. IsFiniteSet(t) /\ t \in SUBSET Nat
            BY FS_Subset
          <5> QED BY <3>4, <5>1, LastIsThere
        <4>2. r \in SUBSET U
          <5>1. CASE x \in t
            <6>1. Max(t) >= x /\ x >= Max(t) /\ Max(t) \in Nat /\ x \in Nat
              BY <3>1, <4>1, <5>1
            <6>2. Max(t) = x
              BY <6>1
            <6> QED BY <6>2
          <5>2. CASE x \notin t
            BY <5>2
          <5> QED BY <5>1, <5>2
        <4> HIDE DEF r, U, x
        <4>3. f[r] = IF r = {} THEN << >> ELSE Step(f[r \ {Max(r)}], s[Max(r)])
          BY <3>3, <4>2, Zenon DEF SqueezesOn
        <4>4. r \in SUBSET T
          BY DEF r
        <4>5. h[r] = IF r = {} THEN << >> ELSE Step(f[r \ {Max(r)}], s[Max(r)])
          BY <4>4, Zenon
        <4> QED BY <4>3, <4>5 DEF r
      <3>5. h = [t \in SUBSET T |-> IF t = {} THEN << >> ELSE Step(h[t \ {Max(t)}], s[Max(t)])]
        BY <3>4
      <3> HIDE DEF h
      <3>6. SqueezesOn(T, s, h)
        BY <3>5 DEF SqueezesOn
      <3> QED BY <3>6
    <2> QED BY <2>1, <2>2
  <1> HIDE DEF G
  <1>2. D \in G
    BY <1>1, FiniteInduction
  <1> QED BY <1>2 DEF G

LEMMA SqueezeIsAFold ==
    ASSUME NEW s, IsFiniteSet(DOMAIN s), DOMAIN s \in SUBSET Nat
    PROVE  \E f : SqueezesOn(DOMAIN s, s, f) /\ Squeeze(s) = f[DOMAIN s]
  <1> DEFINE f == CHOOSE f : f = [t \in SUBSET (DOMAIN s) |->
                       IF t = {} THEN << >>
                       ELSE LET x == Max(t)
                            IN  IF f[t \ {x}] # << >> /\ f[t \ {x}][Len(f[t \ {x}])] = s[x]
                                THEN f[t \ {x}] ELSE Append(f[t \ {x}], s[x])]
  <1>1. PICK e : SqueezesOn(DOMAIN s, s, e)
    BY SqueezeExists
  <1>2. e = [t \in SUBSET (DOMAIN s) |->
                       IF t = {} THEN << >>
                       ELSE LET x == Max(t)
                            IN  IF e[t \ {x}] # << >> /\ e[t \ {x}][Len(e[t \ {x}])] = s[x]
                                THEN e[t \ {x}] ELSE Append(e[t \ {x}], s[x])]
    BY <1>1, Zenon DEF SqueezesOn, Step
  <1>3. f = [t \in SUBSET (DOMAIN s) |->
                       IF t = {} THEN << >>
                       ELSE LET x == Max(t)
                            IN  IF f[t \ {x}] # << >> /\ f[t \ {x}][Len(f[t \ {x}])] = s[x]
                                THEN f[t \ {x}] ELSE Append(f[t \ {x}], s[x])]
    BY <1>2, Zenon
  <1>4. Squeeze(s) = f[DOMAIN s]
    BY Zenon DEF Squeeze, FoldLeft, MapThenFoldSet
  <1>5. SqueezesOn(DOMAIN s, s, f)
    <2> HIDE DEF f
    <2> QED BY <1>3, Zenon DEF SqueezesOn, Step
  <1> QED BY <1>4, <1>5

LEMMA SqueezeNone == Squeeze(<< >>) = << >>
  <1> DEFINE none == << >>
  <1>1. DOMAIN none = {}
    <2>1. none \in Seq(Nat) /\ Len(none) = 0
      OBVIOUS
    <2> HIDE DEF none
    <2>2. DOMAIN none = 1 .. Len(none)
      BY <2>1
    <2> QED BY <2>1, <2>2
  <1>2. IsFiniteSet(DOMAIN none) /\ DOMAIN none \in SUBSET Nat
    BY <1>1, FS_EmptySet
  <1> HIDE DEF none
  <1>3. PICK f : SqueezesOn(DOMAIN none, none, f) /\ Squeeze(none) = f[DOMAIN none]
    BY <1>2, SqueezeIsAFold
  <1>4. f[{}] = << >>
    BY <1>1, <1>3 DEF SqueezesOn
  <1> QED BY <1>1, <1>3, <1>4 DEF none

LEMMA SqueezeMore ==
    ASSUME NEW S, NEW s \in Seq(S), NEW x \in S
    PROVE  Squeeze(Append(s, x)) = Step(Squeeze(s), x)
  <1> DEFINE r == Append(s, x)
             n == Len(s)
             D == 1 .. n
             E == 1 .. n + 1
  <1>1. /\ n \in Nat /\ DOMAIN s = D /\ DOMAIN r = E
        /\ r[n + 1] = x /\ \A k \in D : r[k] = s[k]
    OBVIOUS
  <1>2. IsFiniteSet(D) /\ IsFiniteSet(E) /\ D \in SUBSET Nat /\ E \in SUBSET Nat
    <2>1. n \in Nat /\ 1 \in Int /\ n \in Int /\ n + 1 \in Int
      BY <1>1
    <2> HIDE DEF n
    <2>2. IsFiniteSet(D) /\ IsFiniteSet(E)
      BY <2>1, FS_Interval
    <2> QED
      BY <2>1, <2>2
  <1>3. E \ {n + 1} = D /\ n + 1 \in E /\ \A y \in E : n + 1 >= y
    BY <1>1
  <1> HIDE DEF r, n, D, E
  <1>4. D \in SUBSET E /\ E # {}
    BY <1>3
  <1>5. PICK e : SqueezesOn(D, s, e) /\ Squeeze(s) = e[D]
    BY <1>1, <1>2, SqueezeIsAFold
  <1>6. PICK h : SqueezesOn(E, r, h) /\ Squeeze(r) = h[E]
    BY <1>1, <1>2, SqueezeIsAFold
  <1> DEFINE G == {t \in SUBSET D : h[t] = e[t]}
  <1>7. ASSUME NEW t \in SUBSET D, \A u \in SUBSET t : u # t => u \in G
        PROVE  t \in G
    <2>1. /\ h[t] = IF t = {} THEN << >> ELSE Step(h[t \ {Max(t)}], r[Max(t)])
          /\ e[t] = IF t = {} THEN << >> ELSE Step(e[t \ {Max(t)}], s[Max(t)])
      BY <1>4, <1>5, <1>6 DEF SqueezesOn
    <2>2. CASE t = {}
      BY <2>1, <2>2
    <2>3. CASE t # {}
      <3>1. Max(t) \in t
        <4>1. IsFiniteSet(t) /\ t \in SUBSET Nat
          BY <1>2, FS_Subset
        <4> QED BY <2>3, <4>1, LastIsThere
      <3>2. t \ {Max(t)} \in SUBSET t /\ t \ {Max(t)} # t
        BY <3>1
      <3>3. h[t \ {Max(t)}] = e[t \ {Max(t)}]
        BY <1>7, <3>2
      <3>4. r[Max(t)] = s[Max(t)]
        BY <1>1, <3>1
      <3> QED BY <2>1, <2>3, <3>3, <3>4
    <2> QED BY <2>2, <2>3
  <1>8. D \in G
    <2> HIDE DEF G
    <2> QED BY <1>2, <1>7, FiniteInduction
  <1>9. Max(E) = n + 1
    <2>1. Max(E) \in E /\ \A y \in E : Max(E) >= y
      BY <1>2, <1>4, LastIsThere
    <2> DEFINE m == Max(E)
    <2>2. m \in E /\ m >= n + 1 /\ n + 1 >= m /\ n + 1 \in Nat
      BY <1>2, <1>3, <2>1
    <2>3. m \in Nat
      BY <1>2, <2>2
    <2> HIDE DEF m
    <2>4. m = n + 1
      BY <2>2, <2>3
    <2> QED BY <2>4 DEF m
  <1>10. h[E] = Step(h[D], x)
    BY <1>1, <1>3, <1>4, <1>6, <1>9 DEF SqueezesOn
  <1> QED BY <1>5, <1>6, <1>8, <1>10 DEF r

\* Sampling an origin is one more step of the squeezed flight, and does not touch how
\* the record tells the explosion.
LEMMA SampleSqueezes ==
    ASSUME NEW r \in Trajectory, NEW x \in Origin, NEW s \in Seq(Places), tick \in Int,
           Origins(r) = Squeeze(s)
    PROVE  /\ Origins(SampleOrigin(r, x)) = Squeeze(IF x = None THEN s ELSE Append(s, x))
           /\ SampleOrigin(r, x).of = r.of
           /\ SampleOrigin(r, x).blast = r.blast
           /\ SampleOrigin(r, x).type = r.type
  <1> DEFINE point == [origin |-> x, tick |-> tick]
             longer == [r EXCEPT !.trajectory = Append(@, point)]
             n == Len(r.trajectory)
             P == [origin : Places, tick : Int]
  <1>1. r.trajectory \in Seq(P) /\ n \in Nat /\ DOMAIN r.trajectory = 1 .. n
    BY DEF Trajectory
  <1>2. SampleOrigin(r, x) = IF x = None \/ (n > 0 /\ r.trajectory[n].origin = x) THEN r ELSE longer
    BY DEF SampleOrigin
  <1>3. Origins(r) \in Seq(Places) /\ Len(Origins(r)) = n
        /\ \A k \in 1 .. n : Origins(r)[k] = r.trajectory[k].origin
    <2>1. Origins(r) = [k \in 1 .. n |-> r.trajectory[k].origin]
      BY <1>1 DEF Origins
    <2>2. \A k \in 1 .. n : r.trajectory[k] \in P
      <3> DEFINE t == r.trajectory
      <3> HIDE DEF t, P
      <3> QED BY <1>1, ElementOfSeq
    <2>3. \A k \in 1 .. n : r.trajectory[k].origin \in Places
      BY <2>2
    <2> HIDE DEF n, P
    <2>4. Origins(r) \in [1 .. n -> Places]
      BY <2>1, <2>3
    <2>5. Origins(r) \in Seq(Places) /\ Len(Origins(r)) = n
      BY <1>1, <2>4
    <2> QED BY <2>1, <2>5
  <1>4. CASE x = None
    BY <1>2, <1>4
  <1>5. CASE x # None
    <2>1. x \in Places /\ point \in P
      BY <1>5 DEF Origin
    <2>2. Squeeze(Append(s, x)) = Step(Origins(r), x)
      BY <2>1, SqueezeMore
    <2>3. CASE n > 0 /\ r.trajectory[n].origin = x
      <3>1. Origins(r) # << >> /\ Origins(r)[Len(Origins(r))] = x
        BY <1>1, <1>3, <2>3
      <3> QED BY <1>2, <1>5, <2>2, <2>3, <3>1 DEF Step
    <2>4. CASE ~ (n > 0 /\ r.trajectory[n].origin = x)
      <3>1. SampleOrigin(r, x) = longer
        BY <1>2, <1>5, <2>4
      <3>2. /\ longer.trajectory = Append(r.trajectory, point)
            /\ longer.of = r.of /\ longer.blast = r.blast /\ longer.type = r.type
        BY DEF Trajectory
      <3>3. Step(Origins(r), x) = Append(Origins(r), x)
        <4>1. ~ (Origins(r) # << >> /\ Origins(r)[Len(Origins(r))] = x)
          BY <1>1, <1>3, <2>4
        <4> QED BY <4>1 DEF Step
      <3> HIDE DEF longer
      <3>4. Origins(longer) = Append(Origins(r), x)
        <4> DEFINE t == r.trajectory
                   u == Append(t, point)
                   o == Origins(r)
                   v == Append(o, x)
        <4>1. /\ u \in Seq(P) /\ DOMAIN u = 1 .. n + 1 /\ u[n + 1] = point
              /\ \A k \in 1 .. n : u[k] = t[k]
          <5>1. t \in Seq(P) /\ Len(t) = n
            BY <1>1
          <5> HIDE DEF t, n, P, point
          <5> QED BY <1>1, <2>1, <5>1
        <4>2. /\ v \in Seq(Places) /\ Len(v) = n + 1 /\ v[n + 1] = x
              /\ \A k \in 1 .. n : v[k] = o[k]
          <5> HIDE DEF o, n
          <5> QED BY <1>1, <1>3, <2>1 DEF o
        <4>3. Origins(longer) = [k \in 1 .. n + 1 |-> u[k].origin]
          BY <3>2, <4>1 DEF Origins
        <4>4. point.origin = x /\ \A k \in 1 .. n : o[k] = t[k].origin
          BY <1>3
        <4> HIDE DEF t, u, o, v, n, P, point
        <4>5. ASSUME NEW k \in 1 .. n + 1 PROVE Origins(longer)[k] = v[k] /\ v[k] \in Places
          <5>1. Origins(longer)[k] = u[k].origin
            BY <4>3
          <5>2. CASE k = n + 1
            BY <2>1, <4>1, <4>2, <4>4, <5>1, <5>2
          <5>3. CASE k # n + 1
            <6>1. k \in 1 .. n
              BY <1>1, <5>3
            <6>2. v[k] \in Places
              BY <4>2, ElementOfSeq
            <6> QED BY <4>1, <4>2, <4>4, <5>1, <6>1, <6>2
          <5> QED BY <5>2, <5>3
        <4>6. Origins(longer) \in Seq(Places) /\ Len(Origins(longer)) = n + 1
          <5>1. Origins(longer) \in [1 .. n + 1 -> Places]
            BY <4>3, <4>5
          <5> QED BY <1>1, <4>3, <5>1
        <4>7. Origins(longer) = v
          BY <4>2, <4>5, <4>6, SeqEqual
        <4> QED BY <4>7 DEF v, o
      <3> QED BY <1>5, <2>2, <3>1, <3>2, <3>3, <3>4
    <2> QED BY <2>3, <2>4
  <1> QED BY <1>4, <1>5

\* The names behind the records.
LEMMA RecordNames ==
    ASSUME TypeOK, NamedAsPlaced, TrackedAsListed, CompletedAreGone
    PROVE  /\ \A i \in Ids : uses[i] \in Nat
           /\ \A i \in Ids : server[i] # None =>
                server[i] \in Entity /\ server[i].name \in Names /\ server[i].name = <<i, uses[i]>>
           /\ \A i \in Ids : list[i] # None =>
                /\ list[i] \in Entity /\ list[i].name \in Names
                /\ list[i].name = <<i, list[i].name[2]>> /\ list[i].name[2] \in 1 .. uses[i]
           /\ \A i \in Ids : tracked[i] # None =>
                /\ tracked[i] \in Trajectory /\ tracked[i].of \in Names /\ tracked[i].of[1] = i
                /\ list[i] # None /\ tracked[i].of = list[i].name
           /\ \A n \in DOMAIN completed :
                /\ completed[n] \in Trajectory /\ completed[n].of \in Names
                /\ completed[n].of = <<completed[n].of[1], completed[n].of[2]>>
                /\ completed[n].of[1] \in Ids /\ completed[n].of[2] \in Nat
  <1>1. \A i \in Ids : uses[i] \in Nat
    BY DEF TypeOK
  <1>2. \A i \in Ids : server[i] # None =>
            server[i] \in Entity /\ server[i].name \in Names /\ server[i].name = <<i, uses[i]>>
    BY DEF TypeOK, NamedAsPlaced, Entity
  <1>3. ASSUME NEW i \in Ids, list[i] # None
        PROVE  /\ list[i] \in Entity /\ list[i].name \in Names
               /\ list[i].name = <<i, list[i].name[2]>> /\ list[i].name[2] \in 1 .. uses[i]
    <2>1. list[i] \in Entity
      BY <1>3 DEF TypeOK
    <2>2. list[i].name \in Ids \X (1 .. MaxUses)
      BY <2>1 DEF Entity, Names
    <2>3. list[i].name[1] = i /\ list[i].name[2] <= uses[i]
      BY <1>3 DEF NamedAsPlaced
    <2> QED BY <1>1, <2>1, <2>2, <2>3, GrenadesAssumption DEF Names
  <1>4. \A i \in Ids : tracked[i] # None =>
            tracked[i] \in Trajectory /\ tracked[i].of \in Names /\ list[i] # None /\ tracked[i].of = list[i].name
    BY DEF TypeOK, Trajectory, TrackedAsListed
  <1>5. ASSUME NEW i \in Ids, tracked[i] # None PROVE tracked[i].of[1] = i
    <2>1. tracked[i].of = <<i, list[i].name[2]>>
      BY <1>3, <1>4, <1>5
    <2> QED BY <2>1
  <1>6. ASSUME NEW n \in DOMAIN completed
        PROVE  /\ completed[n] \in Trajectory /\ completed[n].of \in Names
               /\ completed[n].of = <<completed[n].of[1], completed[n].of[2]>>
               /\ completed[n].of[1] \in Ids /\ completed[n].of[2] \in Nat
    <2>1. completed[n] \in Trajectory
      BY DEF TypeOK
    <2>2. completed[n].of \in Ids \X (1 .. MaxUses)
      BY <2>1 DEF Trajectory, Names
    <2> QED BY <2>1, <2>2, GrenadesAssumption DEF Names
  <1> QED BY <1>1, <1>2, <1>3, <1>4, <1>5, <1>6

\* The same flight so far, replaced or not.
SameFlight(s, t) ==
    /\ s.enters = t.enters
    /\ s.path = t.path
    /\ s.origins = t.origins
    /\ s.blast = t.blast
    /\ s.told = t.told

LEMMA ToldAlike ==
    ASSUME NEW r, NEW s, NEW t, SameFlight(s, t), TellsFlight(r, s)
    PROVE  TellsFlight(r, t)
  BY DEF SameFlight, TellsFlight, TellsNoOther

\* Flights that stay as they are stay told.
LEMMA RecordsKept ==
    ASSUME TypeOK, Flights, UNCHANGED <<tracked, completed>>,
           \A g \in Names : SameFlight(seen[g], seen'[g])
    PROVE  RecordsTellFlights'
  <1>1. /\ \A j \in Ids : tracked[j] # None => tracked[j].of \in Names
        /\ \A n \in DOMAIN completed : completed[n].of \in Names
    BY RecordNames DEF Flights
  <1>2. \A j \in Ids : tracked[j] # None => TellsFlight(tracked[j], seen'[tracked[j].of])
    BY <1>1, ToldAlike DEF Flights, RecordsTellFlights
  <1>3. \A n \in DOMAIN completed : TellsFlight(completed[n], seen'[completed[n].of])
    BY <1>1, ToldAlike DEF Flights, RecordsTellFlights
  <1> QED BY <1>2, <1>3 DEF RecordsTellFlights

\* What is listed stays listed under its name, with its flight.
LEMMA PathsKept ==
    ASSUME TypeOK, Flights, \A g \in Names : SameFlight(seen[g], seen'[g]),
           \A j \in Ids : list'[j] # None => list[j] # None /\ list'[j].name = list[j].name
    PROVE  PathsBegin'
  <1>1. \A j \in Ids : list[j] # None => list[j].name \in Names
    BY RecordNames DEF Flights
  <1>2. \A j \in Ids : list'[j] # None => seen'[list'[j].name].enters > 0
    BY <1>1 DEF Flights, PathsBegin, SameFlight
  <1>3. \A g \in Names : /\ seen'[g].enters = 0 => seen'[g].path = << >> /\ ~seen'[g].told
                         /\ seen'[g].enters = 1 => seen'[g].path = seen'[g].origins
    BY DEF Flights, PathsBegin, SameFlight
  <1> QED BY <1>2, <1>3 DEF PathsBegin

LEMMA FlightInit == Init => Flights
  <1> SUFFICES ASSUME Init PROVE Flights
    OBVIOUS
  <1>1. NamedAsPlaced /\ TrackedAsListed
    BY DEF Init, NamedAsPlaced, TrackedAsListed, Known
  <1>2. DOMAIN completed = {}
    BY SqueezeNone DEF Init
  <1>3. CompletedAreGone /\ RecordsTellFlights
    BY <1>2 DEF Init, CompletedAreGone, RecordsTellFlights
  <1>4. BlastsUnderWay
    BY DEF Init, BlastsUnderWay
  <1>5. EnteredIsRecorded
    <2>1. ASSUME NEW g \in Names PROVE seen[g].enters = 0
      BY DEF Init
    <2> QED BY <2>1 DEF EnteredIsRecorded, Names
  <1>6. PathsBegin
    BY DEF Init, PathsBegin
  <1> QED BY <1>1, <1>3, <1>4, <1>5, <1>6 DEF Flights

\* A new entity of the game is no one's record yet.
LEMMA AppearFlight ==
    ASSUME TypeOK, TypeOK', Flights, NEW i \in Ids, Free(i), NEW e \in Entity, e.name = Named(i),
           e.class = "CCSPlayer" <=> i \in PlayerIds,
           server' = [server EXCEPT ![i] = e], uses' = [uses EXCEPT ![i] = uses[i] + 1],
           UNCHANGED <<events, list, tracked, completed>>,
           \A g \in Names : SameFlight(seen[g], seen'[g]) /\ seen'[g].replaced = seen[g].replaced
    PROVE  Flights'
  <1>1. /\ server'[i] = e /\ uses'[i] = uses[i] + 1
        /\ \A j \in Ids \ {i} : server'[j] = server[j] /\ uses'[j] = uses[j]
    BY DEF TypeOK
  <1>2. list' = list /\ tracked' = tracked /\ completed' = completed /\ events' = events
    OBVIOUS
  <1>3. /\ \A j \in Ids : uses[j] \in Nat
        /\ \A j \in Ids : list[j] # None =>
              list[j].name \in Names /\ list[j].name = <<j, list[j].name[2]>> /\ list[j].name[2] \in 1 .. uses[j]
        /\ \A n \in DOMAIN completed :
              completed[n].of \in Names /\ completed[n].of[1] \in Ids /\ completed[n].of[2] \in Nat
        /\ \A j \in Ids : tracked[j] # None => tracked[j].of \in Names
    BY RecordNames DEF Flights
  <1>4. e.name = <<i, uses[i] + 1>>
    BY DEF Named
  <1>5. ~ Known(i)'
    BY <1>1, <1>2, <1>3, <1>4 DEF Known
  <1>6. \A j \in Ids \ {i} : Known(j)' <=> Known(j)
    BY <1>1, <1>2 DEF Known
  <1>7. NamedAsPlaced'
    <2>1. \A j \in Ids \ {i} :
            /\ server'[j] # None => server'[j].name = <<j, uses'[j]>>
            /\ list'[j] # None => list'[j].name[1] = j /\ list'[j].name[2] <= uses'[j]
            /\ \A d \in {server'[j], list'[j]} \ {None} : d.class = "CCSPlayer" <=> j \in PlayerIds
            /\ Known(j)' => list'[j].class = server'[j].class
      BY <1>1, <1>2, <1>6 DEF Flights, NamedAsPlaced
    <2>2. /\ server'[i].name = <<i, uses'[i]>>
          /\ list'[i] # None => list'[i].name[1] = i /\ list'[i].name[2] <= uses'[i]
          /\ \A d \in {server'[i], list'[i]} \ {None} : d.class = "CCSPlayer" <=> i \in PlayerIds
      BY <1>1, <1>2, <1>3, <1>4 DEF Flights, NamedAsPlaced
    <2> QED BY <1>5, <2>1, <2>2 DEF NamedAsPlaced
  <1>8. TrackedAsListed'
    BY <1>2 DEF Flights, TrackedAsListed
  <1>9. CompletedAreGone'
    BY <1>1, <1>2, <1>3 DEF Flights, CompletedAreGone
  <1>10. RecordsTellFlights' /\ PathsBegin'
    BY <1>2, RecordsKept, PathsKept
  <1>11. BlastsUnderWay'
    <2> SUFFICES ASSUME NEW d \in events
                 PROVE  /\ <<d.id, uses'[d.id]>> \in Names
                        /\ seen'[<<d.id, uses'[d.id]>>].blast = [origin |-> d.origin, type |-> d.type]
                        /\ list[d.id] # None => list[d.id].name = <<d.id, uses'[d.id]>>
      BY <1>2 DEF BlastsUnderWay
    <2>1. d.id \in Ids \ {i}
      BY DEF TypeOK, Ids, Free
    <2>2. \A g \in Names : seen'[g].blast = seen[g].blast
      BY DEF SameFlight
    <2> QED BY <1>1, <2>1, <2>2 DEF Flights, BlastsUnderWay
  <1>12. EnteredIsRecorded'
    <2> SUFFICES ASSUME NEW j \in Ids, NEW k \in 1 .. MaxUses, seen'[<<j, k>>].enters > 0
                 PROVE  /\ k <= uses'[j]
                        /\ server'[j] # None /\ k = uses'[j] => Known(j)'
                        /\ j \in ProjectileIds /\ Uninterrupted(seen'[<<j, k>>]) => HasRecord(j, k)
      BY <1>2 DEF EnteredIsRecorded, HasRecord
    <2>1. /\ seen[<<j, k>>].enters > 0
          /\ Uninterrupted(seen'[<<j, k>>]) => Uninterrupted(seen[<<j, k>>])
      BY DEF Names, SameFlight, Uninterrupted
    <2>2. /\ k <= uses[j]
          /\ server[j] # None /\ k = uses[j] => Known(j)
          /\ j \in ProjectileIds /\ Uninterrupted(seen'[<<j, k>>]) => HasRecord(j, k)
      BY <2>1 DEF Flights, EnteredIsRecorded
    <2>3. CASE j = i
      BY <1>1, <1>3, <2>2, <2>3
    <2>4. CASE j # i
      BY <1>1, <1>6, <2>2, <2>4
    <2> QED BY <2>3, <2>4
  <1> QED BY <1>7, <1>8, <1>9, <1>10, <1>11, <1>12 DEF Flights

\* Nothing of the flights changes in a step that leaves the game, the list and the
\* trackers as they are.
LEMMA IdleFlight ==
    ASSUME Flights, UNCHANGED <<server, uses, events, list, tracked, completed, seen>>
    PROVE  Flights'
  <1>1. (NamedAsPlaced /\ TrackedAsListed /\ CompletedAreGone)'
    BY DEF Flights, NamedAsPlaced, TrackedAsListed, CompletedAreGone, Known
  <1>2. (RecordsTellFlights /\ PathsBegin /\ BlastsUnderWay)'
    BY DEF Flights, RecordsTellFlights, PathsBegin, BlastsUnderWay
  <1>3. EnteredIsRecorded'
    BY DEF Flights, EnteredIsRecorded, HasRecord, Known
  <1> QED BY <1>1, <1>2, <1>3 DEF Flights

\* What has vanished from the game stays in the list and in its record.
LEMMA VanishFlight ==
    ASSUME TypeOK, Flights, NEW i \in Ids, Vanish(i)
    PROVE  Flights'
  <1>1. /\ server'[i] = None /\ \A j \in Ids \ {i} : server'[j] = server[j]
        /\ list' = list /\ tracked' = tracked /\ completed' = completed
        /\ uses' = uses /\ events' = events /\ seen' = seen
    BY DEF TypeOK, Vanish, tracker
  <1>2. ~ Known(i)' /\ \A j \in Ids \ {i} : Known(j)' <=> Known(j)
    BY <1>1 DEF Known
  <1>3. NamedAsPlaced'
    BY <1>1, <1>2 DEF Flights, NamedAsPlaced
  <1>4. TrackedAsListed' /\ RecordsTellFlights' /\ BlastsUnderWay' /\ PathsBegin'
    BY <1>1 DEF Flights, TrackedAsListed, RecordsTellFlights, BlastsUnderWay, PathsBegin
  <1>5. CompletedAreGone'
    <2>1. \A n \in DOMAIN completed : completed[n].of[1] \in Ids
      BY RecordNames DEF Flights
    <2> QED BY <1>1, <2>1 DEF Flights, CompletedAreGone
  <1>6. EnteredIsRecorded'
    BY <1>1, <1>2 DEF Flights, EnteredIsRecorded, HasRecord
  <1> QED BY <1>3, <1>4, <1>5, <1>6 DEF Flights

\* A grenade explodes once, and no record has told of it.
LEMMA DetonateFlight ==
    ASSUME TypeOK, Flights, NEW i \in ProjectileIds, NEW type \in GrenadeTypes, Detonate(i, type)
    PROVE  Flights'
  <1> DEFINE g == server[i].name
             b == [origin |-> server[i].origin, type |-> type]
             event == [id |-> i, origin |-> server[i].origin, type |-> type]
  <1>1. /\ i \in Ids /\ server[i] # None /\ seen[g].enters > 0 /\ seen[g].blast = None
        /\ events' = events \cup {event} /\ seen' = [seen EXCEPT ![g].blast = b]
        /\ UNCHANGED <<server, uses, list, tracked, completed>>
    BY DEF Detonate, tracker, Ids
  <1>2. server[i] \in Entity /\ g \in Names /\ g = <<i, uses[i]>>
    BY <1>1, RecordNames DEF Flights
  <1>3. b \in Detonation /\ b # None
    BY <1>2, GrenadesAssumption DEF Detonation, Entity
  <1>4. event.id = i /\ b = [origin |-> event.origin, type |-> event.type]
    OBVIOUS
  <1> HIDE DEF g, b, event
  <1>5. /\ \A h \in Names \ {g} : seen'[h] = seen[h]
        /\ seen'[g].blast = b /\ seen'[g].origins = seen[g].origins /\ seen'[g].enters = seen[g].enters
        /\ seen'[g].path = seen[g].path /\ seen'[g].told = seen[g].told
        /\ seen'[g].replaced = seen[g].replaced
    BY <1>1, <1>2 DEF TypeOK
  <1>6. \A j \in Ids : Known(j)' <=> Known(j)
    BY <1>1 DEF Known
  <1>7. NamedAsPlaced' /\ TrackedAsListed' /\ CompletedAreGone'
    BY <1>1, <1>6 DEF Flights, NamedAsPlaced, TrackedAsListed, CompletedAreGone
  <1>8. RecordsTellFlights'
    <2>1. ASSUME NEW r, r.of \in Names, TellsFlight(r, seen[r.of]) PROVE TellsFlight(r, seen'[r.of])
      <3>1. CASE r.of = g
        BY <1>1, <1>5, <2>1, <3>1 DEF TellsFlight, TellsNoOther
      <3>2. CASE r.of # g
        BY <1>5, <2>1, <3>2
      <3> QED BY <3>1, <3>2
    <2>2. /\ \A j \in Ids : tracked[j] # None => tracked[j].of \in Names
          /\ \A n \in DOMAIN completed : completed[n].of \in Names
      BY RecordNames DEF Flights
    <2> QED BY <1>1, <2>1, <2>2 DEF Flights, RecordsTellFlights
  <1>9. BlastsUnderWay'
    <2>1. ASSUME NEW e \in events
          PROVE  /\ <<e.id, uses[e.id]>> \in Names
                 /\ seen'[<<e.id, uses[e.id]>>].blast = [origin |-> e.origin, type |-> e.type]
                 /\ list[e.id] # None => list[e.id].name = <<e.id, uses[e.id]>>
      <3>1. /\ <<e.id, uses[e.id]>> \in Names
            /\ seen[<<e.id, uses[e.id]>>].blast = [origin |-> e.origin, type |-> e.type]
            /\ list[e.id] # None => list[e.id].name = <<e.id, uses[e.id]>>
        BY DEF Flights, BlastsUnderWay
      <3>2. [origin |-> e.origin, type |-> e.type] \in Detonation
        BY DEF TypeOK, Detonation
      <3>3. <<e.id, uses[e.id]>> # g
        BY <1>1, <3>1, <3>2, GrenadesAssumption
      <3> QED BY <1>5, <3>1, <3>3
    <2>2. <<i, uses[i]>> \in Names /\ seen'[<<i, uses[i]>>].blast = b
      BY <1>2, <1>5
    <2>3. Known(i)
      <3>1. i \in Ids /\ uses[i] \in 1 .. MaxUses
        BY <1>1, <1>2 DEF Names
      <3> QED BY <1>1, <1>2, <3>1 DEF Flights, EnteredIsRecorded
    <2>4. list[i].name = <<i, uses[i]>>
      BY <1>2, <2>3 DEF Known, g
    <2>5. uses' = uses /\ list' = list
      BY <1>1
    <2>6. \A e \in events' : e \in events \/ e = event
      BY <1>1
    <2>7. ASSUME NEW e \in events'
          PROVE  /\ <<e.id, uses[e.id]>> \in Names
                 /\ seen'[<<e.id, uses[e.id]>>].blast = [origin |-> e.origin, type |-> e.type]
                 /\ list[e.id] # None => list[e.id].name = <<e.id, uses[e.id]>>
      <3>1. CASE e \in events
        BY <2>1, <3>1
      <3>2. CASE e = event
        BY <1>4, <2>2, <2>4, <3>2
      <3> QED BY <2>6, <3>1, <3>2
    <2> QED BY <2>5, <2>7 DEF BlastsUnderWay
  <1>10. EnteredIsRecorded'
    <2>1. \A h \in Names : seen'[h].enters = seen[h].enters /\ seen'[h].replaced = seen[h].replaced
      BY <1>5
    <2>2. \A j \in Ids, k \in 1 .. MaxUses :
              /\ seen'[<<j, k>>].enters = seen[<<j, k>>].enters
              /\ Uninterrupted(seen'[<<j, k>>]) => Uninterrupted(seen[<<j, k>>])
      BY <2>1 DEF Names, Uninterrupted
    <2>3. \A j \in Ids, k \in 1 .. MaxUses : HasRecord(j, k)' <=> HasRecord(j, k)
      BY <1>1 DEF HasRecord
    <2> QED BY <1>1, <1>6, <2>2, <2>3 DEF Flights, EnteredIsRecorded
  <1>11. PathsBegin'
    <2>1. \A h \in Names : /\ seen'[h].enters = seen[h].enters /\ seen'[h].path = seen[h].path
                           /\ seen'[h].origins = seen[h].origins /\ seen'[h].told = seen[h].told
      BY <1>5
    <2>2. list' = list /\ \A j \in Ids : list[j] # None => list[j].name \in Names
      BY <1>1, RecordNames DEF Flights
    <2>3. \A j \in Ids : list'[j] # None => seen'[list'[j].name].enters > 0
      BY <2>1, <2>2 DEF Flights, PathsBegin
    <2>4. \A h \in Names : /\ seen'[h].enters = 0 => seen'[h].path = << >> /\ ~seen'[h].told
                           /\ seen'[h].enters = 1 => seen'[h].path = seen'[h].origins
      BY <2>1 DEF Flights, PathsBegin
    <2> QED BY <2>3, <2>4 DEF PathsBegin
  <1> QED BY <1>7, <1>8, <1>9, <1>10, <1>11 DEF Flights

\* The event finds the record of the grenade that exploded, or nothing at its id.
LEMMA GameEventFlight ==
    ASSUME TypeOK, Flights, NEW e \in events, GameEvent(e)
    PROVE  Flights'
  <1> DEFINE g == <<e.id, uses[e.id]>>
             b == [origin |-> e.origin, tick |-> tick]
             r == [tracked[e.id] EXCEPT !.blast = b, !.type = e.type]
  <1>1. e.id \in Ids /\ e.id \in ProjectileIds
    BY DEF TypeOK, Ids
  <1>2. /\ events' \in SUBSET events
        /\ UNCHANGED <<server, uses, list, completed>>
    BY DEF GameEvent, OnGameEvent
  <1>3. \A j \in Ids : Known(j)' <=> Known(j)
    BY <1>2 DEF Known
  <1>4. NamedAsPlaced' /\ CompletedAreGone'
    BY <1>2, <1>3 DEF Flights, NamedAsPlaced, CompletedAreGone
  <1>5. CASE list[e.id] = None
    <2>1. tracked[e.id] = None
      BY <1>1, <1>5 DEF Flights, TrackedAsListed
    <2>2. tracked' = tracked /\ seen' = seen
      BY <1>5, <2>1 DEF GameEvent, OnGameEvent
    <2> QED BY <1>2, <1>3, <1>4, <2>2 DEF Flights, TrackedAsListed, RecordsTellFlights, PathsBegin,
               BlastsUnderWay, EnteredIsRecorded, HasRecord
  <1>6. CASE list[e.id] # None
    <2>1. /\ tracked[e.id] # None /\ tracked[e.id] \in Trajectory /\ tracked[e.id].of = g
          /\ list[e.id].name = g /\ g \in Names
      <3>1. tracked[e.id] # None
        BY <1>1, <1>6 DEF Flights, TrackedAsListed
      <3>2. list[e.id].name = g /\ g \in Names
        BY <1>6 DEF Flights, BlastsUnderWay
      <3> QED BY <1>1, <3>1, <3>2, RecordNames DEF Flights
    <2>2. seen[g].blast = [origin |-> e.origin, type |-> e.type]
      BY DEF Flights, BlastsUnderWay
    <2>3. [origin |-> e.origin, type |-> e.type] \in Detonation
      BY DEF TypeOK, Detonation
    <2>4. tracked' = [tracked EXCEPT ![e.id] = r]
      BY <1>1, <2>1 DEF GameEvent, OnGameEvent, TypeOK
    <2>5. seen' = [seen EXCEPT ![g].told = TRUE]
      BY <1>6, <2>1 DEF GameEvent
    <2>6. b \in Explosion /\ b.origin = e.origin
      BY DEF TypeOK, Explosion
    <2>7. seen[g].enters > 0
      BY <1>1, <1>6, <2>1 DEF Flights, PathsBegin
    <2>8. \A n \in DOMAIN completed : completed[n].of # g /\ completed[n].of \in Names
      <3>1. g[1] = e.id /\ g[2] = uses[e.id] /\ uses[e.id] \in Nat
        BY <1>1 DEF TypeOK
      <3> HIDE DEF g
      <3>2. \A n \in DOMAIN completed : completed[n].of[2] \in Nat /\ completed[n].of \in Names
        BY RecordNames DEF Flights
      <3> QED BY <1>6, <2>1, <3>1, <3>2 DEF Flights, CompletedAreGone
    <2>9. \A j \in Ids \ {e.id} : tracked[j] # None => tracked[j].of # g /\ tracked[j].of \in Names
      BY RecordNames DEF Flights
    <2> HIDE DEF b, g
    <2>10. /\ \A h \in Names \ {g} : seen'[h] = seen[h]
           /\ SameFlight([seen[g] EXCEPT !.told = TRUE], seen'[g])
           /\ seen'[g].told = TRUE /\ seen'[g].enters = seen[g].enters
           /\ seen'[g].path = seen[g].path /\ seen'[g].origins = seen[g].origins
           /\ seen'[g].blast = seen[g].blast /\ seen'[g].replaced = seen[g].replaced
      <3>1. seen[g] \in SeenRecord /\ seen \in [Names -> SeenRecord]
        BY <2>1 DEF TypeOK, SeenRecord
      <3>2. seen'[g] = [seen[g] EXCEPT !.told = TRUE] /\ \A h \in Names \ {g} : seen'[h] = seen[h]
        BY <2>1, <2>5, <3>1
      <3> QED BY <3>1, <3>2 DEF SeenRecord, SameFlight
    <2>11. /\ r \in Trajectory /\ r.of = g /\ r.trajectory = tracked[e.id].trajectory
           /\ r.blast = b /\ r.type = e.type
      <3>1. e.type \in GrenadeTypes
        BY DEF TypeOK
      <3> QED BY <2>1, <2>6, <3>1 DEF Trajectory
    <2> HIDE DEF r
    <2>12. tracked'[e.id] = r /\ \A j \in Ids \ {e.id} : tracked'[j] = tracked[j]
      BY <1>1, <2>4 DEF TypeOK
    <2>13. r # None
      BY <2>11, GrenadesAssumption
    <2>14. TrackedAsListed'
      BY <1>2, <2>1, <2>11, <2>12, <2>13 DEF Flights, TrackedAsListed
    <2>15. TellsFlight(r, seen'[g])
      <3>1. TellsFlight(tracked[e.id], seen[g])
        BY <1>1, <2>1 DEF Flights, RecordsTellFlights
      <3>2. Origins(r) = Squeeze(seen'[g].origins)
        BY <2>10, <2>11, <3>1 DEF TellsFlight, TellsNoOther, Origins
      <3>3. /\ seen'[g].blast # None /\ r.blast.origin = seen'[g].blast.origin
            /\ r.type = seen'[g].blast.type
        BY <2>2, <2>3, <2>6, <2>10, <2>11, GrenadesAssumption
      <3>4. b # None
        BY <2>6, GrenadesAssumption
      <3> QED BY <2>10, <2>11, <3>2, <3>3, <3>4 DEF TellsFlight, TellsNoOther
    <2>16. RecordsTellFlights'
      <3>1. \A j \in Ids \ {e.id} : tracked'[j] # None => TellsFlight(tracked'[j], seen'[tracked'[j].of])
        BY <2>9, <2>10, <2>12 DEF Flights, RecordsTellFlights
      <3>2. \A n \in DOMAIN completed : TellsFlight(completed[n], seen'[completed[n].of])
        BY <2>8, <2>10 DEF Flights, RecordsTellFlights
      <3> QED BY <1>2, <2>11, <2>12, <2>15, <3>1, <3>2 DEF RecordsTellFlights
    <2>17. PathsBegin'
      <3>1. \A j \in Ids : list[j] # None => seen'[list[j].name].enters > 0
        BY <2>7, <2>10, RecordNames DEF Flights, PathsBegin
      <3>2. \A h \in Names : /\ seen'[h].enters = 0 => seen'[h].path = << >> /\ ~seen'[h].told
                             /\ seen'[h].enters = 1 => seen'[h].path = seen'[h].origins
        BY <2>7, <2>10 DEF Flights, PathsBegin
      <3> QED BY <1>2, <3>1, <3>2 DEF PathsBegin
    <2>18. BlastsUnderWay'
      <3>1. \A h \in Names : seen'[h].blast = seen[h].blast
        BY <2>10
      <3> QED BY <1>2, <3>1 DEF Flights, BlastsUnderWay
    <2>19. EnteredIsRecorded'
      <3>1. \A h \in Names : seen'[h].enters = seen[h].enters /\ seen'[h].replaced = seen[h].replaced
        BY <2>10
      <3>2. \A j \in Ids, k \in 1 .. MaxUses :
                /\ seen'[<<j, k>>].enters = seen[<<j, k>>].enters
                /\ Uninterrupted(seen'[<<j, k>>]) => Uninterrupted(seen[<<j, k>>])
        BY <3>1 DEF Names, Uninterrupted
      <3>3. \A j \in Ids, k \in 1 .. MaxUses : HasRecord(j, k)' <=> HasRecord(j, k)
        BY <1>2 DEF HasRecord
      <3> QED BY <1>2, <1>3, <3>2, <3>3 DEF Flights, EnteredIsRecorded
    <2> QED BY <1>4, <2>14, <2>16, <2>17, <2>18, <2>19 DEF Flights
  <1> QED BY <1>5, <1>6

\* The deletion of a grenade leaves its record behind.
LEMMA CompletedGrow ==
    ASSUME TypeOK, Flights, NEW i \in Ids, tracked[i] # None, completed' = Append(completed, tracked[i])
    PROVE  /\ Len(completed) \in Nat
           /\ DOMAIN completed = 1 .. Len(completed)
           /\ DOMAIN completed' = 1 .. Len(completed) + 1
           /\ completed'[Len(completed) + 1] = tracked[i]
           /\ \A n \in DOMAIN completed : completed'[n] = completed[n]
           /\ \A m, n \in DOMAIN completed' : m # n => completed'[m].of # completed'[n].of
  <1> DEFINE r == tracked[i]
             N == Len(completed)
  <1>1. completed \in Seq(Trajectory) /\ r \in Trajectory
    BY DEF TypeOK
  <1> HIDE DEF r
  <1>2. /\ N \in Nat /\ DOMAIN completed = 1 .. N /\ DOMAIN completed' = 1 .. N + 1
        /\ completed'[N + 1] = r /\ \A n \in 1 .. N : completed'[n] = completed[n]
    BY <1>1 DEF r
  <1>3. ASSUME NEW n \in 1 .. N PROVE completed[n].of # r.of
    <2>1. r.of[1] = i /\ list[i] # None /\ r.of = list[i].name /\ r.of[2] \in Nat
      <3>1. /\ r.of[1] = i /\ list[i] # None /\ r.of = list[i].name
            /\ list[i].name[2] \in 1 .. uses[i] /\ uses[i] \in Nat
        BY RecordNames DEF Flights, r
      <3> QED BY <3>1
    <2>2. completed[n].of[1] = i => completed[n].of[2] < r.of[2] /\ completed[n].of[2] \in Nat
      BY <1>2, <2>1, RecordNames DEF Flights, CompletedAreGone
    <2> QED BY <2>1, <2>2
  <1>4. \A m, n \in 1 .. N : m # n => completed[m].of # completed[n].of
    BY <1>2 DEF Flights, CompletedAreGone
  <1> HIDE DEF N
  <1>5. ASSUME NEW m \in DOMAIN completed', NEW n \in DOMAIN completed', m # n
        PROVE  completed'[m].of # completed'[n].of
    <2>1. m \in 1 .. N \/ m = N + 1
      BY <1>2
    <2>2. n \in 1 .. N \/ n = N + 1
      BY <1>2
    <2> QED BY <1>2, <1>3, <1>4, <1>5, <2>1, <2>2
  <1> QED BY <1>2, <1>5 DEF N, r

LEMMA DeleteFlight ==
    ASSUME TypeOK, Flights, NEW i \in Ids, Delete(i)
    PROVE  Flights'
  <1>1. /\ list[i] # None /\ server[i] = None /\ completed' = CompletedWith(i)
        /\ UNCHANGED <<server, uses, events, seen>>
    BY DEF Delete, game
  <1>2. /\ list'[i] = None /\ \A j \in Ids \ {i} : list'[j] = list[j]
        /\ tracked'[i] = None /\ \A j \in Ids \ {i} : tracked'[j] = tracked[j]
    BY DEF Delete, Untracked, TypeOK
  <1>3. ~ Known(i)' /\ \A j \in Ids \ {i} : Known(j)' <=> Known(j)
    BY <1>1, <1>2 DEF Known
  <1>4. NamedAsPlaced'
    <2>1. \A j \in Ids \ {i} :
            /\ server'[j] # None => server'[j].name = <<j, uses'[j]>>
            /\ list'[j] # None => list'[j].name[1] = j /\ list'[j].name[2] <= uses'[j]
            /\ \A d \in {server'[j], list'[j]} \ {None} : d.class = "CCSPlayer" <=> j \in PlayerIds
            /\ Known(j)' => list'[j].class = server'[j].class
      BY <1>1, <1>2, <1>3 DEF Flights, NamedAsPlaced
    <2>2. server'[i] = None
      BY <1>1
    <2> QED BY <1>2, <1>3, <2>1, <2>2 DEF NamedAsPlaced
  <1>5. TrackedAsListed'
    BY <1>1, <1>2 DEF Flights, TrackedAsListed
  <1>6. BlastsUnderWay' /\ PathsBegin'
    <2>1. \A e \in events : e.id \in Ids
      BY DEF TypeOK, Ids
    <2> QED BY <1>1, <1>2, <2>1 DEF Flights, BlastsUnderWay, PathsBegin
  <1>7. CASE tracked[i] = None
    <2>1. completed' = completed
      BY <1>1, <1>7 DEF CompletedWith
    <2>2. i \notin ProjectileIds
      BY <1>1, <1>7 DEF Flights, TrackedAsListed
    <2>3. CompletedAreGone'
      <3>1. \A n \in DOMAIN completed : completed[n].of[1] \in Ids
        BY RecordNames DEF Flights
      <3> QED BY <1>1, <1>2, <2>1, <3>1 DEF Flights, CompletedAreGone
    <2>4. RecordsTellFlights'
      BY <1>1, <1>2, <2>1 DEF Flights, RecordsTellFlights
    <2>5. EnteredIsRecorded'
      <3> SUFFICES ASSUME NEW j \in Ids, NEW k \in 1 .. MaxUses, seen[<<j, k>>].enters > 0
                   PROVE  /\ k <= uses[j]
                          /\ server[j] # None /\ k = uses[j] => Known(j)'
                          /\ j \in ProjectileIds /\ Uninterrupted(seen[<<j, k>>]) => HasRecord(j, k)'
        BY <1>1 DEF EnteredIsRecorded
      <3>1. /\ k <= uses[j]
            /\ server[j] # None /\ k = uses[j] => Known(j)
            /\ j \in ProjectileIds /\ Uninterrupted(seen[<<j, k>>]) => HasRecord(j, k)
        BY DEF Flights, EnteredIsRecorded
      <3>2. CASE j = i
        BY <1>1, <2>2, <3>1, <3>2
      <3>3. CASE j # i
        BY <1>2, <1>3, <2>1, <3>1, <3>3 DEF HasRecord
      <3> QED BY <3>2, <3>3
    <2> QED BY <1>4, <1>5, <1>6, <2>3, <2>4, <2>5 DEF Flights
  <1>8. CASE tracked[i] # None
    <2> DEFINE r == tracked[i]
               N == Len(completed)
    <2>1. completed' = Append(completed, tracked[i])
      BY <1>1, <1>8 DEF CompletedWith
    <2>2. /\ N \in Nat /\ DOMAIN completed = 1 .. N /\ DOMAIN completed' = 1 .. N + 1
          /\ completed'[N + 1] = r /\ \A n \in DOMAIN completed : completed'[n] = completed[n]
          /\ \A m, n \in DOMAIN completed' : m # n => completed'[m].of # completed'[n].of
      BY <1>8, <2>1, CompletedGrow
    <2>3. /\ r.of[1] = i /\ r.of = list[i].name /\ list[i].name[2] \in 1 .. uses[i]
          /\ uses[i] \in Nat
      BY <1>8, RecordNames DEF Flights
    <2>4. TellsFlight(r, seen[r.of])
      BY <1>8 DEF Flights, RecordsTellFlights
    <2>5. /\ \A n \in DOMAIN completed : completed[n].of[1] \in Ids
          /\ \A n \in DOMAIN completed : completed[n].of[2] <= uses[completed[n].of[1]]
      BY RecordNames DEF Flights, CompletedAreGone
    <2> HIDE DEF r, N
    <2>6. \A n \in DOMAIN completed' :
              \/ n \in DOMAIN completed /\ completed'[n] = completed[n]
              \/ n = N + 1 /\ completed'[n] = r
      BY <2>2
    <2>7. CompletedAreGone'
      <3> SUFFICES ASSUME NEW n \in DOMAIN completed'
                   PROVE  /\ server'[completed'[n].of[1]] # None => completed'[n].of[2] < uses'[completed'[n].of[1]]
                          /\ list'[completed'[n].of[1]] # None =>
                                completed'[n].of[2] < list'[completed'[n].of[1]].name[2]
                          /\ completed'[n].of[2] <= uses'[completed'[n].of[1]]
        BY <2>2 DEF CompletedAreGone
      <3>1. CASE n \in DOMAIN completed /\ completed'[n] = completed[n]
        BY <1>1, <1>2, <2>5, <3>1 DEF Flights, CompletedAreGone
      <3>2. CASE completed'[n] = r
        BY <1>1, <1>2, <2>3, <3>2
      <3> QED BY <2>6, <3>1, <3>2
    <2>8. RecordsTellFlights'
      <3>1. \A n \in DOMAIN completed' : TellsFlight(completed'[n], seen[completed'[n].of])
        BY <2>4, <2>6 DEF Flights, RecordsTellFlights
      <3>2. \A j \in Ids : tracked'[j] # None => TellsFlight(tracked'[j], seen[tracked'[j].of])
        BY <1>2 DEF Flights, RecordsTellFlights
      <3>3. seen' = seen
        BY <1>1
      <3> QED BY <3>1, <3>2, <3>3 DEF RecordsTellFlights
    <2>9. EnteredIsRecorded'
      <3> SUFFICES ASSUME NEW j \in Ids, NEW k \in 1 .. MaxUses, seen[<<j, k>>].enters > 0
                   PROVE  /\ k <= uses[j]
                          /\ server[j] # None /\ k = uses[j] => Known(j)'
                          /\ j \in ProjectileIds /\ Uninterrupted(seen[<<j, k>>]) => HasRecord(j, k)'
        BY <1>1 DEF EnteredIsRecorded
      <3>1. /\ k <= uses[j]
            /\ server[j] # None /\ k = uses[j] => Known(j)
            /\ j \in ProjectileIds /\ Uninterrupted(seen[<<j, k>>]) => HasRecord(j, k)
        BY DEF Flights, EnteredIsRecorded
      <3>2. server[j] # None /\ k = uses[j] => Known(j)'
        BY <1>1, <1>3, <3>1
      <3>3. \A n \in DOMAIN completed : n \in DOMAIN completed' /\ completed'[n] = completed[n]
        BY <2>2
      <3>4. N + 1 \in DOMAIN completed' /\ completed'[N + 1] = r
        BY <2>2
      <3>5. ASSUME HasRecord(j, k) PROVE HasRecord(j, k)'
        <4>1. CASE \E n \in DOMAIN completed : completed[n].of = <<j, k>>
          BY <3>3, <4>1 DEF HasRecord
        <4>2. CASE list[j] # None /\ list[j].name = <<j, k>> /\ j # i
          BY <1>2, <4>2 DEF HasRecord
        <4>3. CASE list[j] # None /\ list[j].name = <<j, k>> /\ j = i
          BY <2>3, <3>4, <4>3 DEF HasRecord
        <4> QED BY <3>5, <4>1, <4>2, <4>3 DEF HasRecord
      <3> QED BY <3>1, <3>2, <3>5
    <2> QED BY <1>4, <1>5, <1>6, <2>7, <2>8, <2>9 DEF Flights
  <1> QED BY <1>7, <1>8

\* An update adds the origin it sends to the flight and to its record alike.
LEMMA UpdateFlight ==
    ASSUME TypeOK, Flights, NEW i \in Ids, NEW x \in Origin, Update(i, x)
    PROVE  Flights'
  <1> DEFINE g == server[i].name
             o == IF x = None THEN seen[g].origins ELSE Append(seen[g].origins, x)
             q == IF x = None THEN seen[g].path ELSE Append(seen[g].path, x)
  <1>1. /\ Known(i) /\ server[i] \in Entity /\ list[i] \in Entity
        /\ server[i] # None /\ list[i] # None /\ list[i].name = g
    BY UpdateType DEF Update, Known
  <1>2. g \in Names /\ g = <<i, uses[i]>> /\ seen[g].origins \in Seq(Places)
    <2>1. g \in Names /\ g = <<i, uses[i]>>
      BY <1>1, RecordNames DEF Flights
    <2> QED BY <2>1 DEF TypeOK
  <1>3. PICK y \in Origin : server' = [server EXCEPT ![i] = [server[i] EXCEPT !.origin = y]]
    BY UpdateType
  <1>4. /\ server'[i].name = g /\ server'[i].class = server[i].class /\ server'[i] \in Entity
        /\ \A j \in Ids \ {i} : server'[j] = server[j]
    BY <1>1, <1>3, MovedEntity DEF TypeOK
  <1>5. /\ list'[i].name = g /\ list'[i].class = list[i].class /\ list'[i] \in Entity
        /\ \A j \in Ids \ {i} : list'[j] = list[j]
    <2> DEFINE l == [list[i] EXCEPT !.origin = x]
    <2>1. l \in Entity /\ l.name = list[i].name /\ l.class = list[i].class
      BY <1>1, MovedEntity
    <2>2. list' = [list EXCEPT ![i] = l]
      BY UpdateType
    <2> HIDE DEF l
    <2> QED BY <1>1, <2>1, <2>2 DEF TypeOK
  <1>6. UNCHANGED <<uses, events, completed>>
    BY DEF Update
  <1>7. seen' = IF x = None THEN seen ELSE [seen EXCEPT ![g].path = q, ![g].origins = o]
    BY DEF Update
  <1>8. /\ \A h \in Names \ {g} : seen'[h] = seen[h]
        /\ seen'[g].origins = o /\ seen'[g].path = q
        /\ seen'[g].blast = seen[g].blast /\ seen'[g].enters = seen[g].enters
        /\ seen'[g].told = seen[g].told /\ seen'[g].replaced = seen[g].replaced
    <2>1. seen \in [Names -> SeenRecord]
      BY DEF TypeOK, SeenRecord
    <2>2. CASE x = None
      BY <1>7, <2>2
    <2>3. CASE x # None
      <3> HIDE DEF o, q
      <3>1. seen' = [seen EXCEPT ![g] = [seen[g] EXCEPT !.path = q, !.origins = o]]
        BY <1>2, <1>7, <2>1, <2>3
      <3> QED BY <1>2, <2>1, <3>1 DEF SeenRecord
    <2> QED BY <2>2, <2>3
  <1> HIDE DEF o, q, g
  <1>9. server'[i] # None /\ list'[i] # None
    BY <1>4, <1>5, GrenadesAssumption
  <1>10. Known(i)' /\ \A j \in Ids \ {i} : Known(j)' <=> Known(j)
    BY <1>4, <1>5, <1>9 DEF Known
  <1>11. NamedAsPlaced'
    <2>1. \A j \in Ids \ {i} :
            /\ server'[j] # None => server'[j].name = <<j, uses'[j]>>
            /\ list'[j] # None => list'[j].name[1] = j /\ list'[j].name[2] <= uses'[j]
            /\ \A d \in {server'[j], list'[j]} \ {None} : d.class = "CCSPlayer" <=> j \in PlayerIds
            /\ Known(j)' => list'[j].class = server'[j].class
      BY <1>4, <1>5, <1>6, <1>10 DEF Flights, NamedAsPlaced
    <2>2. /\ server'[i].name = <<i, uses'[i]>>
          /\ list'[i].name[1] = i /\ list'[i].name[2] <= uses'[i]
      <3>1. uses'[i] = uses[i] /\ uses[i] \in Nat
        BY <1>6 DEF TypeOK
      <3> QED BY <1>2, <1>4, <1>5, <3>1
    <2>3. /\ \A d \in {server[i], list[i]} \ {None} : d.class = "CCSPlayer" <=> i \in PlayerIds
          /\ list[i].class = server[i].class
      BY <1>1 DEF Flights, NamedAsPlaced
    <2>4. /\ \A d \in {server'[i], list'[i]} \ {None} : d.class = "CCSPlayer" <=> i \in PlayerIds
          /\ list'[i].class = server'[i].class
      BY <1>1, <1>4, <1>5, <2>3
    <2> QED BY <2>1, <2>2, <2>4 DEF NamedAsPlaced
  <1>12. CompletedAreGone'
    <2>1. \A n \in DOMAIN completed : completed[n].of[1] \in Ids /\ completed[n].of[2] \in Nat
      BY RecordNames DEF Flights
    <2>2. \A j \in Ids : /\ list'[j] # None <=> list[j] # None
                         /\ server'[j] # None <=> server[j] # None
                         /\ list[j] # None => list'[j].name = list[j].name
      BY <1>1, <1>4, <1>5, <1>9
    <2> QED BY <1>6, <2>1, <2>2 DEF Flights, CompletedAreGone
  <1>13. BlastsUnderWay'
    <2>1. ASSUME NEW e \in events
          PROVE  /\ <<e.id, uses[e.id]>> \in Names
                 /\ seen'[<<e.id, uses[e.id]>>].blast = seen[<<e.id, uses[e.id]>>].blast
                 /\ list'[e.id] # None <=> list[e.id] # None
                 /\ list[e.id] # None => list'[e.id].name = list[e.id].name
      <3>1. e.id \in Ids /\ <<e.id, uses[e.id]>> \in Names
        BY DEF Flights, BlastsUnderWay, TypeOK, Ids
      <3>2. seen'[<<e.id, uses[e.id]>>].blast = seen[<<e.id, uses[e.id]>>].blast
        BY <1>8, <3>1
      <3> QED BY <1>1, <1>5, <1>9, <3>1, <3>2
    <2> QED BY <1>6, <2>1 DEF Flights, BlastsUnderWay
  <1>14. EnteredIsRecorded'
    <2>1. \A j \in Ids, k \in 1 .. MaxUses :
              /\ seen'[<<j, k>>].enters = seen[<<j, k>>].enters
              /\ Uninterrupted(seen'[<<j, k>>]) => Uninterrupted(seen[<<j, k>>])
      BY <1>8 DEF Names, Uninterrupted
    <2>2. \A j \in Ids : /\ list'[j] # None <=> list[j] # None
                         /\ server'[j] # None <=> server[j] # None
                         /\ Known(j)' <=> Known(j)
                         /\ list[j] # None => list'[j].name = list[j].name
      BY <1>1, <1>4, <1>5, <1>9, <1>10
    <2>3. \A j \in Ids, k \in 1 .. MaxUses : HasRecord(j, k) => HasRecord(j, k)'
      BY <1>6, <2>2 DEF HasRecord
    <2> QED BY <1>6, <2>1, <2>2, <2>3 DEF Flights, EnteredIsRecorded
  <1>19. PathsBegin'
    <2>1. seen[g].enters > 0
      BY <1>1 DEF Flights, PathsBegin
    <2>2. seen[g].enters = 1 => q = o
      BY <1>2 DEF Flights, PathsBegin, o, q
    <2>3. \A h \in Names : /\ seen'[h].enters = 0 => seen'[h].path = << >> /\ ~seen'[h].told
                           /\ seen'[h].enters = 1 => seen'[h].path = seen'[h].origins
      BY <1>8, <2>1, <2>2 DEF Flights, PathsBegin
    <2>4. ASSUME NEW j \in Ids, list'[j] # None PROVE seen'[list'[j].name].enters > 0
      <3>1. list[j] # None /\ list'[j].name = list[j].name /\ list[j].name \in Names
        BY <1>1, <1>5, <2>4, RecordNames DEF Flights
      <3>2. seen'[list[j].name].enters = seen[list[j].name].enters
        BY <1>8, <3>1
      <3> QED BY <3>1, <3>2 DEF Flights, PathsBegin
    <2> QED BY <2>3, <2>4 DEF PathsBegin
  <1>15. \A n \in DOMAIN completed : TellsFlight(completed[n], seen'[completed[n].of])
    <2> SUFFICES ASSUME NEW n \in DOMAIN completed
                 PROVE  TellsFlight(completed[n], seen'[completed[n].of])
      OBVIOUS
    <2>1. completed[n].of \in Names /\ completed[n].of[2] \in Nat
      BY RecordNames DEF Flights
    <2>2. completed[n].of # g
      BY <1>1, <1>2, <2>1 DEF Flights, CompletedAreGone
    <2> QED BY <1>8, <2>1, <2>2 DEF Flights, RecordsTellFlights
  <1>16. \A j \in Ids \ {i} : tracked[j] # None => TellsFlight(tracked[j], seen'[tracked[j].of])
    <2>1. \A j \in Ids \ {i} : tracked[j] # None => tracked[j].of \in Names /\ tracked[j].of[1] = j
      BY RecordNames DEF Flights
    <2> QED BY <1>2, <1>8, <2>1 DEF Flights, RecordsTellFlights
  <1>17. CASE tracked[i] = None
    <2>1. tracked' = tracked
      BY <1>17, UpdateType
    <2>2. TrackedAsListed'
      <3>1. \A j \in Ids : /\ list'[j] # None <=> list[j] # None
                           /\ list[j] # None => list'[j].name = list[j].name
        BY <1>1, <1>5, <1>9
      <3> QED BY <2>1, <3>1 DEF Flights, TrackedAsListed
    <2>3. RecordsTellFlights'
      BY <1>6, <1>15, <1>16, <1>17, <2>1 DEF RecordsTellFlights
    <2> QED BY <1>11, <1>12, <1>13, <1>14, <1>19, <2>2, <2>3 DEF Flights
  <1>18. CASE tracked[i] # None
    <2> DEFINE r == SampleOrigin(tracked[i], x)
    <2>1. tracked' = [tracked EXCEPT ![i] = r]
      BY <1>18, UpdateType
    <2>2. tracked[i] \in Trajectory /\ tracked[i].of = g /\ i \in ProjectileIds
      BY <1>1, <1>18, RecordNames DEF Flights, TrackedAsListed
    <2>3. TellsFlight(tracked[i], seen[g])
      BY <1>18, <2>2 DEF Flights, RecordsTellFlights
    <2>4. tick \in Int
      BY DEF TypeOK
    <2>5. r \in Trajectory
      BY <2>2, <2>4, SampleOriginKeeps
    <2>6. /\ Origins(r) = Squeeze(o) /\ r.of = g
          /\ r.blast = tracked[i].blast /\ r.type = tracked[i].type
      BY <1>2, <2>2, <2>3, <2>4, SampleSqueezes DEF TellsFlight, TellsNoOther, o
    <2> HIDE DEF r
    <2>7. tracked'[i] = r /\ \A j \in Ids \ {i} : tracked'[j] = tracked[j]
      BY <2>1 DEF TypeOK
    <2>8. r # None
      BY <2>5, GrenadesAssumption
    <2>9. TrackedAsListed'
      <3>1. \A j \in Ids \ {i} : /\ tracked'[j] # None <=> list'[j] # None /\ j \in ProjectileIds
                                 /\ tracked'[j] # None => tracked'[j].of = list'[j].name
        BY <1>5, <2>7 DEF Flights, TrackedAsListed
      <3> QED BY <1>5, <1>9, <2>2, <2>6, <2>7, <2>8, <3>1 DEF TrackedAsListed
    <2>10. TellsFlight(r, seen'[r.of])
      BY <1>8, <2>3, <2>6 DEF TellsFlight, TellsNoOther
    <2>11. RecordsTellFlights'
      BY <1>6, <1>15, <1>16, <2>7, <2>10 DEF RecordsTellFlights
    <2> QED BY <1>11, <1>12, <1>13, <1>14, <1>19, <2>9, <2>11 DEF Flights
  <1> QED BY <1>17, <1>18

\* A grenade that enters opens a record of its own; what it takes the place of is
\* recorded already, or left behind, or was the same grenade.
LEMMA EnterFlight ==
    ASSUME TypeOK, Flights, NEW i \in Ids, NEW x \in Origin, Enter(i, x)
    PROVE  Flights'
  <1> DEFINE e == [server[i] EXCEPT !.origin = x]
             g == server[i].name
             o == IF x = None THEN << >> ELSE <<x>>
             mismatch == list[i] # None /\ list[i].class # server[i].class
             T == IF mismatch THEN Untracked(i) ELSE tracked
  <1>1. server[i] \in Entity /\ server[i] # None /\ g \in Names /\ g = <<i, uses[i]>> /\ uses[i] \in Nat
    BY RecordNames DEF Flights, Enter
  <1>2. /\ e \in Entity /\ e.name = g /\ e.class = server[i].class /\ e.origin = x
        /\ e.handle = server[i].handle
    BY <1>1, MovedEntity
  <1>3. /\ list' = [list EXCEPT ![i] = e]
        /\ UNCHANGED <<server, uses, events, tick>>
    BY DEF Enter, game
  <1>4. /\ tracked' = OnEntityCreated(list', IF mismatch THEN Untracked(i) ELSE tracked, i)
        /\ completed' = IF mismatch THEN CompletedWith(i) ELSE completed
    BY <1>2 DEF Enter
  <1>5. seen' = [h \in Names |->
            IF h = g THEN [seen[h] EXCEPT !.enters = @ + 1, !.path = @ \o o, !.origins = o]
            ELSE [seen[h] EXCEPT !.replaced = @ \/ (list[i] # None /\ list[i].name = h /\ ~mismatch)]]
    BY <1>2 DEF Enter
  <1> HIDE DEF e, o
  <1>6. list'[i] = e /\ \A j \in Ids \ {i} : list'[j] = list[j]
    BY <1>3 DEF TypeOK
  <1>7. /\ \A h \in Names \ {g} : SameFlight(seen[h], seen'[h])
        /\ seen'[g].origins = o /\ seen'[g].path = seen[g].path \o o
        /\ seen'[g].blast = seen[g].blast /\ seen'[g].told = seen[g].told
        /\ seen[g].enters \in Nat /\ seen'[g].enters = seen[g].enters + 1
    <2>1. seen \in [Names -> SeenRecord]
      BY DEF TypeOK, SeenRecord
    <2>2. seen'[g] = [seen[g] EXCEPT !.enters = @ + 1, !.path = @ \o o, !.origins = o]
      BY <1>1, <1>5
    <2>3. ASSUME NEW h \in Names \ {g} PROVE SameFlight(seen[h], seen'[h])
      <3> DEFINE d == seen[h].replaced \/ (list[i] # None /\ list[i].name = h /\ ~mismatch)
      <3>1. seen'[h] = [seen[h] EXCEPT !.replaced = d]
        BY <1>5
      <3> HIDE DEF d
      <3> QED BY <2>1, <3>1 DEF SeenRecord, SameFlight
    <2> HIDE DEF g
    <2> QED BY <1>1, <2>1, <2>2, <2>3 DEF SeenRecord
  <1>25. ASSUME list[i] # None, list[i].name \in Names, list[i].name # g,
                ~seen'[list[i].name].replaced
         PROVE  mismatch
    <2> DEFINE h == list[i].name
               d == seen[h].replaced \/ (list[i] # None /\ list[i].name = h /\ ~mismatch)
    <2>1. seen \in [Names -> SeenRecord]
      BY DEF TypeOK, SeenRecord
    <2>2. seen'[h] = [seen[h] EXCEPT !.replaced = d]
      BY <1>5, <1>25
    <2>3. seen'[h].replaced = d
      <3> HIDE DEF d, h
      <3> QED BY <1>25, <2>1, <2>2 DEF SeenRecord, h
    <2> QED BY <1>25, <2>3
  <1>26. ASSUME NEW h \in Names \ {g} PROVE ~seen'[h].replaced => ~seen[h].replaced
    <2> DEFINE d == seen[h].replaced \/ (list[i] # None /\ list[i].name = h /\ ~mismatch)
    <2>1. seen \in [Names -> SeenRecord]
      BY DEF TypeOK, SeenRecord
    <2>2. seen'[h] = [seen[h] EXCEPT !.replaced = d]
      BY <1>5
    <2>3. seen'[h].replaced = d
      <3> HIDE DEF d
      <3> QED BY <2>1, <2>2 DEF SeenRecord
    <2> QED BY <2>3
  <1> HIDE DEF g
  <1>8. e # None
    BY <1>2, GrenadesAssumption
  <1>9. Known(i)' /\ \A j \in Ids \ {i} : Known(j)' <=> Known(j)
    BY <1>1, <1>2, <1>3, <1>6, <1>8 DEF Known, g
  <1>10. NamedAsPlaced'
    <2>1. \A j \in Ids \ {i} :
            /\ server'[j] # None => server'[j].name = <<j, uses'[j]>>
            /\ list'[j] # None => list'[j].name[1] = j /\ list'[j].name[2] <= uses'[j]
            /\ \A d \in {server'[j], list'[j]} \ {None} : d.class = "CCSPlayer" <=> j \in PlayerIds
            /\ Known(j)' => list'[j].class = server'[j].class
      BY <1>3, <1>6, <1>9 DEF Flights, NamedAsPlaced
    <2>2. /\ server'[i].name = <<i, uses'[i]>>
          /\ list'[i].name[1] = i /\ list'[i].name[2] <= uses'[i]
      BY <1>1, <1>2, <1>3, <1>6 DEF g
    <2>3. \A d \in {server[i], list[i]} \ {None} : d.class = "CCSPlayer" <=> i \in PlayerIds
      BY DEF Flights, NamedAsPlaced
    <2>4. /\ \A d \in {server'[i], list'[i]} \ {None} : d.class = "CCSPlayer" <=> i \in PlayerIds
          /\ list'[i].class = server'[i].class
      BY <1>1, <1>2, <1>3, <1>6, <2>3
    <2> QED BY <2>1, <2>2, <2>4 DEF NamedAsPlaced
  <1>11. BlastsUnderWay'
    <2>1. ASSUME NEW d \in events
          PROVE  /\ <<d.id, uses[d.id]>> \in Names
                 /\ seen'[<<d.id, uses[d.id]>>].blast = seen[<<d.id, uses[d.id]>>].blast
                 /\ list'[d.id] # None => list'[d.id].name = <<d.id, uses[d.id]>>
      <3>1. d.id \in Ids /\ <<d.id, uses[d.id]>> \in Names
        BY DEF Flights, BlastsUnderWay, TypeOK, Ids
      <3>2. seen'[<<d.id, uses[d.id]>>].blast = seen[<<d.id, uses[d.id]>>].blast
        BY <1>7, <3>1 DEF SameFlight
      <3>3. list'[d.id] # None => list'[d.id].name = <<d.id, uses[d.id]>>
        BY <1>1, <1>2, <1>6, <3>1 DEF Flights, BlastsUnderWay
      <3> QED BY <3>1, <3>2, <3>3
    <2> QED BY <1>3, <2>1 DEF Flights, BlastsUnderWay
  <1>12. list[i] # None => /\ list[i].name = <<i, list[i].name[2]>>
                           /\ list[i].name[2] \in 1 .. uses[i]
                           /\ list[i].name \in Names
    BY RecordNames DEF Flights
  <1>13. mismatch => list[i].name # g /\ list[i].name[2] < uses[i]
    <2>1. ASSUME mismatch PROVE list[i].name # g
      <3>1. ~ Known(i)
        BY <2>1 DEF Flights, NamedAsPlaced
      <3> QED BY <1>1, <2>1, <3>1 DEF Known, g
    <2> QED BY <1>1, <1>12, <2>1
  <1>14. \A n \in DOMAIN completed :
            /\ completed[n].of \in Names /\ completed[n].of # g
            /\ completed[n].of[1] \in Ids /\ completed[n].of[2] \in Nat
            /\ completed[n].of[1] = i => completed[n].of[2] < uses[i]
    BY <1>1, RecordNames DEF Flights, CompletedAreGone
  <1>15. \A j \in Ids \ {i} : tracked[j] # None => tracked[j].of \in Names /\ tracked[j].of # g
    BY <1>1, RecordNames DEF Flights
  <1>16. /\ \A j \in Ids \ {i} : tracked[j] # None => TellsFlight(tracked[j], seen'[tracked[j].of])
         /\ \A n \in DOMAIN completed : TellsFlight(completed[n], seen'[completed[n].of])
    BY <1>7, <1>14, <1>15, ToldAlike DEF Flights, RecordsTellFlights
  <1>17. ASSUME NEW j \in Ids, NEW k \in 1 .. MaxUses, seen'[<<j, k>>].enters > 0
         PROVE  \/ j = i /\ k = uses[i]
                \/ seen[<<j, k>>].enters > 0
    <2>1. <<j, k>> \in Names
      BY DEF Names
    <2>2. CASE <<j, k>> = g
      BY <1>1, <2>2
    <2>3. CASE <<j, k>> # g
      BY <1>7, <1>17, <2>1, <2>3 DEF SameFlight
    <2> QED BY <2>2, <2>3
  \* The completed records: those there were, and perhaps that of a grenade that is
  \* not the one entering.
  <1>18. /\ CompletedAreGone'
         /\ \A n \in DOMAIN completed' : TellsFlight(completed'[n], seen'[completed'[n].of])
         /\ \A n \in DOMAIN completed : n \in DOMAIN completed' /\ completed'[n] = completed[n]
         /\ mismatch /\ tracked[i] # None => \E n \in DOMAIN completed' : completed'[n] = tracked[i]
    <2>1. CASE ~ (mismatch /\ tracked[i] # None)
      <3>1. completed' = completed
        BY <1>4, <2>1 DEF CompletedWith
      <3>2. CompletedAreGone'
        BY <1>1, <1>2, <1>3, <1>6, <1>14, <3>1 DEF Flights, CompletedAreGone, g
      <3> QED BY <1>16, <2>1, <3>1, <3>2
    <2>2. CASE mismatch /\ tracked[i] # None
      <3>1. mismatch /\ tracked[i] # None /\ completed' = Append(completed, tracked[i])
        BY <1>4, <2>2 DEF CompletedWith
      <3> DEFINE r == tracked[i]
                 N == Len(completed)
      <3>2. /\ N \in Nat /\ DOMAIN completed = 1 .. N /\ DOMAIN completed' = 1 .. N + 1
            /\ completed'[N + 1] = r /\ \A n \in DOMAIN completed : completed'[n] = completed[n]
            /\ \A m, n \in DOMAIN completed' : m # n => completed'[m].of # completed'[n].of
        BY <3>1, CompletedGrow
      <3>3. r.of[1] = i /\ r.of = list[i].name /\ list[i] # None
        BY <3>1, RecordNames DEF Flights
      <3>4. r.of # g /\ r.of \in Names /\ r.of[2] < uses[i] /\ r.of[2] \in Nat
        BY <1>1, <1>12, <1>13, <3>1, <3>3
      <3>5. TellsFlight(r, seen'[r.of])
        BY <1>7, <3>1, <3>4, ToldAlike DEF Flights, RecordsTellFlights
      <3>9. \E n \in DOMAIN completed' : completed'[n] = tracked[i]
        <4>1. N + 1 \in DOMAIN completed'
          BY <3>2
        <4> QED BY <3>2, <4>1
      <3> HIDE DEF r, N, mismatch
      <3>6. \A n \in DOMAIN completed' :
                \/ n \in DOMAIN completed /\ completed'[n] = completed[n]
                \/ n = N + 1 /\ completed'[n] = r
        BY <3>2
      <3>7. list'[i].name[2] = uses[i]
        BY <1>1, <1>2, <1>6 DEF g
      <3>8. CompletedAreGone'
        <4> SUFFICES ASSUME NEW n \in DOMAIN completed'
                     PROVE  /\ server'[completed'[n].of[1]] # None => completed'[n].of[2] < uses'[completed'[n].of[1]]
                            /\ list'[completed'[n].of[1]] # None =>
                                  completed'[n].of[2] < list'[completed'[n].of[1]].name[2]
                            /\ completed'[n].of[2] <= uses'[completed'[n].of[1]]
          BY <3>2 DEF CompletedAreGone
        <4>1. CASE n \in DOMAIN completed /\ completed'[n] = completed[n]
          BY <1>1, <1>3, <1>6, <1>14, <3>7, <4>1 DEF Flights, CompletedAreGone
        <4>2. CASE completed'[n] = r
          BY <1>1, <1>3, <3>3, <3>4, <3>7, <4>2
        <4> QED BY <3>6, <4>1, <4>2
      <3> QED BY <1>16, <3>2, <3>5, <3>6, <3>8, <3>9
    <2> QED BY <2>1, <2>2
  <1>19. /\ T \in [Ids -> Trajectory \cup {None}]
         /\ \A j \in Ids \ {i} : T[j] = tracked[j]
         /\ T[i] = tracked[i] \/ (T[i] = None /\ mismatch)
    BY DEF TypeOK, Untracked
  <1>20. list' \in [Ids -> Entity \cup {None}] /\ list'[i] \in Entity /\ tick \in Int
    BY <1>2, <1>3 DEF TypeOK
  <1>21. \A j \in Ids \ {i} : tracked'[j] = tracked[j]
    <2>1. tracked' = OnEntityCreated(list', T, i)
      BY <1>4
    <2> HIDE DEF T
    <2> QED BY <1>19, <1>20, <2>1, CreatedRecord
  <1>22. EnteredIsRecorded'
    <2> SUFFICES ASSUME NEW j \in Ids, NEW k \in 1 .. MaxUses, seen'[<<j, k>>].enters > 0
                 PROVE  /\ k <= uses[j]
                        /\ server[j] # None /\ k = uses[j] => Known(j)'
                        /\ j \in ProjectileIds /\ Uninterrupted(seen'[<<j, k>>]) => HasRecord(j, k)'
      BY <1>3 DEF EnteredIsRecorded
    <2>1. CASE j = i /\ k = uses[i]
      <3>1. list'[i] # None /\ list'[i].name = <<j, k>>
        BY <1>1, <1>2, <1>6, <1>8, <2>1
      <3>2. HasRecord(j, k)'
        BY <2>1, <3>1 DEF HasRecord
      <3> QED BY <1>1, <1>9, <2>1, <3>2
    <2>2. CASE seen[<<j, k>>].enters > 0 /\ <<j, k>> # g
      <3>1. /\ k <= uses[j]
            /\ server[j] # None /\ k = uses[j] => Known(j)
            /\ j \in ProjectileIds /\ Uninterrupted(seen[<<j, k>>]) => HasRecord(j, k)
        BY <2>2 DEF Flights, EnteredIsRecorded
      <3>2. server[j] # None /\ k = uses[j] => Known(j)'
        BY <1>9, <3>1
      <3>3. ASSUME j \in ProjectileIds, Uninterrupted(seen'[<<j, k>>]) PROVE HasRecord(j, k)'
        <4>1. <<j, k>> \in Names \ {g}
          BY <2>2 DEF Names
        <4>2. Uninterrupted(seen[<<j, k>>])
          BY <1>7, <1>26, <3>3, <4>1 DEF Uninterrupted, SameFlight
        <4>3. HasRecord(j, k)
          BY <3>1, <3>3, <4>2
        <4>4. CASE \E n \in DOMAIN completed : completed[n].of = <<j, k>>
          BY <1>18, <4>4 DEF HasRecord
        <4>5. CASE list[j] # None /\ list[j].name = <<j, k>> /\ j # i
          BY <1>6, <4>5 DEF HasRecord
        <4>6. CASE list[j] # None /\ list[j].name = <<j, k>> /\ j = i
          <5>1. mismatch
            <6>1. list[i].name \in Names /\ list[i].name # g /\ ~seen'[list[i].name].replaced
              BY <3>3, <4>1, <4>6 DEF Uninterrupted
            <6> QED BY <1>25, <4>6, <6>1
          <5>2. tracked[i] # None /\ tracked[i].of = <<j, k>>
            BY <3>3, <4>6 DEF Flights, TrackedAsListed
          <5> QED BY <1>18, <5>1, <5>2 DEF HasRecord
        <4> QED BY <4>3, <4>4, <4>5, <4>6 DEF HasRecord
      <3> QED BY <3>1, <3>2, <3>3
    <2>3. <<j, k>> # g \/ (j = i /\ k = uses[i])
      BY <1>1
    <2> QED BY <1>17, <2>1, <2>2, <2>3
  <1>27. PathsBegin'
    <2>1. seen'[g].enters = 1 => seen'[g].path = seen'[g].origins
      <3>1. o \in Seq(Places)
        BY DEF o, Origin
      <3>2. << >> \o o = o
        BY <3>1
      <3>3. seen[g].enters = 0 => seen[g].path = << >>
        BY <1>1 DEF Flights, PathsBegin
      <3>4. seen'[g].enters = 1 => seen[g].enters = 0
        BY <1>7
      <3> QED BY <1>7, <3>2, <3>3, <3>4
    <2>2. seen'[g].enters > 0 /\ seen'[g].enters # 0
      BY <1>7
    <2>3. ASSUME NEW h \in Names
          PROVE  /\ seen'[h].enters = 0 => seen'[h].path = << >> /\ ~seen'[h].told
                 /\ seen'[h].enters = 1 => seen'[h].path = seen'[h].origins
      <3>1. CASE h = g
        BY <2>1, <2>2, <3>1
      <3>2. CASE h # g
        <4>1. SameFlight(seen[h], seen'[h])
          BY <1>7, <3>2
        <4> QED BY <4>1 DEF Flights, PathsBegin, SameFlight
      <3> QED BY <3>1, <3>2
    <2>4. ASSUME NEW j \in Ids, list'[j] # None PROVE seen'[list'[j].name].enters > 0
      <3>1. CASE j = i
        BY <1>2, <1>6, <2>2, <3>1
      <3>2. CASE j # i
        <4>1. list'[j] = list[j] /\ list[j].name \in Names /\ list[j].name # g
          BY <1>1, <1>6, <2>4, <3>2, RecordNames DEF Flights
        <4>2. SameFlight(seen[list[j].name], seen'[list[j].name])
          BY <1>7, <4>1
        <4> QED BY <2>4, <4>1, <4>2 DEF Flights, PathsBegin, SameFlight
      <3> QED BY <3>1, <3>2
    <2> QED BY <2>3, <2>4 DEF PathsBegin
  \* The record of the one entering.
  <1>23. CASE i \in PlayerIds
    <2>1. server[i].class = "CCSPlayer" /\ (list[i] # None => list[i].class = "CCSPlayer")
      BY <1>1, <1>23 DEF Flights, NamedAsPlaced
    <2>2. ~ mismatch /\ T = tracked
      BY <2>1
    <2>3. tracked' = tracked
      <3>1. "CCSPlayer" \notin DOMAIN TypeOfClass
        BY DEF TypeOfClass, ProjectileClasses
      <3> QED BY <1>2, <1>4, <1>6, <2>1, <2>2, <3>1 DEF OnEntityCreated
    <2>4. i \notin ProjectileIds
      BY <1>23, GrenadesAssumption
    <2>5. TrackedAsListed'
      BY <1>6, <2>3, <2>4 DEF Flights, TrackedAsListed
    <2>6. tracked[i] = None
      BY <2>4 DEF Flights, TrackedAsListed
    <2>7. RecordsTellFlights'
      BY <1>16, <1>18, <2>3, <2>6 DEF RecordsTellFlights
    <2> QED BY <1>10, <1>11, <1>18, <1>22, <1>27, <2>5, <2>7 DEF Flights
  <1>24. CASE i \notin PlayerIds
    <2> DEFINE t == ResolveThrower(list', e.handle)
               record == [of |-> e.name, thrower |-> t, type |-> TypeOfClass[e.class],
                          trajectory |-> << >>, throwTick |-> tick, blast |-> None]
               r == SampleOrigin(record, x)
    <2>1. e.class \in DOMAIN TypeOfClass /\ TypeOfClass[e.class] \in GrenadeTypes
      <3>1. e.class # "CCSPlayer"
        BY <1>1, <1>2, <1>24 DEF Flights, NamedAsPlaced
      <3>2. e.class \in ProjectileClasses
        BY <1>2, <3>1 DEF Entity
      <3> QED BY <3>2 DEF TypeOfClass, GrenadeTypes
    <2>2. tracked' = [T EXCEPT ![i] = r]
      <3> HIDE DEF T
      <3>1. tracked' = OnEntityCreated(list', T, i)
        BY <1>4 DEF T
      <3> QED BY <1>2, <1>6, <2>1, <3>1 DEF OnEntityCreated
    <2>3. t \in Names \cup {None}
      BY <1>20, ThrowerIsListed
    <2> HIDE DEF t, T
    <2>4. /\ record \in Trajectory /\ record.of = g /\ record.blast = None
          /\ Origins(record) = Squeeze(<< >>)
      <3>1. << >> \in Seq([origin : Places, tick : Int])
        OBVIOUS
      <3>2. record \in Trajectory /\ record.of = g /\ record.blast = None
        BY <1>1, <1>2, <1>20, <2>1, <2>3, <3>1 DEF Trajectory
      <3>3. Origins(record) = << >>
        BY DEF Origins
      <3> QED BY <3>2, <3>3, SqueezeNone
    <2> HIDE DEF record
    <2>5. r \in Trajectory
      BY <1>20, <2>4, SampleOriginKeeps
    <2>6. << >> \in Seq(Places)
      OBVIOUS
    <2>7. /\ Origins(r) = Squeeze(IF x = None THEN << >> ELSE Append(<< >>, x))
          /\ r.of = g /\ r.blast = None
      BY <1>20, <2>4, <2>6, SampleSqueezes
    <2> HIDE DEF r
    <2>8. Origins(r) = Squeeze(o)
      <3>1. o = IF x = None THEN << >> ELSE Append(<< >>, x)
        BY DEF o
      <3> QED BY <2>7, <3>1
    <2>9. tracked'[i] = r
      BY <1>19, <2>2
    <2>10. r # None /\ i \in ProjectileIds
      BY <1>24, <2>5, GrenadesAssumption DEF Ids
    <2>11. TrackedAsListed'
      <3>1. \A j \in Ids \ {i} : /\ tracked'[j] # None <=> list'[j] # None /\ j \in ProjectileIds
                                 /\ tracked'[j] # None => tracked'[j].of = list'[j].name
        BY <1>6, <1>21 DEF Flights, TrackedAsListed
      <3> QED BY <1>2, <1>6, <1>8, <2>7, <2>9, <2>10, <3>1 DEF TrackedAsListed
    <2>12. TellsFlight(r, seen'[r.of])
      <3>1. seen'[g].enters = 1 => ~seen'[g].told
        BY <1>1, <1>7 DEF Flights, PathsBegin
      <3> QED BY <1>7, <2>7, <2>8, <3>1 DEF TellsFlight, TellsNoOther
    <2>13. RecordsTellFlights'
      BY <1>16, <1>18, <1>21, <2>9, <2>12 DEF RecordsTellFlights
    <2> QED BY <1>10, <1>11, <1>18, <1>22, <1>27, <2>11, <2>13 DEF Flights
  <1> QED BY <1>23, <1>24

LEMMA JoinFlight ==
    ASSUME TypeOK, TypeOK', Flights, NEW i \in PlayerIds, Join(i)
    PROVE  Flights'
  <1> DEFINE e == [name |-> Named(i), serial |-> NewSerial(i), class |-> "CCSPlayer",
                   origin |-> None, handle |-> InvalidHandle]
  <1>1. i \in Ids /\ Free(i)
    BY DEF Ids, Join
  <1>2. InvalidHandle \in Int
    BY HandlesAssumption DEF InvalidHandle
  <1>3. e \in Entity
    BY <1>1, <1>2, NewName, HandlesAssumption DEF Entity, Origin
  <1>4. e.name = Named(i) /\ e.class = "CCSPlayer"
    OBVIOUS
  <1>5. /\ server' = [server EXCEPT ![i] = e] /\ uses' = [uses EXCEPT ![i] = uses[i] + 1]
        /\ UNCHANGED <<events, list, tracked, completed>> /\ seen' = seen
    BY DEF Join, tracker
  <1>6. \A g \in Names : SameFlight(seen[g], seen'[g]) /\ seen'[g].replaced = seen[g].replaced
    BY <1>5 DEF SameFlight
  <1> HIDE DEF e
  <1> QED BY <1>1, <1>3, <1>4, <1>5, <1>6, AppearFlight

LEMMA ThrowFlight ==
    ASSUME TypeOK, TypeOK', Flights, NEW i \in ProjectileIds, NEW p \in PlayerIds \cup {None},
           NEW c \in Classes, NEW x \in Places, Throw(i, p, c, x)
    PROVE  Flights'
  <1> DEFINE h == IF p = None THEN EmptyPacked ELSE PackedHandle(p, server[p].serial)
             e == [name |-> Named(i), serial |-> NewSerial(i), class |-> c, origin |-> x,
                   handle |-> h]
             by == IF p = None THEN None ELSE server[p].name
  <1>1. i \in Ids /\ Free(i) /\ i \notin PlayerIds /\ c # "CCSPlayer" /\ Named(i) \in Names
    BY NewName, GrenadesAssumption DEF Ids, Throw, ProjectileClasses
  <1>2. /\ server' = [server EXCEPT ![i] = e] /\ uses' = [uses EXCEPT ![i] = uses[i] + 1]
        /\ UNCHANGED <<events, list, tracked, completed>>
        /\ seen' = [seen EXCEPT ![Named(i)].by = by]
    BY DEF Throw, tracker
  <1>3. e.name = Named(i) /\ e.class = c
    OBVIOUS
  <1> HIDE DEF h, by
  <1>4. \A g \in Names : SameFlight(seen[g], seen'[g]) /\ seen'[g].replaced = seen[g].replaced
    <2>1. seen \in [Names -> SeenRecord]
      BY DEF TypeOK, SeenRecord
    <2> QED BY <1>1, <1>2, <2>1 DEF SeenRecord, SameFlight
  <1>5. e \in Entity
    <2>1. h \in Int
      <3>1. p # None => p \in Ids /\ p \in Int /\ server[p] \in Entity
        BY GrenadesAssumption, HandlesAssumption DEF Ids, Throw, TypeOK
      <3>2. p # None => server[p].serial \in Int
        BY <3>1 DEF Entity
      <3> QED
        BY <3>1, <3>2, HandlesAssumption DEF h, EmptyPacked, PackedHandle
    <2> QED
      BY <1>1, <2>1, NewName, HandlesAssumption, GrenadesAssumption DEF Entity, Origin
  <1> HIDE DEF e
  <1> QED BY <1>1, <1>2, <1>3, <1>4, <1>5, AppearFlight

LEMMA FlightStep ==
    ASSUME TypeOK, TypeOK', Flights, [Next]_vars
    PROVE  Flights'
  <1>1. CASE UNCHANGED vars
    BY <1>1, IdleFlight DEF vars, game, tracker
  <1>2. CASE Next
    <2>1. ASSUME NEW i \in PlayerIds, Join(i) PROVE Flights'
      BY <2>1, JoinFlight
    <2>2. ASSUME NEW i \in ProjectileIds, NEW p \in PlayerIds \cup {None}, NEW c \in Classes,
                 NEW x \in Places, Throw(i, p, c, x)
          PROVE  Flights'
      BY <2>2, ThrowFlight
    <2>3. ASSUME NEW i \in Ids, Vanish(i) PROVE Flights'
      BY <2>3, VanishFlight
    <2>4. ASSUME NEW i \in ProjectileIds, NEW type \in GrenadeTypes, Detonate(i, type)
          PROVE  Flights'
      BY <2>4, DetonateFlight
    <2>5. ASSUME NEW t \in 0 .. MaxTick, NextFrame(t) PROVE Flights'
      BY <2>5, IdleFlight DEF NextFrame, tracker, game
    <2>6. ASSUME NEW i \in Ids, NEW x \in Origin, Enter(i, x) PROVE Flights'
      BY <2>6, EnterFlight
    <2>7. ASSUME NEW i \in Ids, NEW x \in Origin, Update(i, x) PROVE Flights'
      BY <2>7, UpdateFlight
    <2>8. ASSUME NEW i \in Ids, Leave(i) PROVE Flights'
      BY <2>8, IdleFlight DEF Leave, tracker, game
    <2>9. ASSUME NEW i \in Ids, Delete(i) PROVE Flights'
      BY <2>9, DeleteFlight
    <2>10. ASSUME NEW e \in events, GameEvent(e) PROVE Flights'
      BY <2>10, GameEventFlight
    <2> QED
      BY <1>2, <2>1, <2>2, <2>3, <2>4, <2>5, <2>6, <2>7, <2>8, <2>9, <2>10 DEF Next, Origin
  <1> QED
    BY <1>1, <1>2

\* The whole flight of a grenade that was not interrupted, and no record of two.
LEMMA FlightsWhole == TypeOK /\ Flights => FlightIsWhole
  <1> SUFFICES ASSUME TypeOK, Flights PROVE FlightIsWhole
    OBVIOUS
  <1>1. ASSUME NEW r \in Snapshot PROVE TellsFlight(r, seen[r.of])
    BY DEF Snapshot, Flights, RecordsTellFlights
  <1>2. \A m, n \in DOMAIN completed : m # n => completed[m].of # completed[n].of
    BY DEF Flights, CompletedAreGone
  <1>3. ASSUME NEW n \in DOMAIN completed, NEW i \in Ids, tracked[i] # None
        PROVE  completed[n].of # tracked[i].of
    <2>1. tracked[i].of = list[i].name /\ list[i] # None /\ list[i].name[2] \in Nat /\ tracked[i].of[1] = i
      <3>1. /\ tracked[i].of = list[i].name /\ list[i] # None /\ tracked[i].of[1] = i
            /\ list[i].name[2] \in 1 .. uses[i] /\ uses[i] \in Nat
        BY <1>3, RecordNames DEF Flights
      <3> QED BY <3>1
    <2>2. /\ completed[n].of[2] \in Nat
          /\ completed[n].of[1] = i => completed[n].of[2] < list[i].name[2]
      BY <2>1, RecordNames DEF Flights, CompletedAreGone
    <2> QED BY <2>1, <2>2
  <1>4. ASSUME NEW g \in Projectiles, Uninterrupted(seen[g]) PROVE HasWholeFlight(g)
    <2>1. PICK i \in ProjectileIds, k \in 1 .. MaxUses : g = <<i, k>>
      BY DEF Projectiles
    <2>2. i \in Ids /\ g \in Names /\ seen[g].enters = 1
      BY <1>4, <2>1 DEF Ids, Names, Uninterrupted
    <2>3. HasRecord(i, k)
      BY <1>4, <2>1, <2>2 DEF Flights, EnteredIsRecorded
    <2>4. PICK r \in Snapshot : r.of = g
      <3>1. CASE list[i] # None /\ list[i].name = <<i, k>>
        <4>1. tracked[i] # None /\ tracked[i].of = g
          BY <2>1, <2>2, <3>1 DEF Flights, TrackedAsListed
        <4> QED BY <2>2, <4>1 DEF Snapshot
      <3>2. CASE \E n \in DOMAIN completed : completed[n].of = <<i, k>>
        <4>1. PICK n \in DOMAIN completed : completed[n].of = g
          BY <2>1, <3>2
        <4>2. completed[n] # None
          BY RecordNames, GrenadesAssumption DEF Flights
        <4> QED BY <4>1, <4>2 DEF Snapshot
      <3> QED BY <2>3, <3>1, <3>2 DEF HasRecord
    <2>5. TellsFlight(r, seen[g])
      BY <1>1, <2>4
    <2>6. seen[g].path = seen[g].origins
      BY <2>2 DEF Flights, PathsBegin
    <2>7. Origins(r) = Squeeze(seen[g].path) /\ TellsNoOther(r, seen[g]) /\ (seen[g].told => r.blast # None)
      BY <2>2, <2>5, <2>6 DEF TellsFlight, TellsNoOther
    <2> QED BY <2>4, <2>7 DEF HasWholeFlight
  <1>5. \A r \in Snapshot : TellsNoOther(r, seen[r.of])
    BY <1>1 DEF TellsFlight
  <1> QED BY <1>2, <1>3, <1>4, <1>5 DEF FlightIsWhole

\* A grenade that entered once and that no other of its class took the place of has a
\* record of its whole flight, from the first origin the demo sent to the last, with its
\* explosion if the demo told that while the parser had it, whichever of the explosion's
\* event and the deletion came first; and no record tells of two grenades, or of one that
\* has another.
THEOREM FlightsAreWhole == Spec => []FlightIsWhole
  <1>1. TypeOK /\ TypeOK' /\ Flights /\ [Next]_vars => Flights'
    BY FlightStep
  <1> QED
    BY <1>1, FlightInit, FlightsWhole, TypeInvariant, PTL DEF Spec
=============================================================================
