----------------------------- MODULE EventsProofs -----------------------------
(***************************************************************************)
(* Theorems about Events, for any number of slots and users and any lists  *)
(* of events whose player keys are numbers: the seats, the entities and    *)
(* the memoized players stay together, so that everyone mentioned is who   *)
(* the server named, with the values the server sent.                      *)
(***************************************************************************)
EXTENDS Events, FiniteSetTheorems, TLAPS

-----------------------------------------------------------------------------
(* The enrichers *)

FieldsOnce(S) == \A n, m \in S : n.field = m.field => n = m

Told(e) == FieldsOnce(e.needs \cup e.may) /\ FieldsOnce(e.reads)

LEMMA FieldNames ==
    ASSUME NEW f, NEW k
    PROVE  /\ Named(f, k).field = f /\ NonZero(f, k).field = f
           /\ Number(f, k).field = f /\ Text(f, k).field = f
           /\ Flag(f, k).field = f /\ NumberOrFlag(f, k).field = f
  BY DEF Named, NonZero, Number, Text, Flag, NumberOrFlag

\* No enricher fills a field twice.
LEMMA FieldsToldOnce ==
    ASSUME NEW name \in DOMAIN enricherTable
    PROVE  Told(enricherTable[name])
  <1>1. /\ Told(enrichBombAbortDefuse) /\ Told(enrichBombAbortPlant)
        /\ Told(enrichBombBeginDefuse) /\ Told(enrichBombBeginPlant)
        /\ Told(enrichBombDefused) /\ Told(enrichBombDropped)
    BY FieldNames, SMTT(30) DEF Told, FieldsOnce, Enricher, RoundEvent, Player, Thrower, Position,
       enrichBombAbortDefuse, enrichBombAbortPlant, enrichBombBeginDefuse,
       enrichBombBeginPlant, enrichBombDefused, enrichBombDropped
  <1>2. /\ Told(enrichBombExploded) /\ Told(enrichBombPickedUp)
        /\ Told(enrichBombPlanted)
    BY FieldNames, SMTT(30) DEF Told, FieldsOnce, Enricher, RoundEvent, Player, Thrower, Position,
       enrichBombExploded, enrichBombPickedUp, enrichBombPlanted
  <1>3. /\ Told(enrichBulletImpact) /\ Told(enrichOtherDeath)
        /\ Told(enrichPlayerBlind) /\ Told(enrichPlayerDeath)
        /\ Told(enrichPlayerGivenC4) /\ Told(enrichPlayerHurt)
    BY FieldNames, SMTT(30) DEF Told, FieldsOnce, Enricher, RoundEvent, Player, Thrower, Position,
       enrichBulletImpact, enrichOtherDeath, enrichPlayerBlind, enrichPlayerDeath,
       enrichPlayerGivenC4, enrichPlayerHurt
  <1>4. /\ Told(enrichPlayerSpawned) /\ Told(enrichBotTakeover)
        /\ Told(enrichRoundMvp)
    BY FieldNames, SMTT(30) DEF Told, FieldsOnce, Enricher, RoundEvent, Player, Thrower, Position,
       enrichPlayerSpawned, enrichBotTakeover, enrichRoundMvp
  <1>5. /\ Told(enrichDecoyDetonate) /\ Told(enrichFlashbangDetonate)
        /\ Told(enrichGrenadeBounce) /\ Told(enrichGrenadeThrown)
        /\ Told(enrichHeGrenadeDetonate) /\ Told(enrichMolotovDetonate)
    BY FieldNames, SMTT(30) DEF Told, FieldsOnce, Enricher, RoundEvent, Player, Thrower, Position,
       enrichDecoyDetonate, enrichFlashbangDetonate, enrichGrenadeBounce,
       enrichGrenadeThrown, enrichHeGrenadeDetonate, enrichMolotovDetonate
  <1>6. /\ Told(enrichSmokeGrenadeDetonate) /\ Told(enrichSmokeGrenadeExpired)
        /\ Told(enrichInfernoExpired)
    BY FieldNames, SMTT(30) DEF Told, FieldsOnce, Enricher, RoundEvent, Player, Thrower, Position,
       enrichSmokeGrenadeDetonate, enrichSmokeGrenadeExpired, enrichInfernoExpired
  <1>7. /\ Told(enrichHostageHurt) /\ Told(enrichHostagePickedUp)
        /\ Told(enrichHostageRescued) /\ Told(enrichItemEquip)
        /\ Told(enrichItemPickup) /\ Told(enrichItemPurchase)
    BY FieldNames, SMTT(30) DEF Told, FieldsOnce, Enricher, RoundEvent, Player, Thrower, Position,
       enrichHostageHurt, enrichHostagePickedUp, enrichHostageRescued, enrichItemEquip,
       enrichItemPickup, enrichItemPurchase
  <1>8. /\ Told(enrichWeaponFire) /\ Told(enrichWeaponReload)
        /\ Told(enrichWeaponZoom)
    BY FieldNames, SMTT(30) DEF Told, FieldsOnce, Enricher, RoundEvent, Player, Thrower, Position,
       enrichWeaponFire, enrichWeaponReload, enrichWeaponZoom
  <1>9. /\ Told(enrichPlayerConnect) /\ Told(enrichPlayerDisconnect)
        /\ Told(enrichPlayerTeamChange)
    BY FieldNames, SMTT(30) DEF Told, FieldsOnce, Enricher, RoundEvent, Player, Thrower, Position,
       enrichPlayerConnect, enrichPlayerDisconnect, enrichPlayerTeamChange
  <1>10. /\ Told(enrichRoundEnd) /\ Told(enrichRoundFreezeEnd)
         /\ Told(enrichRoundPoststart) /\ Told(enrichRoundPrestart)
         /\ Told(enrichRoundStart) /\ Told(enrichAnnouncePhaseEnd)
    BY FieldNames, SMTT(30) DEF Told, FieldsOnce, Enricher, RoundEvent, Player, Thrower, Position,
       enrichRoundEnd, enrichRoundFreezeEnd, enrichRoundPoststart, enrichRoundPrestart,
       enrichRoundStart, enrichAnnouncePhaseEnd
  <1>11. /\ Told(enrichBeginNewMatch) /\ Told(enrichCsWinPanelMatch)
         /\ Told(enrichCsWinPanelRound) /\ Told(enrichMatchEndConditions)
    BY FieldNames, SMTT(30) DEF Told, FieldsOnce, Enricher, RoundEvent, Player, Thrower, Position,
       enrichBeginNewMatch, enrichCsWinPanelMatch, enrichCsWinPanelRound,
       enrichMatchEndConditions
  <1> QED BY <1>1, <1>2, <1>3, <1>4, <1>5, <1>6, <1>7, <1>8, <1>9, <1>10, <1>11, SMTT(60) DEF enricherTable

\* The names the parser gives to events of its own are none of the server's.
LEMMA NamesApart ==
    /\ "gameEvent" \notin DOMAIN enricherTable
    /\ "gameEventEnrichmentSkipped" \notin DOMAIN enricherTable
    /\ "gameEventDecodeError" \notin DOMAIN enricherTable
    /\ "chatMessage" \notin DOMAIN enricherTable
    /\ "voiceData" \notin DOMAIN enricherTable
  BY DEF enricherTable

-----------------------------------------------------------------------------
(* The descriptor table and the cells *)

\* A description of which every key has a known type keeps all of them.
LEMMA AllKnown ==
    ASSUME NEW keys \in Seq([name : STRING, type : Nat]),
           \A i \in DOMAIN keys : keys[i].type \in 1..7
    PROVE  KnownKeys(keys) = [i \in 1..Len(keys) |->
               [name |-> keys[i].name, type |-> EventKeyTypes[keys[i].type]]]
  <1> DEFINE L == Len(keys)
             known == {i \in DOMAIN keys : eventKeyTypeFromWire(keys[i].type) # None}
             Nth(n) == CHOOSE i \in known : Cardinality({j \in known : j <= i}) = n
  <1>1. L \in Nat /\ DOMAIN keys = 1..L
    OBVIOUS
  <1>2. \A i \in DOMAIN keys : eventKeyTypeFromWire(keys[i].type) = EventKeyTypes[keys[i].type]
    BY DEF eventKeyTypeFromWire
  <1>3. known = 1..L
    BY <1>1, <1>2, EventsAssumption
  <1>4. \A i \in 1..L : Cardinality({j \in known : j <= i}) = i
    <2> SUFFICES ASSUME NEW i \in 1..L
                 PROVE  Cardinality({j \in known : j <= i}) = i
      OBVIOUS
    <2>1. {j \in known : j <= i} = 1..i
      BY <1>1, <1>3
    <2>2. Cardinality(1..i) = i
      BY <1>1, FS_Interval
    <2> QED BY <2>1, <2>2
  <1>5. Cardinality(known) = L
    <2> HIDE DEF L
    <2>1. Cardinality(1..L) = IF 1 > L THEN 0 ELSE L - 1 + 1
      BY <1>1, FS_Interval
    <2>2. Cardinality(1..L) = L
      BY <1>1, <2>1
    <2> QED BY <1>3, <2>2, Zenon
  <1>6. \A n \in 1..L : Nth(n) = n
    BY <1>3, <1>4
  <1> HIDE DEF Nth, known
  <1>7. KnownKeys(keys) = [n \in 1..Cardinality(known) |->
            [name |-> keys[Nth(n)].name, type |-> eventKeyTypeFromWire(keys[Nth(n)].type)]]
    BY DEF KnownKeys, Nth, known
  <1> QED BY <1>1, <1>2, <1>5, <1>6, <1>7

\* The table has the description the server goes by.
LEMMA TableHas ==
    ASSUME list \in Lists, NEW i \in Described
    PROVE  /\ list[i].eventid \in DOMAIN buildDescriptorTable(list)
           /\ buildDescriptorTable(list)[list[i].eventid] =
                 [name |-> list[i].name, keys |-> KnownKeys(list[i].keys)]
  <1>1. list \in Seq(Description)
    BY EventsAssumption
  <1>2. DOMAIN list \subseteq Nat /\ i \in DOMAIN list
    BY <1>1 DEF Described
  <1>3. Added(list, list[i].eventid) = i
    BY <1>2 DEF Added, Described
  <1> QED BY <1>2, <1>3 DEF buildDescriptorTable

\* The value of each key of raw's first cells.
MeantBy(raw, cells) ==
    [k \in {raw.keys[i].name : i \in DOMAIN cells} |->
        LET cell == cells[CHOOSE i \in DOMAIN cells : raw.keys[i].name = k]
        IN  [type |-> CASE cell.code = 1 -> "string"
                        [] cell.code = 6 -> "boolean"
                        [] cell.code = 7 /\ cell.v > MaxSafeInteger -> "string"
                        [] OTHER -> "number",
             v |-> cell.v]]

\* What the server may put in a message: the first cells of a description.
SentFor(raw, cells) ==
    \E n \in Nat, who \in [UserKeys -> Users \cup {0}], zero \in BOOLEAN :
        n <= Len(raw.keys) /\ cells = Cells(raw, n, who, zero)

KeysKnown(raw) == \A i \in DOMAIN raw.keys : raw.keys[i].type \in 1..7

LEMMA CellsCarry ==
    ASSUME NEW raw \in Description, NEW cells, SentFor(raw, cells)
    PROVE  /\ Len(cells) \in Nat /\ Len(cells) <= Len(raw.keys)
           /\ DOMAIN cells = 1..Len(cells)
           /\ DOMAIN raw.keys = 1..Len(raw.keys)
           /\ \A i \in DOMAIN cells : cells[i].code = raw.keys[i].type /\ cells[i].v \in Nat
  <1>1. PICK n \in Nat, who \in [UserKeys -> Users \cup {0}], zero \in BOOLEAN :
            n <= Len(raw.keys) /\ cells = Cells(raw, n, who, zero)
    BY DEF SentFor
  <1> DEFINE value(i) == [code |-> raw.keys[i].type,
                          v |-> IF raw.keys[i].name \in UserKeys THEN who[raw.keys[i].name]
                                ELSE IF zero THEN 0
                                ELSE IF raw.keys[i].type = 6 THEN 1 ELSE i]
  <1>2. cells = [i \in 1..n |-> value(i)]
    BY <1>1 DEF Cells
  <1> HIDE DEF value
  <1>3. Len(cells) = n
    BY <1>2
  <1>4. raw.keys \in Seq([name : STRING, type : Nat])
    BY DEF Description
  <1>5. \A k \in UserKeys : who[k] \in Nat
    <2>1. Users \cup {0} \subseteq Nat
      BY EventsAssumption
    <2>2. who \in [UserKeys -> Users \cup {0}]
      OBVIOUS
    <2> QED BY <2>1, <2>2
  <1>6. \A i \in 1..n : cells[i].code = raw.keys[i].type /\ cells[i].v \in Nat
    BY <1>1, <1>2, <1>5 DEF value
  <1> QED BY <1>1, <1>2, <1>3, <1>4, <1>6

\* The parser decodes what the server meant.
LEMMA DecodedAsMeant ==
    ASSUME NEW raw \in Description, KeysKnown(raw), NEW cells, SentFor(raw, cells),
           NEW name
    PROVE  decodeGameEvent([name |-> name, keys |-> KnownKeys(raw.keys)], cells)
               = MeantBy(raw, cells)
  <1> DEFINE L == Len(raw.keys)
             n == Len(cells)
             keys == KnownKeys(raw.keys)
             At(k) == CHOOSE i \in 1..n : keys[i].name = k
             Sent(k) == CHOOSE i \in 1..n : raw.keys[i].name = k
  <1>1. raw.keys \in Seq([name : STRING, type : Nat]) /\ L \in Nat /\ n \in Nat /\ n <= L
        /\ DOMAIN cells = 1..n
    BY CellsCarry DEF Description
  <1>2. keys = [i \in 1..L |-> [name |-> raw.keys[i].name, type |-> EventKeyTypes[raw.keys[i].type]]]
    BY <1>1, AllKnown DEF KeysKnown
  <1>3. Len(keys) = L
    BY <1>1, <1>2
  <1>4. \A i \in 1..n : keys[i].name = raw.keys[i].name
                        /\ keys[i].type = EventKeyTypes[cells[i].code]
                        /\ cells[i].code \in 1..7
    BY <1>1, <1>2, CellsCarry DEF KeysKnown
  <1>5. (IF Len(cells) < Len(keys) THEN Len(cells) ELSE Len(keys)) = n
    BY <1>1, <1>3
  <1> HIDE DEF keys
  <1>6. \A k : At(k) = Sent(k)
    BY <1>4
  <1>7. {keys[i].name : i \in 1..n} = {raw.keys[i].name : i \in 1..n}
    BY <1>4
  <1>8. \A i \in 1..n : decodeKeyValue(keys[i].type, cells[i]) =
            [type |-> CASE cells[i].code = 1 -> "string"
                        [] cells[i].code = 6 -> "boolean"
                        [] cells[i].code = 7 /\ cells[i].v > MaxSafeInteger -> "string"
                        [] OTHER -> "number",
             v |-> cells[i].v]
    <2> SUFFICES ASSUME NEW i \in 1..n
                 PROVE  decodeKeyValue(keys[i].type, cells[i]) =
            [type |-> CASE cells[i].code = 1 -> "string"
                        [] cells[i].code = 6 -> "boolean"
                        [] cells[i].code = 7 /\ cells[i].v > MaxSafeInteger -> "string"
                        [] OTHER -> "number",
             v |-> cells[i].v]
      OBVIOUS
    <2>1. eventKeyTypeFromWire(cells[i].code) = keys[i].type
      BY <1>4 DEF eventKeyTypeFromWire
    <2>2. cells[i].code \in 1..7
      BY <1>4
    <2>3. /\ keys[i].type = "string" <=> cells[i].code = 1
          /\ keys[i].type = "bool" <=> cells[i].code = 6
          /\ keys[i].type = "uint64" <=> cells[i].code = 7
      BY <1>4, <2>2 DEF EventKeyTypes
    <2> QED BY <2>1, <2>3 DEF decodeKeyValue
  <1>9. \A k \in {raw.keys[i].name : i \in 1..n} : Sent(k) \in 1..n
    OBVIOUS
  <1> DEFINE d == [name |-> name, keys |-> keys]
  <1>10. decodeGameEvent(d, cells) = [k \in {keys[i].name : i \in 1..n} |->
              decodeKeyValue(keys[At(k)].type, cells[At(k)])]
    <2> DEFINE m == IF Len(cells) < Len(d.keys) THEN Len(cells) ELSE Len(d.keys)
               decoded(ks, len) == [k \in {ks[i].name : i \in 1..len} |->
                   decodeKeyValue(ks[CHOOSE i \in 1..len : ks[i].name = k].type,
                                  cells[CHOOSE i \in 1..len : ks[i].name = k])]
    <2>1. decodeGameEvent(d, cells) = decoded(d.keys, m)
      BY Zenon DEF decodeGameEvent
    <2>2. d.keys = keys
      OBVIOUS
    <2>3. m = n
      BY <1>5, <2>2, Zenon
    <2>4. decodeGameEvent(d, cells) = decoded(keys, n)
      <3> HIDE DEF m, d, n, decoded
      <3> QED BY <2>1, <2>2, <2>3
    <2> QED BY <2>4, Zenon
  <1>11. MeantBy(raw, cells) = [k \in {raw.keys[i].name : i \in 1..n} |->
            [type |-> CASE cells[Sent(k)].code = 1 -> "string"
                        [] cells[Sent(k)].code = 6 -> "boolean"
                        [] cells[Sent(k)].code = 7 /\ cells[Sent(k)].v > MaxSafeInteger -> "string"
                        [] OTHER -> "number",
             v |-> cells[Sent(k)].v]]
    BY <1>1 DEF MeantBy
  <1> DEFINE K == {raw.keys[i].name : i \in 1..n}
             value(i) == [type |-> CASE cells[i].code = 1 -> "string"
                                     [] cells[i].code = 6 -> "boolean"
                                     [] cells[i].code = 7 /\ cells[i].v > MaxSafeInteger -> "string"
                                     [] OTHER -> "number",
                          v |-> cells[i].v]
  <1>12. decodeGameEvent(d, cells) = MeantBy(raw, cells)
    <2>1. decodeGameEvent(d, cells) = [k \in K |-> decodeKeyValue(keys[Sent(k)].type, cells[Sent(k)])]
      <3> HIDE DEF At, Sent
      <3> QED BY <1>6, <1>7, <1>10
    <2>2. MeantBy(raw, cells) = [k \in K |-> value(Sent(k))]
      BY <1>11, Zenon
    <2>3. \A k \in K : Sent(k) \in 1..n
      BY <1>9, Zenon
    <2>4. \A i \in 1..n : decodeKeyValue(keys[i].type, cells[i]) = value(i)
      BY <1>8, Zenon
    <2> HIDE DEF K, Sent, value, d
    <2> QED BY <2>1, <2>2, <2>3, <2>4
  <1> QED BY <1>12 DEF keys

\* Every value is a number, and one under a key for players has the type of numbers.
LEMMA MeantNumbers ==
    ASSUME NEW raw \in Description, UsersAreNumbers(raw), NEW cells, SentFor(raw, cells),
           NEW k \in DOMAIN MeantBy(raw, cells)
    PROVE  /\ MeantBy(raw, cells)[k].v \in Nat
           /\ k \in PlayerKeys(raw.name) => MeantBy(raw, cells)[k].type = "number"
  <1> DEFINE i == CHOOSE j \in DOMAIN cells : raw.keys[j].name = k
  <1>1. k \in {raw.keys[j].name : j \in DOMAIN cells}
    BY DEF MeantBy
  <1>2. i \in DOMAIN cells /\ raw.keys[i].name = k
    BY <1>1
  <1>3. i \in DOMAIN raw.keys /\ cells[i].code = raw.keys[i].type /\ cells[i].v \in Nat
    <2> HIDE DEF i
    <2> QED BY <1>2, CellsCarry
  <1>4. /\ MeantBy(raw, cells)[k].v = cells[i].v
        /\ MeantBy(raw, cells)[k].type = CASE cells[i].code = 1 -> "string"
                        [] cells[i].code = 6 -> "boolean"
                        [] cells[i].code = 7 /\ cells[i].v > MaxSafeInteger -> "string"
                        [] OTHER -> "number"
    BY <1>1 DEF MeantBy
  <1>5. k \in PlayerKeys(raw.name) => cells[i].code \in 2..5
    BY <1>2, <1>3 DEF UsersAreNumbers
  <1> HIDE DEF i
  <1> QED BY <1>3, <1>4, <1>5

-----------------------------------------------------------------------------
(* The invariant *)

\* The array, once it is read.
LEMMA PlayersShown ==
    ASSUME IInv
    PROVE  /\ AllListed(listed) \subseteq Entity
           /\ playersNow = IF dying = None THEN AllListed(listed) ELSE AllListed(listed) \cup {dying}
  <1>1. AllListed(listed) \subseteq Entity
    BY DEF IInv, TypeOK, AllListed
  <1>2. dying # None => memo # None
    BY <1>1, EventsAssumption DEF IInv, TypeOK, MemoOfList
  <1> QED BY <1>1, <1>2 DEF IInv, MemoOfList, playersNow, Read

\* Held references of one id are all the same entity.
LEMMA HeldOnce ==
    ASSUME IInv, NEW id \in Ids, NEW p \in Held, NEW q \in Held, p.id = id, q.id = id
    PROVE  p = q
  <1>1. Held \subseteq IF dying = None THEN AllListed(listed) ELSE AllListed(listed) \cup {dying}
    BY DEF IInv, MemoOfList, Held
  <1>2. \A x \in AllListed(listed) : x.id \in Ids /\ x = listed[x.id] /\ x # None
    BY DEF AllListed, IInv, ListedInPlace
  <1> QED BY <1>1, <1>2 DEF IInv, MemoOfList

LEMMA FreshKind ==
    ASSUME IInv, NEW id \in Ids
    PROVE  Fresh(id) \in 0..2
  <1>1. \E g \in 0..2 : /\ \A p \in Held : p.id = id => p.gen # g
                        /\ \A h \in 0..(g - 1) : \E p \in Held : p.id = id /\ p.gen = h
    <2>1. CASE \A p \in Held : p.id = id => p.gen # 0
      <3>1. 0..(0 - 1) = {}
        OBVIOUS
      <3> QED BY <2>1, <3>1
    <2>2. CASE \E p \in Held : p.id = id /\ p.gen = 0
      <3>1. \A p \in Held : p.id = id => p.gen # 1
        BY <2>2, HeldOnce
      <3>2. 0..(1 - 1) = {0}
        OBVIOUS
      <3> QED BY <2>2, <3>1, <3>2
    <2> QED BY <2>1, <2>2
  <1> QED BY <1>1 DEF Fresh

LEMMA InitHolds == Init => IInv
  <1> SUFFICES ASSUME Init PROVE IInv
    OBVIOUS
  <1>1. TypeOK /\ ListedInPlace /\ OneSeat /\ DescriptorsOfList
    BY DEF Init, TypeOK, ListedInPlace, OneSeat, DescriptorsOfList
  <1>2. MemoOfList
    BY DEF Init, MemoOfList
  <1> QED BY <1>1, <1>2 DEF IInv

\* What is not told of the entities and the roster changes neither.
LEMMA QuietStep ==
    ASSUME IInv, list' = list, roster' = roster, listed' = listed, dying' = dying,
           memo' \in {memo, playersNow},
           descriptors' \in {descriptors, buildDescriptorTable(list)}
    PROVE  IInv'
  <1>1. TypeOK' /\ ListedInPlace' /\ OneSeat'
    BY DEF IInv, TypeOK, ListedInPlace, OneSeat
  <1>2. AllListed(listed)' = AllListed(listed)
    BY DEF AllListed
  <1>3. MemoOfList'
    <2>1. MemoOfList
      BY DEF IInv
    <2> QED BY <1>2, <2>1, PlayersShown DEF MemoOfList
  <1>4. DescriptorsOfList'
    BY DEF IInv, DescriptorsOfList
  <1> QED BY <1>1, <1>3, <1>4 DEF IInv

LEMMA JoinKeeps ==
    ASSUME IInv, NEW s \in Slots, NEW u \in Users, Join(s, u)
    PROVE  IInv'
  <1> USE DEF Join
  <1>1. roster' = [roster EXCEPT ![s] = u] /\ roster \in [Slots -> Users \cup {None}]
    BY DEF IInv, TypeOK
  <1>2. u # None
    BY EventsAssumption
  <1>3. TypeOK' /\ ListedInPlace'
    BY <1>1 DEF IInv, TypeOK, ListedInPlace
  <1>4. OneSeat'
    <2>1. \A t \in Slots : roster'[t] = IF t = s THEN u ELSE roster[t]
      BY <1>1
    <2>2. ASSUME NEW t \in Slots, NEW r \in Slots, roster'[t] # None, roster'[t] = roster'[r]
          PROVE  t = r
      BY <2>1, <2>2 DEF IInv, OneSeat
    <2>3. ASSUME NEW t \in Slots, NEW id \in Ids, roster'[t] # None, listed'[id] # None
          PROVE  listed'[id].user = roster'[t] <=> id = t + 1
      <3>1. listed' = listed /\ listed[id] \in AllListed(listed)
        BY <2>3 DEF AllListed
      <3>2. CASE t = s
        <4>1. listed[id].user # u
          BY <3>1
        <4>2. listed[s + 1] = None
          OBVIOUS
        <4> QED BY <2>1, <2>3, <3>1, <3>2, <4>1, <4>2
      <3>3. CASE t # s
        BY <2>1, <2>3, <3>1, <3>3 DEF IInv, OneSeat
      <3> QED BY <3>2, <3>3
    <2> QED BY <2>2, <2>3 DEF OneSeat
  <1>5. MemoOfList' /\ DescriptorsOfList'
    BY DEF IInv, MemoOfList, DescriptorsOfList, AllListed
  <1> QED BY <1>3, <1>4, <1>5 DEF IInv

LEMMA LeftKeeps ==
    ASSUME IInv, NEW s \in Slots, Left(s)
    PROVE  IInv'
  <1> USE DEF Left
  <1>1. \A t \in Slots : roster'[t] = IF t = s THEN None ELSE roster[t]
    BY DEF IInv, TypeOK
  <1>2. TypeOK' /\ ListedInPlace'
    BY DEF IInv, TypeOK, ListedInPlace
  <1>3. OneSeat'
    BY <1>1 DEF IInv, OneSeat
  <1>4. MemoOfList' /\ DescriptorsOfList'
    BY DEF IInv, MemoOfList, DescriptorsOfList, AllListed
  <1> QED BY <1>2, <1>3, <1>4 DEF IInv

LEMMA CreateKeeps ==
    ASSUME IInv, NEW s \in Slots, NEW reads \in BOOLEAN, CreatePlayer(s, reads)
    PROVE  IInv'
  <1> DEFINE p == [id |-> s + 1, user |-> roster[s], gen |-> Fresh(s + 1)]
  <1>1. /\ s + 1 \in Ids
        /\ roster[s] # None
        /\ listed' = [listed EXCEPT ![s + 1] = p]
        /\ memo' = IF reads THEN AllListed(listed') ELSE None
        /\ dying' = None
        /\ UNCHANGED <<list, descriptors, roster>>
    BY DEF CreatePlayer, Ids
  <1>2. p \in Entity /\ p # None
    <2>1. roster[s] \in Users
      BY <1>1 DEF IInv, TypeOK
    <2> QED BY <1>1, <2>1, FreshKind, EventsAssumption DEF Entity
  <1>3. p.id = s + 1 /\ p.user = roster[s]
    OBVIOUS
  <1> HIDE DEF p
  <1>4. \A id \in Ids : listed'[id] = IF id = s + 1 THEN p ELSE listed[id]
    BY <1>1 DEF IInv, TypeOK
  <1>5. TypeOK'
    BY <1>1, <1>2 DEF IInv, TypeOK
  <1>6. ListedInPlace'
    BY <1>3, <1>4 DEF IInv, ListedInPlace
  <1>7. OneSeat'
    <2>1. Slots \subseteq Nat /\ roster' = roster
      BY <1>1, EventsAssumption
    <2>2. ASSUME NEW t \in Slots, NEW id \in Ids, roster[t] # None, listed'[id] # None
          PROVE  listed'[id].user = roster[t] <=> id = t + 1
      <3>1. CASE id = s + 1
        <4>1. listed'[id].user = roster[s]
          BY <1>3, <1>4, <3>1
        <4>2. roster[s] = roster[t] <=> s = t
          BY <1>1, <2>2 DEF IInv, OneSeat
        <4>3. id = t + 1 <=> s = t
          BY <2>1, <3>1
        <4> QED BY <4>1, <4>2, <4>3
      <3>2. CASE id # s + 1
        BY <1>4, <2>2, <3>2 DEF IInv, OneSeat
      <3> QED BY <3>1, <3>2
    <2> QED BY <2>1, <2>2 DEF IInv, OneSeat
  <1>8. MemoOfList'
    BY <1>1 DEF MemoOfList, AllListed
  <1>9. DescriptorsOfList'
    BY <1>1 DEF IInv, DescriptorsOfList
  <1> QED BY <1>5, <1>6, <1>7, <1>8, <1>9 DEF IInv

LEMMA DeleteKeeps ==
    ASSUME IInv, NEW s \in Slots, NEW reads \in BOOLEAN, DeletePlayer(s, reads)
    PROVE  IInv'
  <1>1. /\ s + 1 \in Ids
        /\ listed[s + 1] # None
        /\ listed' = [listed EXCEPT ![s + 1] = None]
        /\ memo' = IF reads THEN AllListed(listed) ELSE None
        /\ dying' = IF reads THEN listed[s + 1] ELSE None
        /\ UNCHANGED <<list, descriptors, roster>>
    BY DEF DeletePlayer, Ids
  <1>2. \A id \in Ids : listed'[id] = IF id = s + 1 THEN None ELSE listed[id]
    BY <1>1 DEF IInv, TypeOK
  <1>3. TypeOK' /\ ListedInPlace' /\ OneSeat'
    <2>1. TypeOK'
      BY <1>1 DEF IInv, TypeOK
    <2>2. ListedInPlace'
      BY <1>2 DEF IInv, ListedInPlace
    <2>3. OneSeat'
      BY <1>1, <1>2 DEF IInv, OneSeat
    <2> QED BY <2>1, <2>2, <2>3
  <1>4. MemoOfList'
    <2>1. CASE reads
      <3>1. dying' # None /\ dying'.id = s + 1
        BY <1>1, <2>1 DEF IInv, ListedInPlace
      <3>2. AllListed(listed) = AllListed(listed') \cup {listed[s + 1]}
        BY <1>1, <1>2 DEF AllListed
      <3>3. AllListed(listed)' = AllListed(listed')
        BY DEF AllListed
      <3>4. listed'[dying'.id] = None
        BY <1>1, <1>2, <3>1
      <3> QED BY <1>1, <2>1, <3>1, <3>2, <3>3, <3>4 DEF MemoOfList
    <2>2. CASE ~ reads
      BY <1>1, <2>2 DEF MemoOfList
    <2> QED BY <2>1, <2>2
  <1>5. DescriptorsOfList'
    BY <1>1 DEF IInv, DescriptorsOfList
  <1> QED BY <1>3, <1>4, <1>5 DEF IInv

\* A message of the server, and what the parser may change on it.
LEMMA SendsAreQuiet ==
    ASSUME Sends
    PROVE  roster' = roster /\ listed' = listed /\ descriptors' = descriptors
           /\ memo' \in {memo, playersNow}
  <1> USE DEF parser
  <1>1. ASSUME NEW id, NEW cells, GameEvent(id, cells) \/ GameEventDropped
        PROVE  roster' = roster /\ listed' = listed /\ descriptors' = descriptors
               /\ memo' \in {memo, playersNow}
    BY <1>1 DEF GameEvent, GameEventDropped
  <1>2. CASE SendGameEvent \/ SendUnlisted
    BY <1>1, <1>2 DEF SendGameEvent, SendUnlisted
  <1>3. CASE SendChat
    BY <1>3 DEF SendChat, UserMessage
  <1>4. CASE SendVoice
    BY <1>4 DEF SendVoice, VoiceData
  <1> QED BY <1>2, <1>3, <1>4 DEF Sends

LEMMA StepKeeps == IInv /\ [Next]_vars => IInv'
  <1> SUFFICES ASSUME IInv, [Next]_vars PROVE IInv'
    OBVIOUS
  <1>1. CASE said # None /\ Returned
    BY <1>1, QuietStep DEF Returned, parser
  <1>2. CASE Sends /\ UNCHANGED <<list, dying>>
    BY <1>2, QuietStep, SendsAreQuiet
  <1>3. CASE GameEventList
    BY <1>3, QuietStep DEF GameEventList
  <1>4. CASE ReadPlayers
    BY <1>4, QuietStep DEF ReadPlayers
  <1>5. ASSUME NEW s \in Slots, NEW u \in Users, Join(s, u)
        PROVE  IInv'
    BY <1>5, JoinKeeps
  <1>6. ASSUME NEW s \in Slots, Left(s)
        PROVE  IInv'
    BY <1>6, LeftKeeps
  <1>7. ASSUME NEW s \in Slots, NEW reads \in BOOLEAN, CreatePlayer(s, reads)
        PROVE  IInv'
    BY <1>7, CreateKeeps
  <1>8. ASSUME NEW s \in Slots, NEW reads \in BOOLEAN, DeletePlayer(s, reads)
        PROVE  IInv'
    BY <1>8, DeleteKeeps
  <1>9. CASE UNCHANGED vars
    BY <1>9, QuietStep DEF vars
  <1> QED BY <1>1, <1>2, <1>3, <1>4, <1>5, <1>6, <1>7, <1>8, <1>9 DEF Next

-----------------------------------------------------------------------------
(* Looking up a player *)

\* The one exception: the entity that a listener put in the array while it was deleted.
OrDying(p, q) == p = q \/ (dying # None /\ p = dying)

LEMMA AtSlot ==
    ASSUME IInv, NEW s \in Slots
    PROVE  OrDying(AtId(s + 1), listed[s + 1])
  <1>1. s + 1 \in Ids
    BY DEF Ids
  <1>2. \A p \in AllListed(listed) : p.id = s + 1 => p = listed[s + 1]
    BY DEF AllListed, IInv, ListedInPlace
  <1>3. CASE listed[s + 1] # None
    <2>1. listed[s + 1] \in playersNow /\ listed[s + 1].id = s + 1
      BY <1>1, <1>3, PlayersShown DEF AllListed, IInv, ListedInPlace
    <2>2. \A p \in playersNow : p.id = s + 1 => p = listed[s + 1]
      BY <1>2, <1>3, PlayersShown DEF IInv, MemoOfList
    <2> QED BY <2>1, <2>2 DEF AtId, OrDying
  <1>4. CASE listed[s + 1] = None
    <2>1. \A p \in playersNow : p.id = s + 1 => dying # None /\ p = dying
      <3>1. \A p \in AllListed(listed) : p # None
        BY PlayersShown, EventsAssumption
      <3> QED BY <1>2, <1>4, <3>1, PlayersShown
    <2> QED BY <1>4, <2>1 DEF AtId, OrDying
  <1> QED BY <1>3, <1>4

LEMMA PlayerOfSeated ==
    ASSUME IInv, NEW s \in Slots, roster[s] # None
    PROVE  PlayerOf(roster[s]) = listed[s + 1]
  <1>1. s + 1 \in Ids
    BY DEF Ids
  <1>2. \A p \in AllListed(listed) : p.user = roster[s] => p = listed[s + 1]
    BY DEF AllListed, IInv, OneSeat
  <1>3. CASE listed[s + 1] # None
    <2>1. listed[s + 1] \in AllListed(listed) /\ listed[s + 1].user = roster[s]
      BY <1>1, <1>3 DEF AllListed, IInv, OneSeat
    <2> QED BY <1>2, <2>1 DEF PlayerOf
  <1>4. CASE listed[s + 1] = None
    <2>1. \A p \in AllListed(listed) : p.user # roster[s]
      <3>1. \A p \in AllListed(listed) : p # None
        BY PlayersShown, EventsAssumption
      <3> QED BY <1>2, <1>4, <3>1
    <2> QED BY <1>4, <2>1 DEF PlayerOf
  <1> QED BY <1>3, <1>4

\* Nobody is None, and nobody has the id 0.
LEMMA NobodyIsNobody ==
    ASSUME IInv
    PROVE  PlayerOf(None) = None /\ PlayerOf(0) = None /\ resolvePlayer(0) = None
  <1>1. \A s \in Slots : roster[s] # 0
    BY EventsAssumption DEF IInv, TypeOK
  <1>2. None # 0
    BY EventsAssumption
  <1> QED BY <1>1, <1>2 DEF PlayerOf, resolvePlayer

LEMMA ResolvesRight ==
    ASSUME IInv, NEW u, u # None
    PROVE  OrDying(resolvePlayer(u), PlayerOf(u))
  <1>1. ASSUME NEW s \in Slots, roster[s] = u
        PROVE  OrDying(resolvePlayer(u), PlayerOf(u))
    <2>1. (CHOOSE t \in Slots : roster[t] = u) = s
      BY <1>1 DEF IInv, OneSeat
    <2>2. resolvePlayer(u) = AtId(s + 1)
      BY <1>1, <2>1 DEF resolvePlayer
    <2> QED BY <1>1, <2>2, AtSlot, PlayerOfSeated
  <1>2. CASE \A s \in Slots : roster[s] # u
    BY <1>2 DEF resolvePlayer, PlayerOf, OrDying
  <1> QED BY <1>1, <1>2

\* The user under a key of what the server meant.
UserBy(data, key) == IF key \in DOMAIN data THEN data[key].v ELSE None

LEMMA NamedRight ==
    ASSUME IInv, NEW raw \in Description, UsersAreNumbers(raw),
           NEW cells, SentFor(raw, cells),
           NEW n, n.key \in PlayerKeys(raw.name)
    PROVE  OrDying(PlayerIn(n, MeantBy(raw, cells)), PlayerOf(UserBy(MeantBy(raw, cells), n.key)))
  <1> DEFINE data == MeantBy(raw, cells)
             user == ValueUnder(data, n.key, {"number"})
             found == IF user = 0 /\ ~ n.zero THEN None ELSE resolvePlayer(user)
  <1>1. PlayerIn(n, data) = found
    BY Zenon DEF PlayerIn
  <1>2. CASE n.key \notin DOMAIN data
    <2>1. user = 0 /\ UserBy(data, n.key) = None
      BY <1>2 DEF ValueUnder, UserBy
    <2>2. found = None
      BY <2>1, NobodyIsNobody
    <2> QED BY <1>1, <2>1, <2>2, NobodyIsNobody DEF OrDying
  <1>3. CASE n.key \in DOMAIN data
    <2>1. data[n.key].type = "number" /\ data[n.key].v \in Nat
      BY <1>3, MeantNumbers
    <2>2. user = data[n.key].v /\ UserBy(data, n.key) = user /\ user # None
      BY <1>3, <2>1, EventsAssumption DEF ValueUnder, UserBy
    <2>3. OrDying(found, PlayerOf(user))
      <3> HIDE DEF user
      <3>1. CASE user = 0
        BY <3>1, NobodyIsNobody DEF OrDying
      <3>2. CASE user # 0
        BY <2>2, <3>2, ResolvesRight
      <3> QED BY <3>1, <3>2
    <2> HIDE DEF found, user
    <2> QED BY <1>1, <2>2, <2>3
  <1> QED BY <1>2, <1>3

-----------------------------------------------------------------------------
(* What is emitted *)

LEMMA EmittedOnce ==
    ASSUME NEW g
    PROVE  /\ Range(<< >>) = {}
           /\ Range(<<g>>) = {g}
           /\ \A a : Range(<<g>> \o <<a>>) = {g, a}
  <1>1. Range(<< >>) = {}
    BY DEF Range
  <1>2. Range(<<g>>) = {g}
    BY DEF Range
  <1>3. ASSUME NEW a
        PROVE  Range(<<g>> \o <<a>>) = {g, a}
    <2>1. <<g>> \in Seq({g, a}) /\ <<a>> \in Seq({g, a}) /\ Len(<<g>>) = 1 /\ Len(<<a>>) = 1
      OBVIOUS
    <2> DEFINE two == <<g>> \o <<a>>
    <2>2. two \in Seq({g, a}) /\ Len(two) = 2 /\ two[1] = g /\ two[2] = a
      BY <2>1
    <2>3. DOMAIN two = {1, 2}
      BY <2>2
    <2>4. Range(two) = {two[1], two[2]}
      <3> HIDE DEF two
      <3> QED BY <2>3 DEF Range
    <2> QED BY <2>2, <2>4
  <1> QED BY <1>1, <1>2, <1>3

\* A typed event shows the players that its enricher names, and the values it copies.
LEMMA TypedRight ==
    ASSUME IInv, NEW raw \in Description, UsersAreNumbers(raw), raw.name \in DOMAIN enricherTable,
           NEW cells, SentFor(raw, cells), NEW e,
           e = Typed(raw.name, enricherTable[raw.name], MeantBy(raw, cells))
    PROVE  /\ e.event = raw.name /\ IsTyped(e)
           /\ \A n \in enricherTable[raw.name].needs \cup enricherTable[raw.name].may :
                 OrDying(e.players[n.field], PlayerOf(UserBy(MeantBy(raw, cells), n.key)))
           /\ \A r \in enricherTable[raw.name].reads :
                 e.fields[r.field] = FieldOf(raw.name, r, MeantBy(raw, cells), RosterName(MeantBy(raw, cells)))
  <1> DEFINE t == enricherTable[raw.name]
             P == t.needs \cup t.may
             data == MeantBy(raw, cells)
             known == RosterName(data)
             player(f) == CHOOSE n \in P : n.field = f
  <1>1. /\ \A n, m \in P : n.field = m.field => n = m
        /\ \A q, r \in t.reads : q.field = r.field => q = r
    BY FieldsToldOnce DEF Told, FieldsOnce
  <1>2. /\ e.event = raw.name
        /\ DOMAIN e = {"event", "players", "fields"}
        /\ e.players = [f \in {n.field : n \in P} |-> PlayerIn(player(f), data)]
        /\ e.fields = [f \in {r.field : r \in t.reads} |->
                          FieldOf(raw.name, CHOOSE r \in t.reads : r.field = f, data, known)]
    <2> HIDE DEF data, known
    <2>1. e = [event |-> raw.name,
               players |-> [f \in {n.field : n \in P} |-> PlayerIn(player(f), data)],
               fields |-> [f \in {r.field : r \in t.reads} |->
                              FieldOf(raw.name, CHOOSE r \in t.reads : r.field = f, data, known)]]
      BY Zenon DEF Typed, data, known
    <2> QED BY <2>1
  <1>3. ASSUME NEW n \in P
        PROVE  OrDying(e.players[n.field], PlayerOf(UserBy(data, n.key)))
    <2>1. player(n.field) = n
      BY <1>1
    <2>2. e.players[n.field] = PlayerIn(n, data)
      <3> HIDE DEF P, data, player
      <3> QED BY <1>2, <2>1
    <2>3. n.key \in PlayerKeys(raw.name)
      BY DEF PlayerKeys
    <2> QED BY <2>2, <2>3, NamedRight
  <1>4. ASSUME NEW r \in t.reads
        PROVE  e.fields[r.field] = FieldOf(raw.name, r, data, known)
    <2>1. (CHOOSE q \in t.reads : q.field = r.field) = r
      BY <1>1
    <2> HIDE DEF t, data, known
    <2> QED BY <1>2, <2>1
  <1> QED BY <1>2, <1>3, <1>4 DEF IsTyped

\* An event is skipped for a player that is not there.
LEMMA SkippedRight ==
    ASSUME IInv, NEW raw \in Description, UsersAreNumbers(raw), raw.name \in DOMAIN enricherTable,
           NEW cells, SentFor(raw, cells),
           Skips(enricherTable[raw.name], MeantBy(raw, cells))
    PROVE  \E n \in enricherTable[raw.name].needs : PlayerOf(UserBy(MeantBy(raw, cells), n.key)) = None
  <1>1. PICK n \in enricherTable[raw.name].needs : PlayerIn(n, MeantBy(raw, cells)) = None
    BY DEF Skips
  <1>2. n.key \in PlayerKeys(raw.name)
    BY DEF PlayerKeys
  <1>3. OrDying(None, PlayerOf(UserBy(MeantBy(raw, cells), n.key)))
    BY <1>1, <1>2, NamedRight
  <1> QED BY <1>3 DEF OrDying

\* What a game event of the list leads to, once the parser has the list.
LEMMA EventEmits ==
    ASSUME IInv, SendGameEvent, Clear'
    PROVE  \/ emitted' = << >>
           \/ \E raw \in Description : \E cells, id :
                 /\ UsersAreNumbers(raw) /\ SentFor(raw, cells)
                 /\ said' = [about |-> "event", of |-> raw, cells |-> cells]
                 /\ emitted' = <<[event |-> "gameEvent", name |-> raw.name, eventId |-> id,
                                  data |-> MeantBy(raw, cells)]>>
                               \o Tier1(id, raw.name, MeantBy(raw, cells))
  <1>1. PICK i \in Described, zero \in BOOLEAN, who \in [UserKeys -> Users \cup {0}] :
            \E n \in {Len(list[i].keys), Len(list[i].keys) - 1} \cap Nat :
                LET cells == Cells(list[i], n, who, zero)
                IN  /\ GameEvent(list[i].eventid, cells) \/ GameEventDropped
                    /\ said' = [about |-> "event", of |-> list[i], cells |-> cells]
    BY DEF SendGameEvent
  <1>2. PICK n \in {Len(list[i].keys), Len(list[i].keys) - 1} \cap Nat :
            /\ GameEvent(list[i].eventid, Cells(list[i], n, who, zero)) \/ GameEventDropped
            /\ said' = [about |-> "event", of |-> list[i], cells |-> Cells(list[i], n, who, zero)]
    BY <1>1
  <1> DEFINE raw == list[i]
             cells == Cells(raw, n, who, zero)
  <1>3. list \in Lists /\ list \in Seq(Description) /\ i \in DOMAIN list
    BY EventsAssumption DEF IInv, TypeOK, Described
  <1>4. raw \in Description /\ UsersAreNumbers(raw)
    BY <1>3, EventsAssumption
  <1>5. SentFor(raw, cells)
    <2>1. Len(raw.keys) \in Nat
      BY <1>4 DEF Description
    <2>2. n \in Nat /\ n <= Len(raw.keys)
      BY <2>1
    <2> QED BY <2>2 DEF SentFor
  <1> HIDE DEF cells
  <1>6. said' = [about |-> "event", of |-> raw, cells |-> cells]
    BY <1>2 DEF cells
  <1>7. KeysKnown(raw)
    BY <1>6 DEF Clear, TypesKnown, KeysKnown
  <1>8. CASE GameEventDropped
    BY <1>8 DEF GameEventDropped
  <1>9. CASE GameEvent(raw.eventid, cells)
    <2>1. descriptors = buildDescriptorTable(list)
      BY <1>9 DEF GameEvent, IInv, DescriptorsOfList
    <2>2. /\ raw.eventid \in DOMAIN descriptors
          /\ descriptors[raw.eventid] = [name |-> raw.name, keys |-> KnownKeys(raw.keys)]
      BY <1>3, <2>1, TableHas
    <2>3. decodeGameEvent(descriptors[raw.eventid], cells) = MeantBy(raw, cells)
      BY <1>4, <1>5, <1>7, <2>2, DecodedAsMeant
    <2>4. descriptors[raw.eventid].name = raw.name
      BY <2>2
    <2> HIDE DEF raw
    <2>5. emitted' = <<[event |-> "gameEvent", name |-> raw.name, eventId |-> raw.eventid,
                        data |-> MeantBy(raw, cells)]>>
                     \o Tier1(raw.eventid, raw.name, MeantBy(raw, cells))
      BY <1>9, <2>2, <2>3, <2>4 DEF GameEvent
    <2> QED BY <1>4, <1>5, <1>6, <2>5
  <1> QED BY <1>2, <1>8, <1>9 DEF cells

\* What every emitted event must be like: the users it names and the values it has.
PlayersRight(e, data) ==
    /\ IsTyped(e) =>
          /\ e.event \in DOMAIN enricherTable
          /\ \A n \in enricherTable[e.event].needs \cup enricherTable[e.event].may :
                OrDying(e.players[n.field], PlayerOf(UserBy(data, n.key)))
    /\ ~ IsTyped(e) => e.event \notin {"chatMessage", "voiceData"}
    /\ e.event = "gameEventEnrichmentSkipped" =>
          \E n \in enricherTable[e.name].needs : PlayerOf(UserBy(data, n.key)) = None

ValuesRight(e, data) ==
    /\ e.event = "gameEvent" => e.data = data
    /\ IsTyped(e) => \A r \in enricherTable[e.event].reads :
          e.fields[r.field] = FieldOf(e.event, r, data, RosterName(data))

LEMMA TierOneRight ==
    ASSUME IInv, NEW raw \in Description, UsersAreNumbers(raw), NEW cells, SentFor(raw, cells), NEW id,
           NEW e \in Range(<<[event |-> "gameEvent", name |-> raw.name, eventId |-> id,
                              data |-> MeantBy(raw, cells)]>>
                           \o Tier1(id, raw.name, MeantBy(raw, cells)))
    PROVE  PlayersRight(e, MeantBy(raw, cells)) /\ ValuesRight(e, MeantBy(raw, cells))
  <1> DEFINE data == MeantBy(raw, cells)
             g == [event |-> "gameEvent", name |-> raw.name, eventId |-> id, data |-> data]
             skip == [event |-> "gameEventEnrichmentSkipped", name |-> raw.name, eventId |-> id]
             typed == Typed(raw.name, enricherTable[raw.name], data)
  <1>1. Tier1(id, raw.name, data) =
            IF raw.name \notin DOMAIN enricherTable THEN << >>
            ELSE IF Skips(enricherTable[raw.name], data) THEN <<skip>> ELSE <<typed>>
    BY Zenon DEF Tier1
  <1>2. PlayersRight(g, data) /\ ValuesRight(g, data)
    <2>1. g.event = "gameEvent" /\ g.data = data /\ "players" \notin DOMAIN g
      OBVIOUS
    <2> HIDE DEF g, data
    <2> QED BY <2>1 DEF PlayersRight, ValuesRight, IsTyped
  <1>3. CASE raw.name \notin DOMAIN enricherTable
    <2>1. e \in Range(<<g>> \o << >>)
      BY <1>1, <1>3
    <2>2. <<g>> \o << >> = <<g>>
      OBVIOUS
    <2>3. e = g
      BY <2>1, <2>2, EmittedOnce
    <2> QED BY <1>2, <2>3
  <1>4. CASE raw.name \in DOMAIN enricherTable /\ Skips(enricherTable[raw.name], data)
    <2>1. e \in Range(<<g>> \o <<skip>>)
      BY <1>1, <1>4
    <2>2. e = g \/ e = skip
      <3> HIDE DEF g, skip
      <3> QED BY <2>1, EmittedOnce
    <2>3. /\ skip.event = "gameEventEnrichmentSkipped" /\ skip.name = raw.name
          /\ "players" \notin DOMAIN skip
      OBVIOUS
    <2>4. \E n \in enricherTable[raw.name].needs : PlayerOf(UserBy(data, n.key)) = None
      BY <1>4, SkippedRight
    <2>5. PlayersRight(skip, data) /\ ValuesRight(skip, data)
      <3> HIDE DEF skip, data
      <3> QED BY <2>3, <2>4 DEF PlayersRight, ValuesRight, IsTyped
    <2> QED BY <1>2, <2>2, <2>5
  <1>5. CASE raw.name \in DOMAIN enricherTable /\ ~ Skips(enricherTable[raw.name], data)
    <2>1. e \in Range(<<g>> \o <<typed>>)
      BY <1>1, <1>5
    <2>2. e = g \/ e = typed
      <3> HIDE DEF g, typed
      <3> QED BY <2>1, EmittedOnce
    <2>3. /\ typed.event = raw.name /\ IsTyped(typed)
          /\ \A n \in enricherTable[raw.name].needs \cup enricherTable[raw.name].may :
                OrDying(typed.players[n.field], PlayerOf(UserBy(data, n.key)))
          /\ \A r \in enricherTable[raw.name].reads :
                typed.fields[r.field] = FieldOf(raw.name, r, data, RosterName(data))
      <3> HIDE DEF typed
      <3> QED BY <1>5, TypedRight DEF typed
    <2>4. raw.name # "gameEventEnrichmentSkipped" /\ raw.name # "gameEvent"
      BY <1>5, NamesApart
    <2>5. PlayersRight(typed, data) /\ ValuesRight(typed, data)
      <3> HIDE DEF typed, data
      <3> QED BY <1>5, <2>3, <2>4 DEF PlayersRight, ValuesRight
    <2> QED BY <1>2, <2>2, <2>5
  <1> QED BY <1>3, <1>4, <1>5

-----------------------------------------------------------------------------
(* After a message *)

\* Whom the list shows for a user does not change by a message.
LEMMA SameAfter ==
    ASSUME Sends, dying' = dying
    PROVE  /\ \A u : PlayerOf(u)' = PlayerOf(u)
           /\ \A p, q : OrDying(p, q)' = OrDying(p, q)
           /\ \A data : RosterName(data)' = RosterName(data)
           /\ \A s : Speaker(s)' = Speaker(s)
  <1>1. roster' = roster /\ listed' = listed
    BY SendsAreQuiet
  <1>2. \A u : PlayerOf(u)' = PlayerOf(u)
    BY <1>1 DEF PlayerOf, AllListed
  <1>3. \A data : RosterName(data)' = RosterName(data)
    BY <1>1 DEF RosterName, NameOf
  <1> QED BY <1>1, <1>2, <1>3 DEF OrDying, Speaker

\* A message that has no event of a list leaves at most one event, which is no typed one
\* and shows the player of the user it names.
Plain(e, user) ==
    /\ ~ IsTyped(e) /\ e.event \notin {"gameEvent", "gameEventEnrichmentSkipped"}
    /\ e.event \in {"chatMessage", "voiceData"} => OrDying(e.player, PlayerOf(user))

LEMMA UnlistedEmits ==
    ASSUME IInv, SendUnlisted
    PROVE  /\ said'.about = "nothing"
           /\ \A e \in Range(emitted') : Plain(e, None) /\ e.event \notin {"chatMessage", "voiceData"}
  <1> DEFINE failed == [event |-> "gameEventDecodeError", eventId |-> 0]
  <1>1. said' = [about |-> "nothing"]
    BY DEF SendUnlisted
  <1>2. emitted' = << >> \/ emitted' = <<failed>>
    <2>1. CASE GameEventDropped
      BY <2>1 DEF GameEventDropped
    <2>2. CASE GameEvent(0, << >>)
      <3>1. descriptors = buildDescriptorTable(list)
        BY <2>2 DEF GameEvent, IInv, DescriptorsOfList
      <3>2. 0 \notin DOMAIN descriptors
        BY <3>1 DEF SendUnlisted, buildDescriptorTable
      <3> QED BY <2>2, <3>2 DEF GameEvent
    <2> QED BY <2>1, <2>2 DEF SendUnlisted
  <1>3. Plain(failed, None) /\ failed.event \notin {"chatMessage", "voiceData"}
    <2>1. failed.event = "gameEventDecodeError" /\ "players" \notin DOMAIN failed
      OBVIOUS
    <2> HIDE DEF failed
    <2> QED BY <2>1 DEF Plain, IsTyped
  <1> HIDE DEF failed
  <1>4. \A e \in Range(emitted') : e = failed
    <2>1. Range(<< >>) = {} /\ Range(<<failed>>) = {failed}
      BY EmittedOnce
    <2> QED BY <1>2, <2>1
  <1> QED BY <1>1, <1>3, <1>4

LEMMA SpeakerRight ==
    ASSUME IInv, NEW s \in Slots
    PROVE  /\ roster[s] # None => OrDying(resolvePlayer(roster[s]), PlayerOf(roster[s]))
           /\ roster[s] # None => OrDying(AtId(s + 1), PlayerOf(roster[s]))
           /\ roster[s] = None => PlayerOf(roster[s]) = None
  BY ResolvesRight, AtSlot, PlayerOfSeated, NobodyIsNobody

LEMMA ChatEmits ==
    ASSUME IInv, SendChat
    PROVE  said'.about = "chat" /\ \A e \in Range(emitted') : Plain(e, said'.user)
  <1>1. PICK id \in Ids \cup {0}, s \in Speeches :
            /\ UserMessage(id, s)
            /\ said' = [about |-> "chat", user |-> IF s.kind = "SayText2" THEN Speaker(id - 1) ELSE None,
                        text |-> s.text]
    BY DEF SendChat
  <1> DEFINE user == IF s.kind = "SayText2" THEN Speaker(id - 1) ELSE None
  <1>2. said'.about = "chat" /\ said'.user = user
    BY <1>1
  <1>3. emitted' = decodeChatMessage(s.kind, id, s.template, s.params)
    BY <1>1 DEF UserMessage
  <1> HIDE DEF user
  <1>4. ASSUME NEW e, NEW p, OrDying(p, PlayerOf(user)), NEW name, NEW text, NEW team,
               e = [event |-> "chatMessage", player |-> p, senderName |-> name,
                    message |-> text, isTeamChat |-> team]
        PROVE  Plain(e, user)
    <2>1. e.event = "chatMessage" /\ e.player = p /\ "players" \notin DOMAIN e
      BY <1>4
    <2> QED BY <1>4, <2>1 DEF Plain, IsTyped
  <1>5. CASE s.kind = "SayText2"
    <2>1. OrDying(SenderOf(id), PlayerOf(user))
      <3>1. user = Speaker(id - 1)
        BY <1>5 DEF user
      <3>2. CASE id = 0
        <4>1. id - 1 \notin Slots
          BY <3>2, EventsAssumption
        <4> QED BY <3>1, <3>2, <4>1, NobodyIsNobody DEF Speaker, SenderOf, OrDying
      <3>3. CASE id # 0
        <4>1. PICK t \in Slots : id = t + 1
          BY <3>3 DEF Ids
        <4>2. id > 0 /\ id - 1 = t
          BY <4>1, EventsAssumption
        <4>3. user = roster[t]
          BY <3>1, <4>2 DEF Speaker
        <4> QED BY <4>2, <4>3, SpeakerRight DEF SenderOf, OrDying
      <3> QED BY <3>2, <3>3
    <2>2. emitted' = <<decodeSayText2(id, s.template, s.params)>>
      BY <1>3, <1>5 DEF decodeChatMessage
    <2>3. Plain(decodeSayText2(id, s.template, s.params), user)
      BY <1>4, <2>1 DEF decodeSayText2
    <2> QED BY <1>2, <2>2, <2>3, EmittedOnce
  <1>6. CASE s.kind # "SayText2"
    <2>1. OrDying(None, PlayerOf(user))
      BY <1>6, NobodyIsNobody DEF user, OrDying
    <2>2. Plain(decodeSayText(s.template), user)
      BY <1>4, <2>1 DEF decodeSayText
    <2>3. Plain(decodeTextMsg(<<s.template>> \o s.params), user)
      BY <1>4, <2>1 DEF decodeTextMsg
    <2>4. \/ emitted' = << >>
          \/ emitted' = <<decodeSayText(s.template)>>
          \/ emitted' = <<decodeTextMsg(<<s.template>> \o s.params)>>
      BY <1>3, <1>6 DEF decodeChatMessage
    <2> QED BY <1>2, <2>2, <2>3, <2>4, EmittedOnce
  <1> QED BY <1>5, <1>6

LEMMA VoiceEmits ==
    ASSUME IInv, SendVoice
    PROVE  said'.about = "voice" /\ \A e \in Range(emitted') : Plain(e, said'.user)
  <1>1. PICK client \in Slots \cup {-1}, empty \in BOOLEAN :
            /\ VoiceData(client, empty)
            /\ said' = [about |-> "voice", user |-> Speaker(client)]
    BY DEF SendVoice
  <1> DEFINE known == client \in Slots /\ roster[client] # None
             shown == IF known THEN AtId(client + 1) ELSE None
             frame == [event |-> "voiceData", player |-> shown]
  <1>2. said'.about = "voice" /\ said'.user = Speaker(client)
    BY <1>1
  <1>3. emitted' = << >> \/ emitted' = <<frame>>
    BY <1>1 DEF VoiceData
  <1>4. OrDying(shown, PlayerOf(Speaker(client)))
    <2>1. CASE client \in Slots
      BY <2>1, SpeakerRight DEF Speaker, OrDying
    <2>2. CASE client \notin Slots
      BY <2>2, NobodyIsNobody DEF Speaker, OrDying
    <2> QED BY <2>1, <2>2
  <1>5. frame.event = "voiceData" /\ frame.player = shown /\ "players" \notin DOMAIN frame
    OBVIOUS
  <1> HIDE DEF frame, shown
  <1>6. Plain(frame, Speaker(client))
    BY <1>4, <1>5 DEF Plain, IsTyped
  <1>7. Range(<< >>) = {} /\ Range(<<frame>>) = {frame}
    BY EmittedOnce
  <1> QED BY <1>2, <1>3, <1>6, <1>7

\* A message without an event of the list.
LEMMA PlainRight ==
    ASSUME Sends, dying' = dying, said'.about # "event", NEW user,
           \A e \in Range(emitted') :
               /\ Plain(e, user)
               /\ e.event \in {"chatMessage", "voiceData"} => said'.user = user
    PROVE  RightPlayer' /\ ValuesAsSent'
  <1>1. ValuesAsSent'
    BY DEF ValuesAsSent, Plain, IsTyped
  <1>2. ASSUME NEW x \in Mentions'
        PROVE  OrDying(x.player, PlayerOf(x.user))'
    <2>1. PICK e \in Range(emitted') :
              x \in IF IsTyped(e)
                      THEN {[user |-> UserUnder(n.key)', player |-> e.players[n.field]] :
                              n \in enricherTable[e.event].needs \cup enricherTable[e.event].may}
                    ELSE IF e.event \in {"chatMessage", "voiceData"}
                      THEN {[user |-> said'.user, player |-> e.player]}
                    ELSE {}
      BY DEF Mentions, IsTyped
    <2>2. ~ IsTyped(e)
      BY DEF Plain
    <2>3. e.event \in {"chatMessage", "voiceData"} /\ x = [user |-> said'.user, player |-> e.player]
      BY <2>1, <2>2
    <2>4. x.player = e.player /\ x.user = user
      BY <2>3
    <2>5. OrDying(e.player, PlayerOf(user))
      BY <2>3 DEF Plain
    <2> QED BY <2>4, <2>5, SameAfter
  <1>3. RightPlayer'
    BY <1>2 DEF RightPlayer, OrDying, Plain
  <1> QED BY <1>1, <1>3

\* An event of the list.
LEMMA ListedRight ==
    ASSUME IInv, Sends, dying' = dying, NEW raw \in Description, NEW cells,
           said' = [about |-> "event", of |-> raw, cells |-> cells],
           \A e \in Range(emitted') :
               PlayersRight(e, MeantBy(raw, cells)) /\ ValuesRight(e, MeantBy(raw, cells))
    PROVE  RightPlayer' /\ ValuesAsSent'
  <1>1. Meant' = MeantBy(raw, cells)
    BY DEF Meant, MeantBy
  <1> DEFINE data == MeantBy(raw, cells)
  <1>2. \A k : UserUnder(k)' = UserBy(data, k)
    BY <1>1 DEF UserUnder, UserBy
  <1> HIDE DEF data
  <1>3. \A e \in Range(emitted') : PlayersRight(e, data) /\ ValuesRight(e, data)
    BY DEF data
  <1>4. ValuesAsSent'
    <2>1. RosterName(Meant)' = RosterName(data)
      <3>1. Meant' = data /\ roster' = roster
        BY <1>1, SendsAreQuiet DEF data
      <3> QED BY <3>1 DEF RosterName, NameOf
    <2> QED BY <1>1, <1>3, <2>1 DEF ValuesAsSent, ValuesRight, IsTyped, data
  <1>5. ASSUME NEW x \in Mentions'
        PROVE  OrDying(x.player, PlayerOf(x.user))'
    <2>1. PICK e \in Range(emitted') :
              x \in IF IsTyped(e)
                      THEN {[user |-> UserUnder(n.key)', player |-> e.players[n.field]] :
                              n \in enricherTable[e.event].needs \cup enricherTable[e.event].may}
                    ELSE IF e.event \in {"chatMessage", "voiceData"}
                      THEN {[user |-> said'.user, player |-> e.player]}
                    ELSE {}
      BY DEF Mentions, IsTyped
    <2>2. PICK n \in enricherTable[e.event].needs \cup enricherTable[e.event].may :
              IsTyped(e) /\ x = [user |-> UserUnder(n.key)', player |-> e.players[n.field]]
      BY <1>3, <2>1 DEF PlayersRight
    <2>3. x.user = UserBy(data, n.key) /\ x.player = e.players[n.field]
      BY <1>2, <2>2
    <2>4. OrDying(e.players[n.field], PlayerOf(UserBy(data, n.key)))
      BY <1>3, <2>2 DEF PlayersRight
    <2> QED BY <2>3, <2>4, SameAfter
  <1>6. ASSUME NEW e \in Range(emitted'), e.event = "gameEventEnrichmentSkipped"
        PROVE  \E n \in enricherTable[e.name].needs : PlayerOf(UserUnder(n.key))' = None
    <2>1. PICK n \in enricherTable[e.name].needs : PlayerOf(UserBy(data, n.key)) = None
      BY <1>3, <1>6 DEF PlayersRight
    <2>2. PlayerOf(UserUnder(n.key))' = PlayerOf(UserBy(data, n.key))
      BY <1>2, SameAfter
    <2> QED BY <2>1, <2>2
  <1>7. RightPlayer'
    BY <1>5, <1>6 DEF RightPlayer, OrDying
  <1> QED BY <1>4, <1>7

LEMMA SendsRight ==
    ASSUME IInv, Sends, dying' = dying
    PROVE  RightPlayer' /\ ValuesAsSent'
  <1>1. CASE SendGameEvent
    <2> SUFFICES ASSUME Clear'
                 PROVE  RightPlayer' /\ ValuesAsSent'
      BY DEF RightPlayer, ValuesAsSent
    <2>1. CASE emitted' = << >>
      <3>1. Range(emitted') = {}
        BY <2>1, EmittedOnce
      <3>2. Mentions' = {}
        BY <3>1 DEF Mentions
      <3> QED BY <3>1, <3>2 DEF RightPlayer, ValuesAsSent
    <2>2. CASE \E raw \in Description : \E cells, id :
                 /\ UsersAreNumbers(raw) /\ SentFor(raw, cells)
                 /\ said' = [about |-> "event", of |-> raw, cells |-> cells]
                 /\ emitted' = <<[event |-> "gameEvent", name |-> raw.name, eventId |-> id,
                                  data |-> MeantBy(raw, cells)]>>
                               \o Tier1(id, raw.name, MeantBy(raw, cells))
      BY <2>2, TierOneRight, ListedRight
    <2> QED BY <1>1, <2>1, <2>2, EventEmits
  <1>2. CASE SendUnlisted
    BY <1>2, UnlistedEmits, PlainRight
  <1>3. CASE SendChat
    BY <1>3, ChatEmits, PlainRight
  <1>4. CASE SendVoice
    BY <1>4, VoiceEmits, PlainRight
  <1> QED BY <1>1, <1>2, <1>3, <1>4 DEF Sends

LEMMA StepRight ==
    ASSUME IInv, RightPlayer, ValuesAsSent, [Next]_vars
    PROVE  RightPlayer' /\ ValuesAsSent'
  <1>1. CASE Sends /\ UNCHANGED <<list, dying>>
    BY <1>1, SendsRight
  <1>2. CASE said' = None
    BY <1>2 DEF RightPlayer, ValuesAsSent, Clear
  <1>3. CASE UNCHANGED vars
    <2>1. /\ said' = said /\ emitted' = emitted /\ dying' = dying
          /\ listed' = listed /\ roster' = roster
      BY <1>3 DEF vars
    <2>2. Meant' = Meant /\ (Clear' <=> Clear)
      BY <2>1 DEF Meant, Clear, TypesKnown
    <2>3. /\ \A k : UserUnder(k)' = UserUnder(k)
          /\ \A u : PlayerOf(u)' = PlayerOf(u)
      BY <2>1, <2>2 DEF UserUnder, PlayerOf, AllListed
    <2>4. RosterName(Meant)' = RosterName(Meant)
      BY <2>1, <2>2 DEF RosterName, NameOf
    <2>5. Mentions' = Mentions
      BY <2>1, <2>3 DEF Mentions, IsTyped
    <2>6. RightPlayer'
      <3>1. \A n : PlayerOf(UserUnder(n.key))' = PlayerOf(UserUnder(n.key))
        BY <2>1, <2>3 DEF PlayerOf, AllListed
      <3>2. \A x : PlayerOf(x.user)' = PlayerOf(x.user)
        BY <2>3
      <3> QED BY <2>1, <2>2, <2>5, <3>1, <3>2 DEF RightPlayer
    <2>7. ValuesAsSent'
      BY <2>1, <2>2, <2>4 DEF ValuesAsSent
    <2> QED BY <2>6, <2>7
  <1> QED BY <1>1, <1>2, <1>3
      DEF Next, Returned, GameEventList, ReadPlayers, Join, Left, CreatePlayer, DeletePlayer

-----------------------------------------------------------------------------
(* Theorems *)

\* Users, slots, entities and the memoized array stay together (UserInfoIndex,
\* EntityList and the getter `players' of DemoParser).
THEOREM SeatsHold == Spec => []IInv
  <1>1. IInv /\ [Next]_vars => IInv'
    BY StepKeeps
  <1> QED BY <1>1, InitHolds, PTL DEF Spec

\* Whoever an event, a chat message or a voice frame shows is the one the server named
\* (EnricherContext.resolvePlayer and its callers), whatever the lists, the slots, the
\* users and the order in which rosters, entities and messages arrive.
THEOREM RightPlayers == Spec => []RightPlayer
  <1>1. Init => RightPlayer /\ ValuesAsSent
    BY DEF Init, RightPlayer, ValuesAsSent, Clear
  <1>2. IInv /\ RightPlayer /\ ValuesAsSent /\ [Next]_vars => (RightPlayer /\ ValuesAsSent)'
    BY StepRight
  <1> QED BY <1>1, <1>2, SeatsHold, PTL DEF Spec

\* The values of a game event come out as the server sent them, raw and typed
\* (decodeGameEvent, buildDescriptorTable and the enrichers).
THEOREM ValuesArrive == Spec => []ValuesAsSent
  <1>1. Init => RightPlayer /\ ValuesAsSent
    BY DEF Init, RightPlayer, ValuesAsSent, Clear
  <1>2. IInv /\ RightPlayer /\ ValuesAsSent /\ [Next]_vars => (RightPlayer /\ ValuesAsSent)'
    BY StepRight
  <1> QED BY <1>1, <1>2, SeatsHold, PTL DEF Spec

=============================================================================
