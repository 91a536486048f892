----------------------------- MODULE EntityViews -----------------------------
(***************************************************************************)
(* What Player, Team, Weapon, GameRules and PlayerResource (src/src/state) *)
(* show of an entity: each finds the indices of its props by name, once,   *)
(* in the list that Datatables flattened, and reads the entity's row under *)
(* them.  Here the row is what one message of EntityDeltas wrote.          *)
(*                                                                         *)
(* A getter is [name, table, instead, as]: the prop's name, the table it   *)
(* is looked for in ("" for any), the table to fall back to when the list  *)
(* has no such prop ("" for none) and what becomes of the value.           *)
(***************************************************************************)
EXTENDS EntityDeltas

CONSTANTS
  SlotNames,        \* the names "000", "001", .. of the props of a stat table, with their number
  MaxPlayerSlots    \* MAX_PLAYER_SLOTS

-----------------------------------------------------------------------------
(* Finding a prop; 0 for none. *)

AnyTable == ""     \* undefined in the code

FindByName(list, name, table) ==        \* variant: the table is ignored
  LET found == {i \in DOMAIN list : list[i].prop.varName = name}
  IN IF found = {} THEN 0 ELSE CHOOSE i \in found : \A j \in found : i <= j

Matches(leaf, name, table) == leaf.prop.varName = name /\ table \in {AnyTable, leaf.source}

FindIdx(list, name, table) ==
  LET found == {i \in DOMAIN list : Matches(list[i], name, table)}
  IN IF found = {} THEN 0 ELSE CHOOSE i \in found : \A j \in found : i <= j

FindIdxFallback(list, name, primary, instead) ==
  LET first == FindIdx(list, name, primary)
  IN IF first # 0 THEN first ELSE FindIdx(list, name, instead)

IndexOf(list, getter) ==
  IF getter.instead = AnyTable THEN FindIdx(list, getter.name, getter.table)
  ELSE FindIdxFallback(list, getter.name, getter.table, getter.instead)

\* The slots of a stat table; of two props with one slot the last counts, and
\* the tail behind the last slot is left out.
IsSlot(leaf, stat, slot) ==
  leaf.source = stat /\ leaf.prop.varName \in DOMAIN SlotNames /\ SlotNames[leaf.prop.varName] = slot

Latest(found) == CHOOSE i \in found : \A j \in found : j <= i

ResolveSlots(list, stat) ==
  [slot \in 0..(MaxPlayerSlots - 1) |->
     LET found == {i \in DOMAIN list : IsSlot(list[i], stat, slot)}
     IN IF found = {} THEN 0 ELSE Latest(found)]

-----------------------------------------------------------------------------
(* The getters. *)

PropAs(name, as) == [name |-> name, table |-> AnyTable, instead |-> AnyTable, as |-> as]
In(table, name, as) == [PropAs(name, as) EXCEPT !.table = table]
Origin(name, as) ==
  [In("DT_CSNonLocalPlayerExclusive", name, as) EXCEPT !.instead = "DT_CSLocalPlayerExclusive"]

\* `position` is the pair and z.
Player ==
  [ team               |-> PropAs("m_iTeamNum", "number"),
    health             |-> PropAs("m_iHealth", "number"),
    money              |-> PropAs("m_iAccount", "number"),
    positionXy         |-> Origin("m_vecOrigin", "pair"),
    positionZ          |-> Origin("m_vecOrigin[2]", "number"),
    pitch              |-> PropAs("m_angEyeAngles[0]", "number"),
    yaw                |-> PropAs("m_angEyeAngles[1]", "number"),
    isAlive            |-> PropAs("m_lifeState", "isZero"),
    activeWeaponHandle |-> PropAs("m_hActiveWeapon", "number") ]

Team ==
  [ team            |-> PropAs("m_iTeamNum", "number"),
    surrendered     |-> PropAs("m_bSurrendered", "isSet"),
    score           |-> PropAs("m_scoreTotal", "number"),
    scoreFirstHalf  |-> PropAs("m_scoreFirstHalf", "number"),
    scoreSecondHalf |-> PropAs("m_scoreSecondHalf", "number"),
    scoreOvertime   |-> PropAs("m_scoreOvertime", "number"),
    clanId          |-> PropAs("m_iClanID", "number"),
    name            |-> PropAs("m_szTeamname", "text"),
    clanName        |-> PropAs("m_szClanTeamname", "text"),
    flagImage       |-> PropAs("m_szTeamFlagImage", "text"),
    logoImage       |-> PropAs("m_szTeamLogoImage", "text"),
    matchStat       |-> PropAs("m_szTeamMatchStat", "text"),
    numMapVictories |-> PropAs("m_numMapVictories", "number"),
    playerSlots     |-> PropAs("\"player_array\"", "list") ]

Rules(name, as) == In("DT_CSGameRules", name, as)

GameRules ==
  [ roundTime         |-> Rules("m_iRoundTime", "number"),
    totalRoundsPlayed |-> Rules("m_totalRoundsPlayed", "number"),
    gamePhase         |-> Rules("m_gamePhase", "number"),
    overtimePlaying   |-> Rules("m_nOvertimePlaying", "number"),
    roundStartTime    |-> Rules("m_fRoundStartTime", "number"),
    restartRoundTime  |-> Rules("m_flRestartRoundTime", "number"),
    matchStartTime    |-> Rules("m_fMatchStartTime", "number"),
    isWarmup          |-> Rules("m_bWarmupPeriod", "isSet"),
    isFreezePeriod    |-> Rules("m_bFreezePeriod", "isSet"),
    isBombPlanted     |-> Rules("m_bBombPlanted", "isSet"),
    isBombDropped     |-> Rules("m_bBombDropped", "isSet"),
    hasMatchStarted   |-> Rules("m_bHasMatchStarted", "isSet"),
    roundWinStatus    |-> Rules("m_iRoundWinStatus", "number"),
    roundWinReason    |-> Rules("m_eRoundWinReason", "number"),
    bombSite          |-> In("DT_RetakeGameRules", "m_iBombSite", "number") ]

Weapon ==
  [ ownerHandle  |-> PropAs("m_hOwnerEntity", "number"),
    clip1        |-> PropAs("m_iClip1", "number"),
    clip2        |-> PropAs("m_iClip2", "number"),
    reserveAmmo  |-> PropAs("m_iPrimaryReserveAmmoCount", "number"),
    itemDefIndex |-> PropAs("m_iItemDefinitionIndex", "number") ]

PlayerResource ==
  [ kills |-> "m_iKills", deaths |-> "m_iDeaths", assists |-> "m_iAssists",
    scores |-> "m_iScore", pings |-> "m_iPing" ]

-----------------------------------------------------------------------------
(* Reading; a value of another type, like one never written, is the zero. *)

Written(list, row, i, types) == i \in DOMAIN row /\ list[i].prop.type \in types

ReadNum(list, row, i) == IF Written(list, row, i, {"INT", "FLOAT"}) THEN row[i] ELSE 0

ReadString(list, row, i) == IF Written(list, row, i, {"STRING"}) THEN row[i] ELSE <<>>

ReadPair(list, row, i) ==
  IF Written(list, row, i, {"VECTOR", "VECTORXY"}) THEN <<row[i][1], row[i][2]>> ELSE <<0, 0>>

ReadList(list, row, i) == IF Written(list, row, i, {"ARRAY"}) THEN row[i] ELSE <<>>

Value(getter, list, row) ==
  LET i == IndexOf(list, getter)
  IN CASE getter.as = "number" -> ReadNum(list, row, i)
       [] getter.as = "isSet"  -> ReadNum(list, row, i) # 0
       [] getter.as = "isZero" -> ReadNum(list, row, i) = 0
       [] getter.as = "text"   -> ReadString(list, row, i)
       [] getter.as = "pair"   -> ReadPair(list, row, i)
       [] getter.as = "list"   -> ReadList(list, row, i)

Constructs(getters, list) == \A g \in DOMAIN getters : IndexOf(list, getters[g]) # 0

Snapshot(getters, list, row) == [g \in DOMAIN getters |-> Value(getters[g], list, row)]

ReadSlot(indices, list, row, slot) ==
  IF slot \in DOMAIN indices THEN ReadNum(list, row, indices[slot]) ELSE 0

ResourceConstructs(list) ==
  \A stat \in Range(PlayerResource) : \A slot \in 0..(MaxPlayerSlots - 1) : ResolveSlots(list, stat)[slot] # 0

\* killsForSlot and the others.
ForSlot(stat, list, row, slot) == ReadSlot(ResolveSlots(list, stat), list, row, slot)

\* The overlay that the getters of DemoParser build for a class.
OverlayOf(class) ==
  CASE class.name = "CCSPlayer" -> Player
    [] class.name = "CCSTeam" -> Team
    [] class.name = "CCSGameRulesProxy" -> GameRules
    [] FindIdx(class.flattenedProps, "m_iClip1", AnyTable) # 0 -> Weapon
    [] OTHER -> <<>>

\* The types whose values a getter can show.
Types(as) ==
  CASE as \in {"number", "isSet", "isZero"} -> {"INT", "FLOAT"}
    [] as = "text"                         -> {"STRING"}
    [] as = "pair"                         -> {"VECTORXY"}
    [] as = "list"                         -> {"ARRAY"}
    [] OTHER                               -> {}

\* A class of the game has the props of its overlay, each of them once.
HasProp(list, getter) ==
  \E i \in DOMAIN list, table \in {getter.table, getter.instead} :
    /\ {j \in DOMAIN list : Matches(list[j], getter.name, table)} = {i}
    /\ list[i].prop.type \in Types(getter.as)
    /\ table # getter.table =>
         /\ AnyTable \notin {getter.table, getter.instead}
         /\ {j \in DOMAIN list : Matches(list[j], getter.name, getter.table)} = {}
    /\ getter.table = AnyTable => getter.instead = AnyTable

HasSlots(list) ==
  \A stat \in Range(PlayerResource), slot \in 0..(MaxPlayerSlots - 1) :
    \E i \in DOMAIN list :
      /\ {j \in DOMAIN list : IsSlot(list[j], stat, slot)} = {i}
      /\ list[i].prop.type \in {"INT", "FLOAT"}

ASSUME OverlaysAssumption ==
  /\ MaxPlayerSlots \in Nat \ {0}
  /\ \A name, other \in DOMAIN SlotNames :
       SlotNames[name] \in Nat /\ (SlotNames[name] = SlotNames[other] => name = other)
  /\ \A parsed \in ParsedClasses : \A i \in DOMAIN parsed : parsed[i].sendTable # None =>
       LET list == parsed[i].flattenedProps
           overlay == OverlayOf(parsed[i])
       IN /\ \A g \in DOMAIN overlay : HasProp(list, overlay[g])
          /\ parsed[i].name = "CCSPlayerResource" => HasSlots(list)

-----------------------------------------------------------------------------

\* The row of an entity that entered: each index with the last value written.
RowOf(list, changes) ==
  [i \in {j \in DOMAIN list : \E c \in DOMAIN changes : changes[c][1] = list[j]} |->
     changes[Latest({c \in DOMAIN changes : changes[c][1] = list[i]})][2]]

ClassOf(k) == classes[decoded[k].class + 1]

\* The entities that entered, their props all read.
EnteredEntries == IF stage = "decoded" THEN {k \in DOMAIN decoded : decoded[k].op = "enter"} ELSE {}

\* What was sent last of the prop of this name in one of these tables, or `zero`.
LastSent(changes, name, tables, zero) ==
  LET found == {c \in DOMAIN changes : \E table \in tables : Matches(changes[c][1], name, table)}
  IN IF found = {} THEN zero ELSE changes[Latest(found)][2]

SentAs(k, name, tables, zero) == LastSent(sent.entries[k].changes, name, tables, zero)

\* The table a getter is about: the other one when the list has no such prop.
TableOf(list, getter) ==
  IF \E leaf \in Range(list) : leaf.prop.varName = getter.name /\ leaf.source = getter.table
    THEN getter.table ELSE getter.instead

ZeroOf(as) == CASE as \in {"number", "isSet", "isZero"} -> 0 [] as = "pair" -> <<0, 0>> [] OTHER -> <<>>

Shows(as, v) == CASE as = "isSet" -> v # 0 [] as = "isZero" -> v = 0 [] OTHER -> v

\* Every getter of an overlay shows the value the server gave to its prop, or the zero
\* when it gave none, though the index is never sent and other tables of the class have
\* props of the same name; the stats of a slot are those of that slot and that stat.
ViewsShowWhatWasSent ==
  \A k \in EnteredEntries :
    LET list == ClassOf(k).flattenedProps
        row == RowOf(list, decoded[k].changes)
        overlay == OverlayOf(ClassOf(k))
    IN /\ Constructs(overlay, list)
       /\ \A g \in DOMAIN overlay :
            LET o == overlay[g]
            IN Snapshot(overlay, list, row)[g] =
                 Shows(o.as, SentAs(k, o.name, {TableOf(sent.lists[decoded[k].class], o)}, ZeroOf(o.as)))
       /\ ClassOf(k).name = "CCSPlayerResource" =>
            /\ ResourceConstructs(list)
            /\ \A stat \in Range(PlayerResource), name \in DOMAIN SlotNames :
                 ForSlot(stat, list, row, SlotNames[name]) =
                   IF SlotNames[name] < MaxPlayerSlots THEN SentAs(k, name, {stat}, 0) ELSE 0

\* Player.ts, lines 24-29: the server fills one of the two pairs, depending on whether
\* the player is the local one, and `position` falls back to the local pair.
PositionOfEveryPlayer ==
  \A k \in EnteredEntries : ClassOf(k).name = "CCSPlayer" =>
    LET list == ClassOf(k).flattenedProps
    IN Snapshot(Player, list, RowOf(list, decoded[k].changes)).positionXy =
         SentAs(k, "m_vecOrigin", {"DT_CSLocalPlayerExclusive", "DT_CSNonLocalPlayerExclusive"}, <<0, 0>>)
=============================================================================
