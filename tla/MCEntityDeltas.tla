---------------------------- MODULE MCEntityDeltas ----------------------------
(* Modules EntityDeltas and EntityViews for TLC.  Five games: a player and a bot that
   share a base table, of which the player excludes a prop; a table that two others
   share; one table with a prop of every encoding; the classes that have overlays; and
   a player with the local table alone. *)
EXTENDS PacketEntities

Prop(type, name, flags, priority) ==
  [ type |-> type, varName |-> name, flags |-> flags, priority |-> priority, dtName |-> None,
    numElements |-> 0, lowValue |-> 0, highValue |-> 0, numBits |-> 5 ]

Sub(table, flags) == [Prop("DATATABLE", table, flags, 0) EXCEPT !.dtName = table]
Exclude(table, name) == [Prop("INT", name, {"EXCLUDE"}, 0) EXCEPT !.dtName = table]
Elements(name, n, priority) == [Prop("ARRAY", name, {}, priority) EXCEPT !.numElements = n]

Table(name, list) == [name |-> name, props |-> list]

Base == Table("Base", <<
  Prop("INT", "team", {"UNSIGNED"}, 128),
  Prop("INT", "owner", {}, 2),
  Prop("FLOAT", "time", {"COORD", "CHANGES_OFTEN"}, 128) >>)
Local == Table("Local", <<
  Prop("INT", "ammo", {"UNSIGNED", "INSIDEARRAY"}, 0),
  Elements("ammo", 2, 128),
  Prop("INT", "early", {"UNSIGNED", "CHANGES_OFTEN"}, 0) >>)
PlayerTable == Table("Player", <<
  Exclude("Base", "owner"),
  Prop("INT", "health", {"UNSIGNED"}, 1),
  Sub("Base", {"COLLAPSIBLE"}),
  Sub("Local", {}),
  Prop("INT", "armor", {"UNSIGNED"}, 64) >>)
Bot == Table("Bot", << Prop("INT", "skill", {"UNSIGNED"}, 2), Sub("Base", {}) >>)

Shared == Table("Shared", << Prop("INT", "a", {"UNSIGNED"}, 2), Prop("INT", "b", {"UNSIGNED"}, 1) >>)
Left == Table("Left", << Prop("INT", "l", {"UNSIGNED"}, 2), Sub("Shared", {}) >>)
Right == Table("Right", << Sub("Shared", {"COLLAPSIBLE"}), Prop("INT", "r", {"UNSIGNED"}, 1) >>)
Root == Table("Root", << Prop("INT", "own", {"UNSIGNED"}, 2), Sub("Right", {"COLLAPSIBLE"}), Sub("Left", {}) >>)

Codecs == Table("Codecs", <<
  Prop("INT", "signed", {}, 0),
  [Prop("INT", "wide", {"UNSIGNED"}, 0) EXCEPT !.numBits = 29],
  Prop("INT", "varint", {"VARINT", "UNSIGNED"}, 0),
  Prop("INT", "zigzag", {"VARINT"}, 0),
  Prop("FLOAT", "coord", {"COORD"}, 0),
  Prop("FLOAT", "mp", {"COORD_MP"}, 0),
  Prop("FLOAT", "mpLow", {"COORD_MP_LP"}, 0),
  Prop("FLOAT", "mpInt", {"COORD_MP_INT"}, 0),
  Prop("FLOAT", "raw", {"NOSCALE"}, 0),
  Prop("FLOAT", "cell", {"CELL_COORD"}, 0),
  Prop("FLOAT", "cellLow", {"CELL_COORD_LP"}, 0),
  Prop("FLOAT", "cellInt", {"CELL_COORD_INT"}, 0),
  [Prop("FLOAT", "steps", {}, 0) EXCEPT !.highValue = 10, !.numBits = 3],
  [Prop("FLOAT", "down", {"ROUNDDOWN"}, 0) EXCEPT !.highValue = 10, !.numBits = 3],
  [Prop("FLOAT", "up", {"ROUNDUP"}, 0) EXCEPT !.highValue = 10, !.numBits = 3],
  Prop("VECTOR", "normal", {"NORMAL"}, 0),
  Prop("VECTOR", "origin", {"COORD"}, 0),
  Prop("VECTORXY", "angles", {"COORD_MP_INT"}, 0),
  Prop("STRING", "place", {}, 0),
  Prop("FLOAT", "element", {"INSIDEARRAY", "COORD_MP_INT"}, 0),
  Elements("list", 2, 0),
  Prop("INT64", "long", {"VARINT"}, 0),
  [Prop("INT64", "pair", {}, 0) EXCEPT !.numBits = 36],
  [Prop("INT64", "narrow", {"UNSIGNED"}, 0) EXCEPT !.numBits = 6] >>)

\* The classes with an overlay; numbers of two bits, texts, and the origin twice.
Number(name) == [Prop("INT", name, {"UNSIGNED"}, 0) EXCEPT !.numBits = 2]
Text(name) == Prop("STRING", name, {}, 0)
Ints(names) == [i \in DOMAIN names |-> Number(names[i])]
OriginOf(table) == Table(table, <<
  Prop("VECTORXY", "m_vecOrigin", {"COORD_MP_INT"}, 0), Prop("FLOAT", "m_vecOrigin[2]", {"COORD_MP_INT"}, 0) >>)
LocalOrigin == OriginOf("DT_CSLocalPlayerExclusive")
NonLocalOrigin == OriginOf("DT_CSNonLocalPlayerExclusive")
CSPlayer == Table("DT_CSPlayer",
  Ints(<<"m_iTeamNum", "m_iHealth", "m_iAccount", "m_angEyeAngles[0]", "m_angEyeAngles[1]", "m_lifeState",
         "m_hActiveWeapon">>) \o <<Sub("DT_CSLocalPlayerExclusive", {}), Sub("DT_CSNonLocalPlayerExclusive", {})>>)
PovPlayer == Table("DT_CSPlayer", SubSeq(CSPlayer.props, 1, 8))
CSTeam == Table("DT_Team",
  Ints(<<"m_iTeamNum", "m_bSurrendered", "m_scoreTotal", "m_scoreFirstHalf", "m_scoreSecondHalf",
         "m_scoreOvertime", "m_iClanID", "m_numMapVictories">>)
  \o <<Text("m_szTeamname"), Text("m_szClanTeamname"), Text("m_szTeamFlagImage"), Text("m_szTeamLogoImage"),
       Text("m_szTeamMatchStat"), [Number("player_array_element") EXCEPT !.flags = {"UNSIGNED", "INSIDEARRAY"}],
       Elements("\"player_array\"", 2, 0)>>)
CSRules == Table("DT_CSGameRules",
  Ints(<<"m_iRoundTime", "m_totalRoundsPlayed", "m_gamePhase", "m_nOvertimePlaying", "m_fRoundStartTime",
         "m_flRestartRoundTime", "m_fMatchStartTime", "m_bWarmupPeriod", "m_bFreezePeriod", "m_bBombPlanted",
         "m_bBombDropped", "m_bHasMatchStarted", "m_iRoundWinStatus", "m_eRoundWinReason">>))
Retake == Table("DT_RetakeGameRules", <<Number("m_iBombSite"), Number("m_iRoundTime")>>)
RulesProxy == Table("DT_CSGameRulesProxy", <<Sub("DT_RetakeGameRules", {}), Sub("DT_CSGameRules", {})>>)
Gun == Table("DT_WeaponCSBase",
  Ints(<<"m_iClip1", "m_iClip2", "m_iPrimaryReserveAmmoCount", "m_iItemDefinitionIndex", "m_hOwnerEntity">>))
Stat(name) == Table(name, Ints(<<"000", "001", "002">>))
Stats == <<Stat("m_iKills"), Stat("m_iDeaths"), Stat("m_iAssists"), Stat("m_iScore"), Stat("m_iPing")>>
Resource == Table("DT_CSPlayerResource", [i \in DOMAIN Stats |-> Sub(Stats[i].name, {})])

MCSlotNames == ("000" :> 0) @@ ("001" :> 1) @@ ("002" :> 2)

WithOverlays ==
  <<CSPlayer, LocalOrigin, NonLocalOrigin, CSTeam, CSRules, Retake, RulesProxy, Gun, Resource>> \o Stats

AllTables == {Base, Local, PlayerTable, Bot, Shared, Left, Right, Root, Codecs, PovPlayer} \cup Range(WithOverlays)

\* The leaves that any of these tables can yield.
MCFlatProps ==
  {Leaf(t, p, e) : t \in AllTables, p \in UNION {Range(u.props) : u \in AllTables},
                   e \in {<<>>, <<Leaf(Local, Local.props[1], <<>>)>>}}

Game(tables, roots) ==
  [server  |-> [n \in {t.name : t \in Range(tables)} |->
                  CHOOSE t \in Range(tables) : t.name = n],
   classes |-> [i \in DOMAIN roots |-> [name |-> roots[i], dtName |-> roots[i]]]]

Players == Game(<<Base, Local, PlayerTable, Bot>>, <<"Player", "Bot", "Gone">>)
Diamond == Game(<<Shared, Left, Right, Root>>, <<"Root", "Right">>)
Everything == Game(<<Codecs>>, <<"Codecs">>)

Class(name, table) == [name |-> name, dtName |-> table.name]
Match == [Game(WithOverlays, <<>>) EXCEPT !.classes =
  <<Class("CCSPlayer", CSPlayer), Class("CCSTeam", CSTeam), Class("CCSGameRulesProxy", RulesProxy),
    Class("CAK47", Gun), Class("CCSPlayerResource", Resource)>>]
Pov == [Game(<<PovPlayer, LocalOrigin>>, <<>>) EXCEPT !.classes = <<Class("CCSPlayer", PovPlayer)>>]

\* The classes of a game when they are parsed.
Parsed(game) ==
  [i \in DOMAIN game.classes |->
     LET table == game.classes[i].dtName
     IN [ name           |-> game.classes[i].name,
          sendTable      |-> IF table \in DOMAIN game.server THEN table ELSE None,
          flattenedProps |-> IF table \in DOMAIN game.server
                               THEN ServerProps(game.server, game.server[table]) ELSE <<>>,
          flattened      |-> TRUE ]]
MCParsedClasses == {Parsed(game) : game \in {Players, Diamond, Everything, Match, Pov}}

TableMessages(tables) == [i \in DOMAIN tables |-> [kind |-> "table", table |-> tables[i]]]
End == [kind |-> "end"]

Payload(game, messages, whole) ==
  [server |-> game.server, classes |-> game.classes, messages |-> messages, whole |-> whole]

\* The tables of a game in some order, the first of them maybe sent twice, then
\* the terminator; and payloads that stop early or hold another command.
MCPayloads ==
  {Payload(Players, TableMessages(o) \o <<End>>, TRUE) :
     o \in SetToSeqs({Base, Local, PlayerTable, Bot})}
  \cup {Payload(Diamond, TableMessages(<<o[1], o[2], o[1], o[3], o[4]>>) \o <<End>>, TRUE) :
     o \in SetToSeqs({Shared, Left, Right, Root})}
  \cup {Payload(Match, TableMessages(WithOverlays) \o <<End>>, TRUE),
        Payload(Pov, TableMessages(<<PovPlayer, LocalOrigin>>) \o <<End>>, TRUE)}
  \cup {Payload(Everything, TableMessages(<<Codecs>>) \o <<End>>, whole) : whole \in BOOLEAN}
  \cup {Payload(Everything, TableMessages(<<Codecs>>), TRUE),
        Payload(Everything, TableMessages(<<Codecs>>) \o <<[kind |-> "other"], End>>, TRUE)}

-----------------------------------------------------------------------------

\* Values of a float, in units of its encoding.
FloatSamples(p) ==
  CASE FloatEncoding(p) = "COORD"          -> {0, 31, -32, 33 * 32 + 5}
    [] FloatEncoding(p) = "COORD_MP"       -> {0, -7, 3000 * 32 + 1}
    [] FloatEncoding(p) = "COORD_MP_LP"    -> {0, -7, 3000 * 8 + 1}
    [] FloatEncoding(p) = "COORD_MP_INT"   -> {0, -2048, 2049}
    [] FloatEncoding(p) = "NOSCALE"        -> {0, 16777217}
    [] FloatEncoding(p) = "NORMAL"         -> {0, -2047}
    [] FloatEncoding(p) = "CELL_COORD"     -> {0, 1023}
    [] FloatEncoding(p) = "CELL_COORD_LP"  -> {0, 255}
    [] FloatEncoding(p) = "CELL_COORD_INT" -> {0, 31}
    [] FloatEncoding(p) = "QUANTIZED"      -> {Quantized(p, step) : step \in {0, 3, 7}}

Samples(leaf) ==
  LET p == leaf.prop
  IN CASE p.type = "INT" ->
            (CASE Has(p, "VARINT") /\ Has(p, "UNSIGNED") -> {5, 300}
               [] Has(p, "VARINT") /\ ~Has(p, "UNSIGNED") -> {-65, 64}
               [] ~Has(p, "VARINT") /\ Has(p, "UNSIGNED") -> {1, 2 ^ p.numBits - 1}
               [] OTHER -> {-1, 15})
       [] p.type = "INT64" -> (IF Has(p, "VARINT") THEN {-300, 7} ELSE IF p.numBits > 32 THEN {<<9, -1>>} ELSE {63})
       [] p.type = "FLOAT"    -> FloatSamples(p)
       [] p.type = "VECTORXY" -> {<<0, 2049>>}
       [] p.type = "VECTOR"   -> (IF Has(p, "NORMAL") THEN {<<0, -2047, 1>>} ELSE {<<31, 0, -32>>})
       [] p.type = "STRING"   -> {<<>>, <<97, 255>>}
       [] p.type = "ARRAY"    -> (IF leaf.prop.varName = "list" THEN {<<>>, <<0, 2049>>} ELSE {<<3>>})

Sample(leaf) == CHOOSE v \in Samples(leaf) : TRUE

Alone(list) == {<<>>} \cup UNION {{<<<<i, v>>>> : v \in Samples(list[i])} : i \in DOMAIN list}

Pairs(list) ==
  {<<<<x[1], Sample(list[x[1]])>>, <<x[2], Sample(list[x[2]])>>>> :
     x \in {y \in (DOMAIN list) \X (DOMAIN list) : y[1] < y[2]}}

KnownId == 5000
MCKnown == (KnownId :> 0)

Entry(op, id, class, serial, changes) ==
  [op |-> op, id |-> id, class |-> class, serial |-> serial, changes |-> changes]

\* An entity that enters with some of the changes.
Enters(lists, id, Changes(_)) ==
  UNION {{<<Entry("enter", id, c, 513, changes)>> : changes \in Changes(lists[c])} : c \in DOMAIN lists}

\* What can happen to the entity of the list.
OnKnown(lists) ==
  {<<Entry("delete", KnownId, 0, 0, <<>>)>>, <<Entry("leave", KnownId, 0, 0, <<>>)>>}
  \cup {<<Entry("update", KnownId, 0, 0, changes)>> : changes \in Alone(lists[0])}

Message(entries, way, form, cut) == [entries |-> entries, newWay |-> way, form |-> form, cut |-> cut]

\* In a match, one or two changes; else every form, way and cut.
MCMessages(lists) ==
  IF \E leaf \in Range(lists[0]) : leaf.source = "DT_CSPlayer"
    THEN {Message(entries, TRUE, "short", 0) : entries \in Enters(lists, 3, Alone) \cup Enters(lists, 3, Pairs)}
  ELSE
  {Message(entries, way, form, cut) :
     entries \in Enters(lists, 20, Alone), way \in BOOLEAN,
     form \in {"next", "short", "five", "two", "four", "seven"}, cut \in 0..2}
  \cup {Message(entries, TRUE, "short", cut) : entries \in Enters(lists, 3, Pairs), cut \in 0..1}
  \cup {Message(<<Entry("enter", id, 0, 513, <<>>)>> \o later, TRUE, "next", 0) :
          id \in {0, 300, 4990}, later \in OnKnown(lists)}
=============================================================================
