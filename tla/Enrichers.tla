------------------------------ MODULE Enrichers ------------------------------
(***************************************************************************)
(* The Tier-1 enrichers (src/src/events/enrichers/): which players and     *)
(* which values of a decoded game event the typed event carries.  An       *)
(* enricher is data here: the players it needs (an event without one of    *)
(* them is skipped), the players it may mention, and the fields it copies. *)
(*                                                                         *)
(* A decoded value is [type, v], with type its JavaScript type and v a     *)
(* number: 0 is the zero of every type (0, "", false), and what a field    *)
(* gets when its key is missing or has another type.                       *)
(***************************************************************************)
EXTENDS Integers, FiniteSets, TLC

\* A player, looked up by the user id under a key; NonZero does not look up 0.
Named(field, key) == [field |-> field, key |-> key, zero |-> TRUE]
NonZero(field, key) == [field |-> field, key |-> key, zero |-> FALSE]

\* A field, copied from a key of a type.
Number(field, key) == [field |-> field, key |-> key, types |-> {"number"}]
Text(field, key) == [field |-> field, key |-> key, types |-> {"string"}]
Flag(field, key) == [field |-> field, key |-> key, types |-> {"boolean"}]
NumberOrFlag(field, key) == [field |-> field, key |-> key, types |-> {"number", "boolean"}]

\* `round`: the event carries gameRules.totalRoundsPlayed.
Enricher(needs, may, reads) == [needs |-> needs, may |-> may, reads |-> reads, round |-> FALSE]
RoundEvent(reads) == [needs |-> {}, may |-> {}, reads |-> reads, round |-> TRUE]

Player == Named("player", "userid")
Thrower == NonZero("thrower", "userid")
Position == {Number("x", "x"), Number("y", "y"), Number("z", "z")}

-----------------------------------------------------------------------------
(* The bomb. *)

enrichBombAbortDefuse == Enricher({Player}, {}, {})
enrichBombAbortPlant  == Enricher({Player}, {}, {Number("site", "site")})
enrichBombBeginDefuse == Enricher({Player}, {}, {Flag("hasKit", "haskit")})
enrichBombBeginPlant  == Enricher({Player}, {}, {Number("site", "site")})
enrichBombDefused     == Enricher({Player}, {}, {Number("site", "site")})
enrichBombDropped     == Enricher({Player}, {}, {Number("entityIndex", "entindex")})
enrichBombExploded    == Enricher({}, {}, {Number("site", "site")})
enrichBombPickedUp    == Enricher({Player}, {}, {})
enrichBombPlanted     == Enricher({Player}, {}, {Number("site", "site")})

(* Combat and players. *)

enrichBulletImpact == Enricher({}, {NonZero("player", "userid")}, Position)
enrichOtherDeath ==
  Enricher({}, {NonZero("attacker", "attacker")},
           {Text("entityType", "othertype"), Text("weapon", "weapon")})
enrichPlayerBlind ==
  Enricher({Player}, {NonZero("attacker", "attacker")}, {Number("blindDuration", "blind_duration")})
enrichPlayerDeath ==
  Enricher({Named("victim", "userid")},
           {NonZero("attacker", "attacker"), NonZero("assister", "assister")},
           {Text("weapon", "weapon"), NumberOrFlag("penetrated", "penetrated")}
           \cup {Flag(k, k) : k \in {"headshot", "noscope", "thrusmoke", "attackerblind"}})
enrichPlayerGivenC4 == Enricher({Player}, {}, {})
enrichPlayerHurt ==
  Enricher({Named("victim", "userid")}, {NonZero("attacker", "attacker")},
           { Text("weapon", "weapon"), Number("damage", "dmg_health"),
             Number("damageArmor", "dmg_armor"), Number("hitGroup", "hitgroup"),
             Number("healthRemaining", "health"), Number("armorRemaining", "armor") })
enrichPlayerSpawned == Enricher({Player}, {}, {Flag("inRestart", "inrestart")})
enrichBotTakeover   == Enricher({Player}, {}, {Number("botId", "botid")})
enrichRoundMvp      == Enricher({Player}, {}, {Number("reason", "reason")})

(* Grenades. *)

enrichDecoyDetonate        == Enricher({}, {Thrower}, Position)
enrichFlashbangDetonate    == Enricher({}, {Thrower}, Position)
enrichGrenadeBounce        == Enricher({Thrower}, {}, {})
enrichGrenadeThrown        == Enricher({Thrower}, {}, {Text("weapon", "weapon")})
enrichHeGrenadeDetonate    == Enricher({}, {Thrower}, Position)
enrichMolotovDetonate      == Enricher({}, {Thrower}, Position)
enrichSmokeGrenadeDetonate == Enricher({}, {Thrower}, Position)
enrichSmokeGrenadeExpired  == Enricher({}, {Thrower}, Position)
enrichInfernoExpired       == Enricher({}, {}, Position)

(* Hostages, items and weapons. *)

enrichHostageHurt     == Enricher({Player}, {}, {Number("hostage", "hostage")})
enrichHostagePickedUp == Enricher({Player}, {}, {Number("hostage", "hostage")})
enrichHostageRescued  ==
  Enricher({Player}, {}, {Number("hostage", "hostage"), Number("site", "site")})
enrichItemEquip    == Enricher({Player}, {}, {Text("item", "item")})
enrichItemPickup   == Enricher({Player}, {}, {Text("item", "item")})
enrichItemPurchase == Enricher({Player}, {}, {Text("item", "weapon")})
enrichWeaponFire   == Enricher({Player}, {}, {Text("weapon", "weapon"), Flag("silenced", "silenced")})
enrichWeaponReload == Enricher({Player}, {}, {})
enrichWeaponZoom   == Enricher({Player}, {}, {})

(* Connections. *)

enrichPlayerConnect ==
  Enricher({}, {}, {Text("name", "name"), Text("steamId", "networkid"),
                    Number("userId", "userid"), Flag("isBot", "bot")})
enrichPlayerDisconnect ==
  Enricher({}, {Player}, {Number("userId", "userid"), Text("name", "name"), Text("reason", "reason")})
enrichPlayerTeamChange ==
  Enricher({}, {Player}, {Number("newTeam", "team"), Number("oldTeam", "oldteam"),
                          Flag("silent", "silent"), Flag("isBot", "isbot")})

(* Rounds and the match. *)

enrichRoundEnd ==
  RoundEvent({Number("winner", "winner"), Number("reason", "reason"), Text("message", "message")})
enrichRoundFreezeEnd == RoundEvent({})
enrichRoundPoststart == RoundEvent({})
enrichRoundPrestart  == RoundEvent({})
enrichRoundStart ==
  RoundEvent({Number("timeLimit", "timelimit"), Number("fragLimit", "fraglimit"),
              Text("objective", "objective")})
enrichAnnouncePhaseEnd == Enricher({}, {}, {})
enrichBeginNewMatch    == Enricher({}, {}, {})
enrichCsWinPanelMatch  == Enricher({}, {}, {})
enrichCsWinPanelRound ==
  Enricher({}, {}, {Text("funFactToken", "funfact_token"), Number("finalEvent", "final_event"),
                    Number("funFactPlayer", "funfact_player"), Number("funFactData1", "funfact_data1"),
                    Number("funFactData2", "funfact_data2"), Number("funFactData3", "funfact_data3")})
enrichMatchEndConditions ==
  Enricher({}, {}, {Number("frags", "frags"), Number("maxRounds", "max_rounds"),
                    Number("winRounds", "win_rounds"), Number("time", "time")})

-----------------------------------------------------------------------------

enricherTable ==
  [ bomb_abortdefuse |-> enrichBombAbortDefuse, bomb_abortplant |-> enrichBombAbortPlant,
    bomb_begindefuse |-> enrichBombBeginDefuse, bomb_beginplant |-> enrichBombBeginPlant,
    bomb_defused |-> enrichBombDefused, bomb_dropped |-> enrichBombDropped,
    bomb_exploded |-> enrichBombExploded, bomb_pickup |-> enrichBombPickedUp,
    bomb_planted |-> enrichBombPlanted, bullet_impact |-> enrichBulletImpact,
    other_death |-> enrichOtherDeath, player_blind |-> enrichPlayerBlind,
    player_death |-> enrichPlayerDeath, player_given_c4 |-> enrichPlayerGivenC4,
    player_hurt |-> enrichPlayerHurt, player_spawn |-> enrichPlayerSpawned,
    decoy_detonate |-> enrichDecoyDetonate, flashbang_detonate |-> enrichFlashbangDetonate,
    grenade_bounce |-> enrichGrenadeBounce, grenade_thrown |-> enrichGrenadeThrown,
    hegrenade_detonate |-> enrichHeGrenadeDetonate, hostage_follows |-> enrichHostagePickedUp,
    hostage_hurt |-> enrichHostageHurt, hostage_rescued |-> enrichHostageRescued,
    inferno_expire |-> enrichInfernoExpired, item_equip |-> enrichItemEquip,
    item_pickup |-> enrichItemPickup, item_purchase |-> enrichItemPurchase,
    molotov_detonate |-> enrichMolotovDetonate, smokegrenade_detonate |-> enrichSmokeGrenadeDetonate,
    smokegrenade_expired |-> enrichSmokeGrenadeExpired, player_connect |-> enrichPlayerConnect,
    player_disconnect |-> enrichPlayerDisconnect, player_team |-> enrichPlayerTeamChange,
    round_end |-> enrichRoundEnd, round_freeze_end |-> enrichRoundFreezeEnd,
    round_poststart |-> enrichRoundPoststart, round_prestart |-> enrichRoundPrestart,
    round_start |-> enrichRoundStart, weapon_fire |-> enrichWeaponFire,
    weapon_reload |-> enrichWeaponReload, weapon_zoom |-> enrichWeaponZoom,
    announce_phase_end |-> enrichAnnouncePhaseEnd, begin_new_match |-> enrichBeginNewMatch,
    bot_takeover |-> enrichBotTakeover, cs_win_panel_match |-> enrichCsWinPanelMatch,
    cs_win_panel_round |-> enrichCsWinPanelRound, match_end_conditions |-> enrichMatchEndConditions,
    round_mvp |-> enrichRoundMvp ]

\* The network id that marks a bot, "BOT".
BotNetworkId == 1

\* The value of a key, if it has one of the types; 0 otherwise.
ValueUnder(data, key, types) ==
  IF key \in DOMAIN data /\ data[key].type \in types THEN data[key].v ELSE 0

\* The fields that are not a mere copy: a bot may be known by its network id only, a
\* player that left without a name has the one of the roster, and a count of walls
\* becomes a flag.
FieldOf(name, read, data, rosterName) ==
  LET copied == ValueUnder(data, read.key, read.types)
  IN CASE name = "player_connect" /\ read.field = "isBot" ->
            (IF ValueUnder(data, "networkid", {"string"}) = BotNetworkId THEN 1 ELSE copied)
       [] name = "player_disconnect" /\ read.field = "name" /\ copied = 0 -> rosterName
       [] "boolean" \in read.types /\ copied # 0 -> 1
       [] OTHER -> copied
=============================================================================
