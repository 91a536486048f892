-------------------------------- MODULE Events --------------------------------
(***************************************************************************)
(* Game events, chat and voice: how DemoParser decodes them against the    *)
(* server's list of events and names the players in them.                  *)
(*                                                                         *)
(* A message names a player by a user id or a slot.  The parser goes from  *)
(* the user to the slot in the userinfo table, from the slot to the id of  *)
(* an entity, and from the id to a Player in the memoized array `players', *)
(* three pieces of state that change at different points of the stream.    *)
(* StringTables and Overlays say how each of them is kept; here they meet. *)
(***************************************************************************)
EXTENDS Enrichers, SequencesExt

CONSTANTS
    Slots,              \* slots of the userinfo table, 0, 1, ..
    Users,              \* user ids; no user has the id 0
    Lists,              \* the lists of events a server may send
    UserKeys,           \* the keys that name a user
    Speeches,           \* chat messages: [kind, template, params]
    TeamNames,          \* the names that end in _T or _CT
    MaxSafeInteger,     \* 2^53 - 1
    None

EventKeyTypes == <<"string", "float", "long", "short", "byte", "bool", "uint64">>

Ids == {s + 1 : s \in Slots}

\* A CCSPlayer entity; gen tells the ones that had the same id apart.
Entity == [id : Ids, user : Users, gen : 0..2]

Description == [eventid : Nat, name : STRING, keys : Seq([name : STRING, type : Nat])]

\* The keys under which an event names players.
PlayerKeys(name) ==
    IF name \in DOMAIN enricherTable
      THEN {n.key : n \in enricherTable[name].needs \cup enricherTable[name].may}
      ELSE {}

\* Every key that names a player has a type of number.
UsersAreNumbers(description) ==
    \A i \in DOMAIN description.keys :
        description.keys[i].name \in PlayerKeys(description.name) => description.keys[i].type \in 2..5

ASSUME EventsAssumption ==
    /\ Slots \subseteq Nat
    /\ Users \subseteq Nat \ {0}
    /\ None \notin Nat
    /\ None \notin Entity
    /\ \A S \in SUBSET Entity : None # S
    /\ None \notin {EventKeyTypes[code] : code \in 1..7}
    /\ Lists \subseteq Seq(Description)
    /\ \A l \in Lists : \A i \in DOMAIN l : UsersAreNumbers(l[i])

VARIABLES
    list,           \* the server's list of events
    descriptors,    \* _eventDescriptors: event id -> [name, keys], or None
    roster,         \* the userinfo table: slot -> user, or None
    listed,         \* the entity list: id -> CCSPlayer entity, or None
    memo,           \* _playersCache: the entities of its overlays, or None
    emitted,        \* the events of the handler under way, in order
    said,           \* what the server meant by its message, or None
    dying           \* ghost: the entity whose entityDeleted listener read `players'

parser == <<descriptors, roster, listed, memo>>
vars == <<list, descriptors, roster, listed, memo, emitted, said, dying>>

-----------------------------------------------------------------------------
(* The list of events *)

eventKeyTypeFromWire(code) == IF code \in 1..7 THEN EventKeyTypes[code] ELSE None

\* The keys whose type is known, in order.
KnownKeys(keys) ==
    LET known == {i \in DOMAIN keys : eventKeyTypeFromWire(keys[i].type) # None}
        Nth(n) == CHOOSE i \in known : Cardinality({j \in known : j <= i}) = n
    IN  [n \in 1..Cardinality(known) |->
            [name |-> keys[Nth(n)].name, type |-> eventKeyTypeFromWire(keys[Nth(n)].type)]]

AddKeepsFirst(msg, id) ==       \* variant: an id listed twice keeps its first descriptor
    CHOOSE i \in DOMAIN msg : msg[i].eventid = id /\ \A j \in DOMAIN msg : msg[j].eventid = id => i <= j

\* EventDescriptorTable.add: the last descriptor of an id replaces the others.
Added(msg, id) ==
    CHOOSE i \in DOMAIN msg : msg[i].eventid = id /\ \A j \in DOMAIN msg : msg[j].eventid = id => j <= i

buildDescriptorTable(msg) ==
    [id \in {msg[i].eventid : i \in DOMAIN msg} |->
        [name |-> msg[Added(msg, id)].name, keys |-> KnownKeys(msg[Added(msg, id)].keys)]]

-----------------------------------------------------------------------------
(* One event: cells paired with keys by position *)

\* A cell [code, v] has its value in the field of one wire type; the codec gives the
\* other fields their zero.
decodeKeyValue(type, cell) ==
    LET v == IF eventKeyTypeFromWire(cell.code) = type THEN cell.v ELSE 0
    IN  [type |-> CASE type = "string" -> "string"
                    [] type = "bool" -> "boolean"
                    [] type = "uint64" /\ v > MaxSafeInteger -> "string"
                    [] OTHER -> "number",
         v |-> v]

decodeGameEvent(d, cells) ==
    LET n == IF Len(cells) < Len(d.keys) THEN Len(cells) ELSE Len(d.keys)
        At(k) == CHOOSE i \in 1..n : d.keys[i].name = k
    IN  [k \in {d.keys[i].name : i \in 1..n} |-> decodeKeyValue(d.keys[At(k)].type, cells[At(k)])]

-----------------------------------------------------------------------------
(* Players *)

AllListed(l) == {l[id] : id \in {j \in Ids : l[j] # None}}

\* The getter `players'.
Read(m, l) == IF m = None THEN AllListed(l) ELSE m

playersNow == Read(memo, listed)

\* The player at an entity id, in the array.
AtId(id) ==
    IF \E p \in playersNow : p.id = id THEN CHOOSE p \in playersNow : p.id = id ELSE None

ResolveAtSlot(user) ==          \* variant: the id of the entity is the slot
    IF \E s \in Slots : roster[s] = user THEN AtId(CHOOSE s \in Slots : roster[s] = user) ELSE None

resolvePlayer(user) ==
    IF \E s \in Slots : roster[s] = user
      THEN AtId((CHOOSE s \in Slots : roster[s] = user) + 1)
      ELSE None

-----------------------------------------------------------------------------
(* Tier-1 events *)

NameOf(user) == IF \E s \in Slots : roster[s] = user THEN 100 + user ELSE 0

\* The name the roster has for the user an event is about.
RosterName(data) == NameOf(ValueUnder(data, "userid", {"number"}))

PlayerIn(n, data) ==
    LET user == ValueUnder(data, n.key, {"number"})
    IN  IF user = 0 /\ ~ n.zero THEN None ELSE resolvePlayer(user)

Skips(e, data) == \E n \in e.needs : PlayerIn(n, data) = None

Typed(name, e, data) ==
    [event |-> name,
     players |-> [f \in {n.field : n \in e.needs \cup e.may} |->
                    PlayerIn(CHOOSE n \in e.needs \cup e.may : n.field = f, data)],
     fields |-> [f \in {r.field : r \in e.reads} |->
                    FieldOf(name, CHOOSE r \in e.reads : r.field = f, data, RosterName(data))]]

\* Tier-1 comes after Tier-2.
Tier1(id, name, data) ==
    IF name \notin DOMAIN enricherTable THEN <<>>
    ELSE IF Skips(enricherTable[name], data)
      THEN <<[event |-> "gameEventEnrichmentSkipped", name |-> name, eventId |-> id]>>
      ELSE <<Typed(name, enricherTable[name], data)>>

GameEvent(id, cells) ==
    /\ descriptors # None
    /\ IF id \notin DOMAIN descriptors
         THEN /\ emitted' = <<[event |-> "gameEventDecodeError", eventId |-> id]>>
              /\ UNCHANGED parser
         ELSE LET d == descriptors[id]
                  data == decodeGameEvent(d, cells)
              IN  /\ emitted' = <<[event |-> "gameEvent", name |-> d.name, eventId |-> id, data |-> data]>>
                                \o Tier1(id, d.name, data)
                  /\ memo' = IF d.name \in DOMAIN enricherTable THEN playersNow ELSE memo
                  /\ UNCHANGED <<descriptors, roster, listed>>

\* Without a list of events the message is dropped.
GameEventDropped ==
    /\ descriptors = None
    /\ emitted' = <<>>
    /\ UNCHANGED parser

-----------------------------------------------------------------------------
(* Chat and voice.  A text is a sequence of pieces; 1..9 are %s1 to %s9. *)

substituteParams(template, params) ==
    FlattenSeq([i \in DOMAIN template |->
        IF template[i] \in 1..9 /\ template[i] <= Len(params) THEN params[template[i]]
        ELSE <<template[i]>>])

isTeamChatTemplate(name) == name # <<>> /\ name[Len(name)] \in TeamNames

ParamAt(params, i) == IF i <= Len(params) THEN params[i] ELSE <<>>

\* The sender is the user in the slot below the speaker's entity id.
SenderOf(entIdx) ==
    IF entIdx > 0 /\ roster[entIdx - 1] # None THEN resolvePlayer(roster[entIdx - 1]) ELSE None

decodeSayText2(entIdx, name, params) ==
    [event |-> "chatMessage", player |-> SenderOf(entIdx), senderName |-> ParamAt(params, 1),
     message |-> IF \E i \in DOMAIN name : name[i] \in 1..9 THEN substituteParams(name, params)
                 ELSE ParamAt(params, 2),
     isTeamChat |-> isTeamChatTemplate(name)]

decodeSayText(text) ==
    [event |-> "chatMessage", player |-> None, senderName |-> <<>>, message |-> text, isTeamChat |-> FALSE]

decodeTextMsg(params) ==
    [event |-> "chatMessage", player |-> None, senderName |-> <<>>,
     message |-> substituteParams(ParamAt(params, 1), Tail(params)), isTeamChat |-> FALSE]

decodeChatMessage(kind, entIdx, template, params) ==
    CASE kind = "SayText2" -> <<decodeSayText2(entIdx, template, params)>>
      [] kind = "SayText"  -> <<decodeSayText(template)>>
      [] kind = "TextMsg"  -> <<decodeTextMsg(<<template>> \o params)>>
      [] OTHER -> <<>>

UserMessage(entIdx, s) ==
    /\ emitted' = decodeChatMessage(s.kind, entIdx, s.template, s.params)
    /\ memo' = playersNow
    /\ UNCHANGED <<descriptors, roster, listed>>

\* A voice frame: a client below zero is none, and a frame without sound is dropped.
VoiceData(client, empty) ==
    LET known == client \in Slots /\ roster[client] # None
    IN  /\ emitted' = IF empty THEN <<>>
                      ELSE <<[event |-> "voiceData", player |-> IF known THEN AtId(client + 1) ELSE None]>>
        /\ memo' = IF ~ empty /\ known THEN playersNow ELSE memo
        /\ UNCHANGED <<descriptors, roster, listed>>

-----------------------------------------------------------------------------
(* The server, and its stream *)

\* The server seats a user in a slot: one slot for each user, and once the entities of
\* the slot's last user and of the user's last slot are gone.
Join(s, u) ==
    /\ listed[s + 1] = None
    /\ \A t \in Slots : roster[t] # u
    /\ \A p \in AllListed(listed) : p.user # u
    /\ roster' = [roster EXCEPT ![s] = u]
    /\ UNCHANGED <<list, descriptors, listed, memo, emitted, said, dying>>

\* The entry of a user that left is emptied, before or after its entity is deleted.
Left(s) ==
    /\ roster[s] # None
    /\ roster' = [roster EXCEPT ![s] = None]
    /\ UNCHANGED <<list, descriptors, listed, memo, emitted, said, dying>>

Held == AllListed(listed) \cup (IF memo = None THEN {} ELSE memo)

\* The least number no reference to an entity at this id has.
Fresh(id) == CHOOSE g \in 0..2 : /\ \A p \in Held : p.id = id => p.gen # g
                                 /\ \A h \in 0..(g - 1) : \E p \in Held : p.id = id /\ p.gen = h

\* onCreate for the CCSPlayer of slot s, which may replace one of the same user: the
\* array is dropped, then an entityCreated listener may read it.
CreatePlayer(s, reads) ==
    /\ roster[s] # None
    /\ listed[s + 1] # None => listed[s + 1].user = roster[s]
    /\ listed' = [listed EXCEPT ![s + 1] = [id |-> s + 1, user |-> roster[s], gen |-> Fresh(s + 1)]]
    /\ memo' = IF reads THEN AllListed(listed') ELSE None
    /\ dying' = None
    /\ UNCHANGED <<list, descriptors, roster, emitted, said>>

\* onDelete runs before the entity leaves the list.
DeletePlayer(s, reads) ==
    /\ listed[s + 1] # None
    /\ listed' = [listed EXCEPT ![s + 1] = None]
    /\ memo' = IF reads THEN AllListed(listed) ELSE None
    /\ dying' = IF reads THEN listed[s + 1] ELSE None
    /\ UNCHANGED <<list, descriptors, roster, emitted, said>>

ReadPlayers ==
    /\ memo' = playersNow
    /\ UNCHANGED <<list, descriptors, roster, listed, emitted, said, dying>>

GameEventList ==
    /\ descriptors' = buildDescriptorTable(list)
    /\ UNCHANGED <<list, roster, listed, memo, emitted, said, dying>>

\* The first n cells of an event whose user keys name the users in `who'; the other
\* values are zero, or differ from key to key.
Cells(raw, n, who, zero) ==
    [i \in 1..n |->
        [code |-> raw.keys[i].type,
         v |-> IF raw.keys[i].name \in UserKeys THEN who[raw.keys[i].name]
               ELSE IF zero THEN 0
               ELSE IF raw.keys[i].type = 6 THEN 1 ELSE i]]

\* The last description of an id is the one the server goes by.
Described == {i \in DOMAIN list : \A j \in DOMAIN list : list[j].eventid = list[i].eventid => j <= i}

SendGameEvent ==
    \E i \in Described, zero \in BOOLEAN, who \in [UserKeys -> Users \cup {0}] :
        \E n \in {Len(list[i].keys), Len(list[i].keys) - 1} \cap Nat :
            LET cells == Cells(list[i], n, who, zero)
            IN  /\ GameEvent(list[i].eventid, cells) \/ GameEventDropped
                /\ said' = [about |-> "event", of |-> list[i], cells |-> cells]

\* An id the list does not have.
SendUnlisted ==
    /\ \A i \in DOMAIN list : list[i].eventid # 0
    /\ GameEvent(0, <<>>) \/ GameEventDropped
    /\ said' = [about |-> "nothing"]

Speaker(s) == IF s \in Slots THEN roster[s] ELSE None

SendChat ==
    \E id \in Ids \cup {0}, s \in Speeches :
        /\ UserMessage(id, s)
        /\ said' = [about |-> "chat", user |-> IF s.kind = "SayText2" THEN Speaker(id - 1) ELSE None,
                    text |-> s.text]

SendVoice ==
    \E client \in Slots \cup {-1}, empty \in BOOLEAN :
        /\ VoiceData(client, empty)
        /\ said' = [about |-> "voice", user |-> Speaker(client)]

\* The listeners have returned.
Returned ==
    /\ emitted' = <<>>
    /\ said' = None
    /\ UNCHANGED <<list, dying, parser>>

Init ==
    /\ list \in Lists
    /\ descriptors = None
    /\ roster = [s \in Slots |-> None]
    /\ listed = [id \in Ids |-> None]
    /\ memo = None
    /\ emitted = <<>>
    /\ said = None
    /\ dying = None

Sends == SendGameEvent \/ SendUnlisted \/ SendChat \/ SendVoice

Next ==
    \/ said # None /\ Returned
    \/ said = None /\ Sends /\ UNCHANGED <<list, dying>>
    \/ said = None /\ GameEventList
    \/ said = None /\ ReadPlayers
    \/ said = None /\ \E s \in Slots :
          \/ \E u \in Users : Join(s, u)
          \/ Left(s)
          \/ \E reads \in BOOLEAN : CreatePlayer(s, reads) \/ DeletePlayer(s, reads)

Spec == Init /\ [][Next]_vars

-----------------------------------------------------------------------------
(* What the server meant *)

\* The value of each key of an event, as the server declared and sent it.
Meant ==
    [k \in {said.of.keys[i].name : i \in DOMAIN said.cells} |->
        LET cell == said.cells[CHOOSE i \in DOMAIN said.cells : said.of.keys[i].name = k]
        IN  [type |-> CASE cell.code = 1 -> "string"
                        [] cell.code = 6 -> "boolean"
                        [] cell.code = 7 /\ cell.v > MaxSafeInteger -> "string"
                        [] OTHER -> "number",
             v |-> cell.v]]

\* Every key of the event has a type the parser knows.
TypesKnown == \A i \in DOMAIN said.of.keys : said.of.keys[i].type \in 1..7

\* The CCSPlayer of a user, if the parser has been told of both.
PlayerOf(u) ==
    IF u # None /\ \E p \in AllListed(listed) : p.user = u /\ \E s \in Slots : roster[s] = u
      THEN CHOOSE p \in AllListed(listed) : p.user = u
      ELSE None

UserUnder(key) == IF key \in DOMAIN Meant THEN Meant[key].v ELSE None

IsTyped(e) == "players" \in DOMAIN e

\* The users that the last message named, each with the player shown for it.
Mentions ==
    UNION {
        IF IsTyped(e)
          THEN {[user |-> UserUnder(n.key), player |-> e.players[n.field]] :
                    n \in enricherTable[e.event].needs \cup enricherTable[e.event].may}
        ELSE IF e.event \in {"chatMessage", "voiceData"} THEN {[user |-> said.user, player |-> e.player]}
        ELSE {} : e \in Range(emitted)}

Clear == said # None /\ (said.about = "event" => TypesKnown)

(* Properties *)

\* Whoever a typed event, a chat message or a voice frame shows is the CCSPlayer that the
\* entity list has for the user the server named, and nobody is shown only when there is
\* no such entity; an event is skipped only for a player it needs and that is not there.
\* The one exception is an entity that an entityDeleted listener put in the array.
RightPlayer ==
    Clear =>
        /\ \A x \in Mentions : x.player = PlayerOf(x.user) \/ (dying # None /\ x.player = dying)
        /\ \A e \in Range(emitted) : e.event = "gameEventEnrichmentSkipped" =>
              \E n \in enricherTable[e.name].needs : PlayerOf(UserUnder(n.key)) = None

\* The values of an event come out under the server's own keys, raw and typed, also when
\* its last cell is missing or its id was described twice.
ValuesAsSent ==
    Clear => \A e \in Range(emitted) :
        /\ e.event = "gameEvent" => e.data = Meant
        /\ IsTyped(e) => \A r \in enricherTable[e.event].reads :
              e.fields[r.field] = FieldOf(e.event, r, Meant, RosterName(Meant))

\* The values of an event are the server's, and a chat message is the text the server's
\* game would show.
PayloadAsSent ==
    /\ ValuesAsSent
    /\ Clear => \A e \in Range(emitted) : e.event = "chatMessage" => e.message = said.text

-----------------------------------------------------------------------------
(* The inductive invariant *)

TypeOK ==
    /\ list \in Lists
    /\ roster \in [Slots -> Users \cup {None}]
    /\ listed \in [Ids -> Entity \cup {None}]
    /\ dying \in Entity \cup {None}

ListedInPlace == \A id \in Ids : listed[id] # None => listed[id].id = id

\* A user sits in one slot, and while it does, its entity is the one of that slot.
OneSeat ==
    /\ \A s, t \in Slots : roster[s] # None /\ roster[s] = roster[t] => s = t
    /\ \A s \in Slots, id \in Ids :
          roster[s] # None /\ listed[id] # None => (listed[id].user = roster[s] <=> id = s + 1)

\* The memoized array is the list's, but for an entity put there by a listener while it
\* was deleted; that one's id is still free.
MemoOfList ==
    IF dying = None THEN memo \in {None, AllListed(listed)}
    ELSE memo = AllListed(listed) \cup {dying} /\ listed[dying.id] = None

DescriptorsOfList == descriptors # None => descriptors = buildDescriptorTable(list)

IInv == TypeOK /\ ListedInPlace /\ OneSeat /\ MemoOfList /\ DescriptorsOfList

=============================================================================
