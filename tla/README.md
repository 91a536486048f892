# TLA+ models of the CS:GO demo parser

The program reads a `.dem` recording front to back in one synchronous pass
(`DemoParser.parseAll`).  It keeps a live picture of the game world (entities in columnar
stores, string tables, a userinfo index), and tells consumers what happens through
`EventEmitter` events.  Everything runs on one thread; what makes it hard is not
parallelism but *re-entrance and partial failure*: listeners run inside `emit`, in the
middle of an update, and may read memoized getters or throw; a malformed message stops a
handler half way and the parse goes on with what it left behind; objects handed to a
consumer outlive the storage they point into.

## 1. Inventory

| Part | State | Operations | Hard behaviour |
|---|---|---|---|
| Entity storage (`entities/EntityStore.ts`) | columns, occupied and written bits, slot versions, free list | `allocate`, `free`, `grow`, `write`, `read` | LIFO slot reuse, growth, leftovers of earlier users |
| Entity list and views (`EntityList.ts`, `Entity.ts`) | id → view; per view slot, version, state | `create`, `delete`, `leavePVS`, `get`, `assertFresh` | views outlive their slot; same-class re-create; ids past `MAX_EDICTS` |
| PacketEntities decoder (`PacketEntitiesDecoder.ts`, `InstanceBaseline.ts`) | cached baseline per class | the four kinds of entry | a throw part way through an entry or message; late or corrupt baselines |
| Entity hooks and overlay getters (`DemoParser.ts`, `state/*.ts`) | five memo caches | `onCreate/onUpdate/onDelete`, `players`, `weapons`, `teams`, `gameRules`, `playerResource` | listeners that read or throw inside the hooks; caches that must be dropped in time |
| Parse loop (`DemoParser.parseAll`, `FrameParser.ts`, `MessageDispatch.ts`, `ByteReader.ts`) | cursor, tick, last frame offset, tables | frames, messages, recovery | which failure ends the parse and which is skipped; termination |
| String tables and userinfo (`stringtables/*`, `state/userInfoIndex.ts`) | entries, key index, history ring, userinfo maps | create, update, snapshot, `refresh` | a table that fails half way leaves the index behind |
| Round phase (`state/RoundTracker.ts`) | last phase | `onUpdate` | order of the phase rules |
| Convenience trackers (`convenience/*`) | rounds, damage, economy, positions, trajectories | event listeners | three independent round counters that must agree |
| Events and enrichers (`events/*`) | descriptor table | decode, enrich, resolve a user id | a user id becomes a player through four pieces of state that change at different times |
| Datatables (`datatables/*`) | send tables, flattened props | parse, exclude, flatten, priority sort | the index of a prop is never sent: it follows from the order of two algorithms |
| Readers and prop decoders (`reader/*`, `properties/*`) | cursor | bit and byte reads, one decoder per type of prop | a stream without lengths: one bit too few or too many misreads all that follows |
| Overlays' getters (`state/*.ts`) | prop indices found once by name | one getter per prop | several tables of a class have props of one name |
| Entity handles (`state/EntityHandle.ts`) | none | pack, unpack, resolve | serials that come round |
| Generated codecs (`generated/*`) | none | `decode`, `encode` of 64 messages | nested lengths, unknown fields, buffers that are cut |

Section 13 says what is not modelled and why.

## 2. Plan

1. `EntityStore`, `EntityMap`, `Entities` with their proofs: the storage every other part
   reads.  **Done.**
2. `Overlays` (composes 1): the hooks and the memoized getters.  **Done.**
3. `ParseLoop`: frames, dispatch, recovery, termination, with its proofs.  **Done.**
4. `StringTables` with the userinfo index, with its proofs.  **Done.**
5. `Rounds`: the phase tracker and the three round counters of the convenience layer.
   **Done.**
6. `EntityHandles`, `Positions`, `Grenades`: the two trackers that follow entities, with
   the proofs of `Grenades`.  **Done.**
7. `PrioritySort`, `ServerClasses`, `Datatables`, `BitStream`, `PropDecoders`,
   `EntityDeltas`, `EntityViews`, `PacketEntities`: from the bits of the datatables to a
   getter.  **Done.**
8. `Enrichers`, `Events`: game events, chat and voice, and the players in them.  **Done.**
9. `NetMessages`, `Codec`, `StringWire`: the generated codecs and the wire form of a string
   table.  **Done.**
10. Proofs about what is in place: the refinement of `EntityMap`, the caches of `Overlays`,
    `Rounds`, `FlightIsWhole` of `Grenades`, `RightPlayer` of `Events`, the sort by priority,
    `DeltaRoundTrip` of `EntityDeltas`, `ViewsShowWhatWasSent` of `EntityViews`,
    `EntriesAsSent` of `StringWire`.  **Done.**

`Entities` extends `EntityStore`; `Overlays` extends `Entities`; `Grenades` extends
`EntityHandles` and `Positions`; `Events` extends `Enrichers`; `Datatables` extends
`ServerClasses` and `PrioritySort`; `EntityDeltas` extends `ServerClasses` and `PropDecoders`
(which extends `BitStream`), `EntityViews` extends `EntityDeltas`, and `PacketEntities`
composes `EntityViews` with `Datatables`; `StringWire` extends `PropDecoders`; `Codec` extends
`NetMessages`.

## 3. Entity layer: `EntityStore`, `Entities`, `EntityMap`

`EntityStore` has no variables: it gives one store as a record and `allocate`, `free`,
`grow`, `write` and `read` as operators on it.  `Entities` keeps one store per ServerClass,
the list, and `heap`, the sequence of every `Entity` object created: a view is its position
in `heap`, so that a consumer's reference is a number that stays valid for ever.  One action
is one entry of a `CSVCMsg_PacketEntities` message with every call it makes: delete
(`DeleteEntry`), leave (`LeaveEntry`), enter (`EnterEntry`, and `EnterWithoutBaseline` when
the baseline does not decode), preserve (`PreserveEntry`).  An entry that throws part way is
the same action with the props written so far; the rest of its message is entries that do
not happen.  `SetBaselineEntry` stands for the string-table messages that rewrite a class's
baseline entry.  Prop values, the seven kinds of column and the bit-level coding are
abstracted; props, values and deltas are small sets.

`EntityMap` is what the layer promises, without storage: ids map to a class and a value per
prop; a step changes one id; a new entity shows its baseline overridden by its own delta.
`Entities` implements it under the refinement mapping `World` (what each listed view reads)
and `template <- cachedBaseline`.  Since the map's spec quantifies over deltas, a step could
be excused by another delta; `EntriesMatchMap` therefore demands the same entry with the
same delta.

## 4. Hooks and overlays: `Overlays`

Extends `Entities`.  `caches` holds, per getter, the set of views memoized (or `NotBuilt`);
`created` and `deleted` record which views `entityCreated` and `entityDeleted` were emitted
for.  Each action is an entry of `Entities` with its callbacks in the code's order: `onDelete`
drops caches, emits (the listener may read the getters in `D` with the entity still listed),
and only then is the entity deleted; `onCreate` drops, emits (getters `R`), then feeds the
round tracker, which reads `gameRules`.  `DeleteListenerThrows` is a listener that throws
out of `entityDeleted`; `throws` is one that throws out of `entityCreated` or
`entityUpdated`; `EnterFails` and `PreserveFails` are entries whose decoding throws.
`ServerAllows` is an assumption on the game server: one rules proxy and one player resource
at a time.

## 5. The parse loop: `ParseLoop`

The module stands alone: it keeps what `parseAll` uses to decide what comes next and no
entity.  `pos` is `ByteReader.cursor`, `frameStart` is `_lastFrameOffset`, `at` is where
control is (before the header, before `next()` of the frame iterator, in the body of the
loop, out of it), `left` the messages of the packet not yet dispatched.  An offset counts
units, the prefix of a frame being one, so that a length is the number of units a payload
takes.  The demo is not chosen in advance: `file` records the shape of each frame when it is
first read and keeps it, because `readBytes` compares only the end of a read with the end of
the buffer, and a negative length moves the cursor back over frames already read.  The
messages of a packet are chosen as they are dispatched; a packet read twice may then hold
different messages the second time, which allows more than the code does.

`Throws` is the catch around the body of a frame and `Recovers` an inner catch that goes on;
which of the two an action uses is the position of its code relative to the `try` blocks.
A listener may throw out of any emit: `Emits` is an emit that only the body's catch
surrounds, and a throwing listener of `parserError` itself escapes from both.

`met` is a history variable: each action adds the kind of damage it met, before anything is
decided about it.  `DamageIsLocal` compares it with how the parse ends: a parse ends before
the end of the demo exactly if it met damage other than a message, a string table or an
update of entities, and no damage passes without an error but the header's, which
throws to the caller, and that of an update of entities, which has an event of its own.  A
chat message that does not decode is not local in the code although its comment says so
(`ChatDamageIsLocal`, section 14).

`ParseEnds` is the liveness property.  Its fairness is `WF_vars(Next)`: `parseAll` is one
synchronous call on one thread, so a step that is possible is taken.  It is conditional on
`Forward` (no negative length was read), and without the condition it fails: a frame with a
length of minus its prefix is read again for ever.

## 6. String tables: `StringTables`

`tables` is `StringTableManager.byId`, in order of id, each with its entries and its
`keyToIndex` map; `index` is the `UserInfoIndex` or `None` until the getter `userInfoIndex`
builds it.  The handlers of `CreateStringTable`, `UpdateStringTable` and `dem_stringtables`
are not atomic in one respect: they may throw after some entries are stored, and what is
stored stays.  `handler` is therefore the one in progress, each `StreamEntry` or
`SnapshotEntry` stores one entry, `StreamThrows` stops half way, and `EndOfStream` and
`EndOfSnapshot` do the refresh that ends a handler.  No listener runs between two entries, so
`ReadIndex` needs an idle handler.

Keys and userdata are abstract here, and the wire form is `StringWire` (section 10): an entry
may carry any key, and one without a key keeps the key of its index, or gets the blank one.
A userdata blob is the user it decodes to, or `None`; that of other tables
is not kept.  Not steps, because they change nothing: an update of an unknown table, one
without entries and one refused for its dictionary bit.  `replaceTable` has no caller.  The
server is assumed to create a table once (`Sends`).

Three variables only observe: `torn` (a failed handler wrote to userinfo and none has
refreshed since), `sent` (the tables as the server numbers them) and `shifted` (a create that
did not decode, or a table only a snapshot knew, after which ids may differ from the
server's).

## 7. Rounds: `Rounds`

Here the game server is the environment and the trackers react.  `stage` is what the server
is doing (warmup, freeze, live, over, halftime, done), `rules` the networked props of
`CCSGameRulesProxy`, and one step is what the server sends at once with the work of every
handler it reaches: `EndRound` is `round_end` (`RoundEnd`) followed by the update of the rules
(`OnUpdate`).  That order is what `ConvenienceRoundTracker` relies on when it adds 1 to
`totalRoundsPlayed`.  `current` and `rounds` are that tracker's, `damage` and `match` the
matrix's, `econ` the economy tracker's; the counters `currentRoundIdx` and `currentIdx` are
the lengths of `damage` and `econ`.  `phase` is `RoundTracker._phase`, `overs` counts the
`roundStateChanged` events that say "over".

Data is replaced by where it comes from: money is the tick at which it was read, an award the
number of the round it was given for, damage a number of hits.  A property can then ask
whether a record and a summary are of the same round.  Assists, the bomb's events and the
list of purchases are kept like kills and left out.

Assumed of the server: a recording begins in the warmup or in a round; the end of a round is
counted with its win status and may come with the next freeze; halftime and the end follow a
round and keep or reset the win status; in the warmup rounds may start and end without the
rules showing it; a match may be restarted at any time, counting from 0 again.  An event may
be lost (`Unheard`: the parser passes over an event it cannot decode) while the rules, which
travel as entities, arrive.  `mishaps` and `restarted` only observe which of these happened,
and each property names the ones under which the code promises nothing.

## 8. Events, grenades, positions

**`Events`, `Enrichers`.**  `Events` is the meeting of three pieces of state that the other
modules keep apart: the userinfo roster, the entity list and the memoized `players`.  The
server sends descriptor lists (`descriptors` is `_eventDescriptors`), game events, chat and
voice; `Enrichers` has one definition per enricher of `events/enrichers`, which turns the
fields of a decoded event into a typed one.  `emitted` holds what the handler under way
emitted, `said` what the server meant by the message: `RightPlayer` compares the players in
the one with the users in the other, `PayloadAsSent` the values.  Assumed of the server: a
user sits in one slot; a slot is seated anew only when its old entity and the user's old
entity are gone; the userinfo of a user comes before the entity; no user has the id 0; the
keys that name players have types of numbers. Entries that fail half way are in `Overlays`,
userinfo messages that fail in `StringTables`.  The number of a round in an event is what
`Rounds` is about.

`dying` is a ghost: an `entityDeleted` listener that reads `players` memoizes the entity that
is about to be deleted, and until the next drop `resolvePlayer` may return it.  `RightPlayer`
allows that one and no other; section 14 has the sentences of the code it contradicts.

**`Grenades`, `Positions`, `EntityHandles`.**  The game is the environment: `server` has the
entities as they are, `list` the parser's as last seen, and they differ by what the demo has
not said yet.  An id may be used again before its deletion is sent; the new entity then enters
in place of the old one.  An entity may also be sent as entering a second time.  `tracked` and
`completed` are the tracker's; `seen` is a history variable of what was sent about each
grenade: every origin (`path`), those since it last entered (`origins`), how often it entered,
its explosion and whether the demo told it, and whether another of its class took its place.
`FlightIsWhole` demands a record, with every point and with the explosion if it was told, for
each grenade that entered once and was not replaced, and of every other record that it tells
nothing but its own grenade's doings.  For the grenades left out the code keeps no such record
(`EveryFlightIsWhole`, section 14).  `PackedHandle` and `ResolveHandle` do the arithmetic of
`EntityHandle.ts` on small widths.  Assumed: no id is used again while an event that names it
is under way; a grenade goes off only after the demo has shown it; the last id (2047 in the
code, whose handle is the packed "no entity") is no player's.

`Positions` has the sampling of `PositionTracker` with the rate a caller may pass, 0 or less
included, and frames whose ticks run backwards.

## 9. From the datatables to a getter

A prop is named on the wire by its index in a list that server and parser compute separately.
`Datatables` is the parser's side: the two halves of the payload, the registries, the walk
that collects the exclusions, the flattening (non-collapsed sub-tables first, collapsed ones
in place) and, as the steps of `PrioritySort`, the sweep of swaps.  The server's side is given
as a reference definition (`ServerProps`), written from the rules of the engine and marked
external in the map.  `FlattensAsServer` demands equal lists.

`BitStream` is `BitReader` on a record of bits and a cursor: the windows of up to four bytes,
the two halves of a longer read, the coordinates, the normals.  `PropDecoders` has each
decoder of `properties/` and, below, the encoding of the server.  A float is the number of
units of its resolution: which bits are read and how they are put together is modelled, the
last multiplication is not.  `EntityDeltas` adds the message: ids, classes, the coding
of prop indices, then the values, one step per index and per value, so that a message that is
cut stops between two of them.  `DeltaRoundTrip` compares what was decoded with what was
sent.  Baselines and the store are `Entities`.  Last, `EntityViews` has the getters of the
five overlays with the tables they look their props up in, and `ViewsShowWhatWasSent` goes
all the way: the value of a getter is what the server gave to that prop.

The decoder of a message needs only what `parseDataTables` leaves behind, the classes with
their flattened lists (`ServerClasses`).  `EntityDeltas` therefore has a specification of its
own, in which the classes are any of `ParsedClasses` and the server's lists are those of the
classes, and `PacketEntities` puts `Datatables` in front of it, with lists that the server
computes by itself (`ServerLists`).  The runs check the composition `GameSpec`; that the two
lists are the same is `FlattensAsServer`.

The definitions of readers are short chains of LET, and a read whose result is used twice goes
through an operator of its own (`DecodeSecond`, `DecodeThird`, `DecodeElement`); actions bind
what a reader returns with `\E read \in {...}`.  Each read is then evaluated once, and TLC's
coverage, which expands every use of a definition, stays small.

Assumed of the server, where TLC evaluates it on every run: the messages are ones that its
encodings have room for, entities in the order of their ids, an update only for an entity
it has sent (`MessagesAssumption`: `SoundMessage`, and per encoding the `Fits` operators of
`PropDecoders`); a class of the game that has an overlay has every prop of that overlay, once
under the name and table it is looked up by, and of the type it is read as
(`OverlaysAssumption`).  The second is what the constructors in `state/` rest on, which throw
when a prop is missing and cannot see that it is there twice.  Also assumed: the server's
table graphs have no cycle and name no table that is missing; numbers are below 2^31; a cut
message has a byte left.  One class without a table (`Gone`) is in
the instance.  A quantized float of 32 bits, for which the code's denominator is 0, is not
among the instances; `ChangedPropIndices.ts` and `readUBitVar` are used by nothing.

## 10. Messages and string tables on the wire

`NetMessages` is the schema of the generated messages as data: 64 messages, each field with
its number, kind and default.  `Codec` is the algorithm all generated `decode` functions
share: a loop over tags, a nested call per message field with its own end, lists packed or
not, groups and unknown fields skipped.  A varint is one element of the buffer.  A buffer that
is cut makes `decode` throw or return a prefix of what was sent, never something else
(`DecodesAsSent`).  A nested message that occurs twice replaces the first; servers send it
once.

`StringWire` is one string table as bits: `StringTableParser` with the ring of recent keys,
the handlers up to the loop (a payload that cannot be decompressed or has the dictionary bit
is passed over), `SnapshotParser` over bytes, and the merge.  A message begins with
`CreateStrings` or `UpdateStrings`, each turn of the loop is a `ReadStringEntry`, and
`SnapshotStrings` is a snapshot.  `server` is the other end, with a ring of its own, whose
size `ServerHistory` may be another than the parser's `HistorySize`.  `EntriesAsSent` says
that as long as every message was read to its end and the rings are alike, or after a
snapshot, every entry has the key and userdata the server gave it.  The rings are alike
(`RingsAlike`) if they have one size or neither has dropped a key; which of these holds for
real servers is not to be seen in the code, whose comments give the ring 32 slots in one place
and 31 in another.  `EntriesOfAnyRing` leaves that condition out and fails (section 14).
`behind` is set when a message was not read to its end: the two rings then differ for good,
and the code has no way to notice.  That the ring lasts over all messages of a table is what
the header of `StringTableParser.ts` says of the server; the model takes it from there.

## 11. Runs

| Run | Shows | Bounds |
|---|---|---|
| `entities` | `TypeOK`, `SlotsExclusive`, `NoSlotLeak`, `StaleIffUnlisted`, `ImplementsEntityMap`, `EntriesMatchMap` of `Entities`; `FlattensAsServer`, `SortedByPriority`, `DeltaRoundTrip`, `ViewsShowWhatWasSent` of `PacketEntities` | 2 ids, 2 classes, 3 objects, stores of one row, 1 prop with 2 values; 5 games of 1 to 14 tables, in every order or with one repeated, one message of one entity with at most 2 changes, or of a known one after it, up to 2 bytes cut |
| `overlays` | `CacheComplete`, `CacheSound`, `SingletonFollows`, `DeathIsAnnounced` | 3 ids of which one past `MAX_EDICTS`, 2 classes, 3 objects, no props |
| `overlays_held` | `HeldOverlayIsLoud` fails: overlays read without the staleness check | 2 ids, 3 objects |
| `parse` | `TypeOK`, `FatalEndsParse`, `DamageIsLocal`, `SchemaAllOrNothing`, `SchemaIsStable`, `PacketsFinish`, `ParseEnds` of `ParseLoop`; `DecodesAsSent` of `Codec` | header of 2 units, buffers of up to 5, lengths -3, -1, 0, 1, packets of up to 2 messages; every message with all fields, nested ones or none, cut anywhere |
| `parse_chat` | `ChatDamageIsLocal` fails: a chat message that does not decode ends the parse | as for the loop of `parse` |
| `strings` | `TypeOK`, `KeyLookupSound`, `IdsFollowServer`, `IndexFollowsUserinfo`, `LookupsAgree`, `KeyNotLost`, `TablesOnlyGrow` of `StringTables`; `EntriesAsSent` of `StringWire` | userinfo and one other table, capacities 1 and 2 (2 from a snapshot), 2 keys of which one blank, 2 users; on the wire tables of 1 and 3 entries, rings of 2, 3 messages of 1 or 2 entries |
| `wire_ring` | `EntriesOfAnyRing` fails: a place in the ring names another key | as on the wire of `strings`, the server's ring with 3 slots |
| `trackers` | `JoinedByIndex`, `MvpOfItsRound`, `NumbersIncrease`, `OverPerRound`, `SummariesKept` of `Rounds`; `PositionsAscend`, `FlightIsWhole`, `ThrowerIsThrower` of `Grenades` | 1 player, ticks 0 to 2, 2 rounds started, 2 moves of the player; 1 player slot and 1 projectile id, each used up to 3 times, 2 classes, 2 places, ids of two bits and serials of one, 2 ticks, 10 steps |
| `rounds_index` | `IndicesMatch` fails: a restarted or unfinished round shifts economy and damage against the summaries | as for the rounds of `trackers` |
| `grenades_flight` | `EveryFlightIsWhole` fails: a second entry, or another grenade at the id, drops the record | as for the grenades of `trackers` |
| `views_local` | `PositionOfEveryPlayer` fails: the position of the player who recorded the demo reads as the origin | as for the games of `entities` |
| `events` | `RightPlayer`, `PayloadAsSent` | 2 slots, 2 users, a list with every event that has an enricher and one with repeated, unknown and oddly typed entries, 5 kinds of chat and menu messages |

The runs `entities`, `parse`, `strings` and `trackers` check two modules that share no state.
The variable `half` of their MC modules says which of the two takes the steps of a behaviour,
and the other keeps its first state; a property speaks of one of them.  No behaviour of
either module is lost.

`MaxObjects` bounds the entities created in a behaviour.  Three are enough for a slot to be
used, freed and reused while another entity of the class lives, for a store to grow, and for
a class mismatch after a re-create; stores start with one row so that growth happens.
Deadlock is checked in the runs `entities`, `overlays`, `strings` and `events`, where a server can
always send something more; the bits of a message (`half` is "bits" or "wire") come to an end,
and stutter there.  `parse` and `trackers` switch the check off: `parseAll` returns, and a
recording ends.  So do `parse_chat`,
`wire_ring`, `grenades_flight` and `views_local`.

In `parse` and `parse_chat` `MaxSize` leaves room for three frames after the header, so that a
second datatables frame follows a first one with a packet before, between or after them, and a
cut can fall in the header, in a prefix or in a payload; a length of -1 reads the same frame
again and -3 reads before the buffer.  `MaxMessages` is two: one message that fails and one
whose turn comes after it.

In `strings` two slots are enough for two entries to share a key, swap keys or
lose one to the other, and for a user to move or sit in both slots; a table of capacity 1
cuts a snapshot short.  The users are interchangeable, so `strings` takes them up to symmetry.

For the rounds of `trackers` two started rounds, with the one the recording may begin in, let
a window be closed, discarded or left out while another follows; two moves let a player leave
and buy, or hit before and after a `round_end`.  One player is enough because no tracker
relates two: pairs and stats are kept per slot.

For its grenades three uses of an id, with serials of one bit, let a serial come round to the
same number; `MaxSteps` is 10, enough for a grenade to be thrown, shown, moved,
deleted and replaced with its explosion in any place between.  Places are interchangeable.

In `entities` the games are chosen for the hard cases: an exclusion that reaches a table two
levels down, a table shared by two parents of which one is collapsed, an array with its
element before it, every encoding of every type, and classes that have `m_vecOrigin`,
`m_iRoundTime` or `000` in several tables.  A table sent twice and every order of the tables
are there because registration by name must not depend on them.

On the wire, rings of 2 turn over with the third entry, so that references to an evicted, a
shifted and a prefix-shared key all occur in three messages; `RememberAll`, a ring that never drops, is found after that many.

## 12. Proofs

A theorem here holds for every value of the constants that the named assumptions of its
module allow.  Those fix the kind of a constant (an id is a number, a bound is one) and that
a marker for "nothing" is not also something: `Absent` is no entity of the map, `Undefined` no
window or record of `Rounds`, `None` no entity, record or detonation of `Grenades`.  Every inductive
invariant below but `DeltasInv` and `StringInv`, which speak of any message and any prefix of
its bits, was checked by TLC on the bounds of its component's run before it was proved.

The proofs of `Overlays` are in `EntitiesProofs`, behind those they rest on; the reads of
`BitStream` and `PropDecoders` are in `BitStreamProofs`, which `PacketEntitiesProofs` and
`StringTablesProofs` extend; the latter also has the proofs of `StringWire`.

`EntitiesProofs` starts with the store: `allocate`, `free`, `write` and a new store keep it
`WellFormed`, that is, every slot ever handed out is either occupied or on the free list
exactly once, and a slot that is not occupied shows no value.  The capacity is any number,
the free list of any length.

It then proves `Spec => []IInv` with `IInv == TypeOK /\ Ownership`.  `SlotsExclusive`
alone is not inductive: that a newly allocated slot is not shared needs the free list and
the occupied set to be complementary (`WellFormed`), and that needs every occupied slot to
have one owner in the list (`Ownership`), so that freeing by a view frees the right slot.
From it follow `TypeCorrect`, `SlotsNeverShared` and `SlotsNeverLeak`.

That the storage implements the map is next: `EntriesMatch` takes every entry to the same
entry of the map with the same delta, and `ImplementsMap` is the refinement.  The step that
matters is that an entry at one id changes what no other id reads; that is `Ownership` and
`WellFormed` again, since a view reads the row that it alone owns, and a row taken from the
free list shows nothing left over.

`EntitiesProofs` also proves that the staleness check is exact (`StalenessExact`) under
`NoVersionWrap`, which bounds the entities created by the width of a slot version: without it
the claim is false, since 2^32 frees of one slot bring its version back.  The invariant behind
it is `Versions`: a view's version is below its own number in order of creation, equals its
slot's version while it is listed and is strictly below it afterwards; freeing raises a
version by one and never above the number of entities created, so it does not wrap.

`EntitiesProofs` then proves the four properties of the run `overlays`.  Three follow from
`OverlaysInv`, which adds to `IInv` of the entity layer that a memoized array misses nobody
and every death was announced (`CacheComplete`, `DeathIsAnnounced`), that getters memoize
objects of their own classes (`HooksKnown`), and `SingleRow`.  The last is why a memoized
`gameRules` may live on: under `ServerAllows` one such entity is alive at a time, the hook
has freed row 0 before the next one allocates, and so every entity of the class there ever
was has row 0 and the old view reads the new one's values.  For the arrays an entry either
drops a cache or leaves the members of its classes in place (`DropsCoverMembers`).

`CachesShowNobodyGone`, that is `CacheSound`, is stated for `QuietDeletes`: no listener reads
`players` or another array inside `entityDeleted`.  Without it the claim is false, since such
a read memoizes the entity about to be deleted (section 14); the run covers the same case.

`RoundsProofs` proves the five properties of `Rounds` from `IInv`: the phase is what
the rules and the stage say (`PhaseOfStage`), so that one change to "over" goes with one
round; a round in progress has a window and a closed one has the number the rules show
(`WindowOfRound`), so that an award after the end finds its round; the numbers closed are
those counted (`NumbersCounted`); no record has a tick that is still to come (`NothingAhead`);
and the three trackers' entries of one index are of one round, the open window being the last
(`WindowsJoin`).  The join compares a player's credited damage with a sum over the victims,
a fold over a finite set in the community modules; that a hit raises both sides alike is
proved by an induction over finite sets of players (`HitsAreASum`, `HitsAdd`), with the set
of the good subsets in the place of a predicate.

`ParseLoopProofs` rests on one lemma (`StepControlled`): every step is taken before the end
and either goes on with no error or a corrupt one, ends with exactly one fatal error, or ends
with none.  `IInv` adds to `TypeOK` and `FatalEndsParse` what makes them inductive: no fatal
error while the parse is on (`NoFatalYet`), the schema whole at every message and not only
between frames (`SchemaWhole`), messages left in packets only (`OnlyPacketsTakeTurns`), and
`DamageIsLocal` itself, for which each action is shown to add to `met` what it does to the parse.
From it follow `FatalErrorEndsParse`, `SchemaNeverHalf`,
`SchemaNeverChanges`, `EveryMessageHasItsTurn` and `DamageStaysLocal`.

`StringTablesProofs` proves every property of `StringTables`.  `IndexFollowsUserinfo` holds
between handlers only; its invariant (`Tracks`) says what holds inside one: a built index
equals the roster unless userinfo is torn or the handler in progress may have written to it
already.  That needs a handler that works on userinfo to have its refresh ahead
(`RefreshAhead`) and table names to be unique (`NamedOnce`), since `refresh` finds its table
by name.  `LookupsAgree` needs the index to be a function of a roster at all (`IndexAgrees`).

`GrenadesProofs` proves the three properties of `Grenades` and `Positions`.
`PositionsInOrder` needs that no sample is later than the last tick sampled (`SamplesKnown`),
which holds although frames may run backwards.  `ThrowerFound` rests on `HandlesKnown`, that
every handle in the game, the list and the trackers packs the id and serial of the thrower
recorded in `seen`, and on the lemmas that packing and unpacking are inverse for every width.

`FlightsAreWhole` says that every grenade has its whole flight recorded, to the explosion if
the demo told it, but for those that entered twice or were replaced, and that no record tells
of another grenade.  Its invariant, `Flights`, says where the records are.  An entity's name
says where it sits (`NamedAsPlaced`); a record is tracked exactly while its grenade is listed
(`TrackedAsListed`) and a completed one is of a grenade that is gone (`CompletedAreGone`); an
event under way is of the last grenade shown at its id (`BlastsUnderWay`); a record, open or
finished, tells what was sent of the grenade it is named for since it last entered
(`RecordsTellFlights`), which is all of it for one that entered once (`PathsBegin`); and a
grenade that entered is listed or has left a record behind, unless it was interrupted
(`EnteredIsRecorded`).  The part about positions needs what
`Squeeze`, a fold over the sequence of samples, computes: `SqueezeMore` says what one more
sample adds, and `SqueezeIsAFold` gets it from the fold's definition by induction over its
length.

`PacketEntitiesProofs` proves first that the sweep of swaps permutes any list (`SortPermutes`)
and leaves it in order of effective priority (`SortOrders`).  The invariant is the picture of
the array during the sweep of a bucket: before the write head sorted and not above the bucket,
from there to the read head above it, behind that not below it; a bucket ends with nothing
equal to it behind the head.

Then comes the bit-level decoding, in three layers.

- *A read* (`BitStreamProofs`).  `Reads(r, after, e, v)` says that the decoder that went from
  `r` to `after` took the bits `e` and returned `v` if the stream has them all, and threw if
  it ends inside them. It is shown for every read of `BitStream` and every kind of prop.  At
  the bottom are the windows of `readBits`: a field of up to 32 bits at any alignment, put
  together from words of four bytes, has the digits of the number written (`FieldOfWord`, the
  two halves of `SlowField` included).  Then signed and zigzag numbers, varints as an
  induction over their groups, coordinates, cells and normals, vectors, strings, and arrays as
  an induction over their elements.  Reads compose (`ReadsOn`), and `PropReads` is the result:
  a value that its encoding has room for is decoded as written, from its own bits and no
  others.
- *A message.*  `DeltaRoundTrip` says what was decoded, not where the reader is, and is not
  inductive.  `DeltasInv` adds where: while a message is decoded, the reader stands in its
  bits behind those of the entries decoded and inside the entry under way before the next
  index or before the next value (`AtEntry`, `AtIndex`, `AtValue` in `Underway`); the indices
  still to be read from `todo` are those of the values still to be sent; and `known` has every
  entity that a later entry may name (`KnowsOn`).  Each step moves from one of these places to
  the next, and a step that throws is one whose bits the cut took away, so that `cut > 0`.
  `DeltasRoundTrip` holds for any number of classes below 2^16, any lists, any number of
  entries and changes.
- *A getter.*  `ViewsShow` follows from the same invariant: the lookup by name and table finds
  the one index that the prop has in the list (`GetterFinds`; `SlotShows` for the slots of the
  resource), and the row has under this index the last value sent of the prop (`RowHolds`).

The two theorems are about the specification of `EntityDeltas`, where the server's lists are the
parser's; `FlattensAsServer`, which TLC checks, is what makes them so.

`StringTablesProofs` goes on to the wire form of a table with `StringsAsSent`, that is
`EntriesAsSent` for messages and snapshots of any length, keys and userdata of any bytes that
their fields have room for, any number of bytes cut off, and rings of any two sizes up to 32.

- *An entry* (`EntryReads`).  The index, the key and the userdata are read from the bits the
  server wrote for them; a key that is the start of a key of the ring and a rest is put
  together again (`KeyReads`), which needs the reader's ring to be the one the server encoded
  with.
- *A message.*  `EntriesAsSent` says nothing of the ring or of the reader and is not
  inductive. `StringInv` adds them: while a message is read (`InStep`) the parser's ring is
  the server's after as many entries as were read, the table shows what the server's entries
  were then, and the reader stands behind the bits of those entries, or has thrown.  A turn of
  the loop goes from one such place to the next (`ReadInStep`), and at the end of the message
  both sides are level (`LevelAgain`), so that the next one may begin; a message that was not
  read to its end sets `behind`.  All of this is said while the rings are alike.  The server's
  never gets shorter (`SidesLonger`), so if they are alike after a message they were before
  each of its entries (`AlikeBefore`), and the two sides then drop the same keys
  (`SidesAlike`); once they are not alike the invariant keeps only what a snapshot needs.  The
  property counts entries put in a list one after the other, the server its own table;
  `PutAllSides` shows that the two are the same.
- *A snapshot* (`SnapshotTaken`).  Every record comes back as it was written unless the reader
  runs out of bytes, by an induction over the records (`RecordsTaken`), and the merge gives
  each index its own record (`MergedShows`), whatever the table held before.  It leaves the
  ring alone, so `behind` stays set.

`EventsProofs` proves `RightPlayer` and the half of `PayloadAsSent` about game events
(`ValuesAsSent`).  The invariant has two parts that matter.  `OneSeat`: a user sits in one
slot, and where a slot is taken and its entity is listed, the two are of the same user.
`MemoOfList`: the memoized array is the entity list's, but for an entity that a listener read
while it was deleted, whose id is free for as long as the array lives.  So an id leads to one
entity in the array, and it is the one of the list or that exception (`AtSlot`).  For the
values, the last descriptor of an id is the one in the table (`TableHas`), and the parser
pairs cells with keys as the server did (`DecodedAsMeant`) if it knows every key's type.
No enricher fills a field twice (`FieldsToldOnce`, for all of them).  Assumed of the lists: a
key under which an enricher looks for a player has a type of number (`UsersAreNumbers`); a
list with another type there would make the parser show nobody.

Model-checked only:

- `FlattensAsServer`: the walk over the tables and the server's own flattening recurse over a
  graph of tables, with recursive operators, and the prover has no arithmetic in a module that
  reaches one.  `Datatables` and `PacketEntities` are the modules that do.
- `DecodesAsSent`: decoding is an induction over the bytes of a message, data whose shape is
  the instance's.
- The chat half of `PayloadAsSent`: the text a message means is given with the message by the
  instance, so a theorem would have to assume what it says.
- `ParseEnds`: liveness under fairness is beyond the prover.

## 13. Not modelled

- `SteamId`, enums and typed constants, `precache.ts`: pure conversions and views.
- The native Snappy binding: an external library behind one function that may fail.
- `fromJSON`, `toJSON`, `fromPartial` of the generated messages have no caller, and
  `generated/google/protobuf/descriptor.ts` is imported by nothing.
- Scripts, benchmarks, examples: programs that use the parser.
- Widths past 2^31, UTF-8 decoding, and the floating-point rounding of a decoded prop.

## 14. Where comments and code differ

Six differences have a run:

- `overlays_held`: an overlay held past the life of its entity reads the slot's next user
  (`state/Player.ts:195` against `DemoParser.ts:113-114`, `:236-239`).
- `rounds_index`: rounds joined by index drift apart after a restarted or unfinished round
  (`DemoParser.ts:666` against `EconomyTracker.ts:24-25`).
- `views_local`: the position of the player who recorded the demo reads as the origin
  (`state/Player.ts:174` against `:24-29`).
- `parse_chat`: a chat message whose inner protobuf does not decode ends the parse
  (`DemoParser.ts:1316` against `:1310-1314` and `UserMessageDecoder.ts:42-44`).
- `wire_ring`: the ring of recent keys is "a 32-slot circular buffer"
  (`StringTableParser.ts:42-44`), and 31 keys are kept (`:179`; `:60-62` says that 31 is the
  size in practice).  If the server's ring has 32, keys are wrong once it has turned over.
- `grenades_flight`: the "full in-flight path of every grenade projectile"
  (`GrenadeTrajectoryTracker.ts:2-3`, `:74-78`) is not kept for one that enters twice or that
  another of its class replaces at its id; both overwrite the record (`:260`).

These were met while modelling; each module has the code's behaviour:

- A same-class re-create leaves the replaced view in state "active" (`EntityList.ts:78`
  against `Entity.ts:57-66`).
- `players` read inside an `entityDeleted` listener memoizes the dying entity
  (`DemoParser.ts:1210`), and `resolvePlayer` may return it (`EnricherContext.ts:35-39`,
  `DemoParser.ts:226-227`).
- A header that cannot be read throws out of `parseAll` (`DemoParser.ts:763` against
  `:748-755`).
- A userinfo update that fails half way leaves a built index behind (`DemoParser.ts:1032`
  against `userInfoIndex.ts:48-50`).
- The sweep is called stable (`Flattener.ts:26-28`, `:194-195`, `:228-230`); priorities
  2, 2, 1 show that it is not.  The server's is the same sweep, so the lists agree.
- `Flattener.ts:21` gives CHANGES_OFTEN the priority 64, the code the smaller of 64 and
  the prop's own.
- `PacketEntitiesDecoder.ts:13` names `readUBitVar`; the code uses `readUBitInt`.
- `SendTable.ts:82-83` puts an array's element after the array; the code expects it before.
- The descriptor table drops keys of unknown type (`EventDescriptorTable.ts:86-99`), which
  shifts the pairing by position that `:75-79` describes.
- `StringTableManager.ts:10-12` and `:34-39` say that a `dem_stringtables` frame wipes and
  reseeds a table through `replaceTable`.  Nothing calls it: `handleStringTableSnapshot` merges
  by index (`DemoParser.ts:1049-1060`), which is what `TablesOnlyGrow` checks.
- `EventDescriptor.ts:20` says that a uint64 is exposed as `bigint`; `GameEventDecoder.ts:18-26`
  and the code give a number, or a decimal string past the safe integers, as `PayloadAsSent`
  has it.
- `ParserEventMap.ts:355-357` promises the offset "where the failing read began"; for a corrupt
  string table it is the reader's position behind the frame (`DemoParser.ts:784`, `:796`).
