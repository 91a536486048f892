------------------------------ MODULE StringWire ------------------------------
(***************************************************************************)
(* The wire forms of one string table (src/src/stringtables/): the bits of *)
(* CreateStringTable and UpdateStringTable, which StringTableParser reads, *)
(* and the bytes of a dem_stringtables snapshot, which SnapshotParser      *)
(* reads.  A key may be sent as the start of an earlier key and a rest;    *)
(* the earlier keys are a ring that the server and the parser each keep.   *)
(* What the handlers do to several tables, to the lookups and to the       *)
(* userinfo index is StringTables.                                         *)
(*                                                                         *)
(* A key and a userdata blob are sequences of bytes; indices count from 0. *)
(***************************************************************************)
EXTENDS PropDecoders

CONSTANTS
  NoValue,             \* undefined in the code
  HistorySize,         \* HISTORY_SIZE
  MaxStringLength,     \* MAX_STRING_LENGTH
  ServerHistory,       \* the slots of the server's ring
  Creates,             \* the messages that may create the table
  Updates(_, _),       \* those that may follow, for the server's entries and the table
  Snapshots,           \* the client entries a snapshot may carry, and how many bytes are cut off
  MaxMessages          \* bounds the messages of a behaviour

\* Five bits name a key of a ring.
ASSUME HistorySizes == HistorySize \in 1..32 /\ ServerHistory \in 1..32

ASSUME StringLengths == MaxStringLength \in Nat

\* A snapshot counts its entries and the bytes of each in 16 bits.
MaxCount == 65535

FitsRecord(record) == record.key \in Seq(1..255) /\ record.data \in Seq(0..255) /\ Len(record.data) <= MaxCount

ASSUME SnapshotsAssumption ==
  \A s \in Snapshots :
    /\ s.cut \in Nat
    /\ s.client \in Seq(Range(s.client)) /\ Len(s.client) <= MaxCount
    /\ \A record \in Range(s.client) : FitsRecord(record)

VARIABLES
  table,        \* the StringTable, and whether there is one: [created, max, fixed, entries]
  history,      \* the parser's ring, oldest key first
  stream,       \* the BitReader over string_data
  lastIndex,    \* the index of the entry read last
  server,       \* the server's side: [entries, history]
  handled,      \* the message: the entries as the server resolved them, the server's
                \* entries before it, and how many were read
  behind,       \* ghost: a message was not read to its end
  restored,     \* ghost: a snapshot was the last message
  messageCount

stringVars == <<table, history, stream, lastIndex, server, handled, behind, restored, messageCount>>

-----------------------------------------------------------------------------
(* The server's encoding. *)

Put(entries, e) ==
  [i \in DOMAIN entries \cup {e.index} |->
     IF i = e.index THEN [key |-> e.key, data |-> e.data] ELSE entries[i]]

\* One after the other: of two with an index the later counts.
PutAll(entries, list) ==
  LET at(i) == {k \in DOMAIN list : list[k].index = i /\ \A l \in DOMAIN list : l > k => list[l].index # i}
  IN [i \in DOMAIN entries \cup {list[k].index : k \in DOMAIN list} |->
        IF at(i) = {} THEN entries[i]
        ELSE LET e == list[CHOOSE k \in at(i) : TRUE] IN [key |-> e.key, data |-> e.data]]

Pushed(ring, key) == IF Len(ring) < ServerHistory THEN Append(ring, key) ELSE Append(Tail(ring), key)

\* The entry as the table gets it: it keeps its key when none is sent.
Resolved(side, e) ==
  [index |-> e.index, key |-> IF e.key = NoValue THEN side.entries[e.index].key ELSE e.key, data |-> e.data]

\* A side of the server after it wrote an entry, and each of a message.
Wrote(side, e) ==
  [ entries |-> Put(side.entries, Resolved(side, e)), history |-> Pushed(side.history, Resolved(side, e).key) ]

Sides(side, entries) ==
  LET after[i \in 0..Len(entries)] == IF i = 0 THEN side ELSE Wrote(after[i - 1], entries[i]) IN after

\* The bits that name one of `max` entries: ceil(log2(max)).
BitsForMaxEntries(max) == IF max <= 1 THEN 0 ELSE CHOOSE w \in 1..31 : 2 ^ w >= max /\ 2 ^ (w - 1) < max

Bytes(b) == FlattenSeq([i \in DOMAIN b |-> Bits(b[i], 8)])

EncodeText(text) == Append(text, 0)

EncodeIndex(index, last, max) ==
  IF index = last + 1 THEN <<1>> ELSE <<0>> \o Bits(index, BitsForMaxEntries(max))

\* How much of a key an earlier one has, up to what five bits count.
Shared(key, earlier) ==
  Max({n \in 0..31 : n <= Len(key) /\ n <= Len(earlier) /\ SubSeq(key, 1, n) = SubSeq(earlier, 1, n)})

EncodeKey(e, ring) ==
  IF e.key = NoValue THEN <<0>>
  ELSE IF e.from \notin DOMAIN ring THEN <<1, 0>> \o Bytes(EncodeText(e.key))
  ELSE LET n == Shared(e.key, ring[e.from])
       IN (<<1, 1>> \o Bits(e.from - 1, 5)) \o (Bits(n, 5) \o Bytes(EncodeText(SubSeq(e.key, n + 1, Len(e.key)))))

EncodeFixed(data, bits) ==
  IF bits % 8 = 0 THEN Bytes(data) ELSE Bytes(Front(data)) \o Bits(Last(data), bits % 8)

EncodeData(data, fixed) ==
  IF data = NoValue THEN <<0>>
  ELSE IF fixed = NoValue THEN <<1>> \o (Bits(Len(data), 14) \o Bytes(data))
  ELSE <<1>> \o EncodeFixed(data, fixed)

LastBefore(entries, i) == IF i = 1 THEN -1 ELSE entries[i - 1].index

EncodeEntry(side, e, last, max, fixed) ==
  (EncodeIndex(e.index, last, max) \o EncodeKey(e, side.history)) \o EncodeData(e.data, fixed)

EncodeEntries(side, entries, max, fixed) ==
  FlattenSeq([i \in DOMAIN entries |->
    EncodeEntry(Sides(side, entries)[i - 1], entries[i], LastBefore(entries, i), max, fixed)])

\* A zero bit, the entries, padding to whole bytes, less the bytes that were cut off.
Whole(bits, cut) ==
  [k \in 1..8 * ((Len(bits) + 7) \div 8 - cut) |-> IF k <= Len(bits) THEN bits[k] ELSE 0]

\* A snapshot in bytes: one table, its entries, and the client's.
EncodeWord(n) == <<n % 256, n \div 256>>
EncodeRecord(record) == (EncodeText(record.key) \o EncodeWord(Len(record.data))) \o record.data
EncodeRecords(records) == EncodeWord(Len(records)) \o FlattenSeq([i \in DOMAIN records |-> EncodeRecord(records[i])])
EncodeSnapshot(name, records, client) ==
  (<<1>> \o EncodeText(name)) \o (EncodeRecords(records) \o (IF client = <<>> THEN <<0>> ELSE <<1>> \o EncodeRecords(client)))

-----------------------------------------------------------------------------
(* What the encodings have room for. *)

FitsKey(key) == key \in Seq(1..255) /\ Len(key) < MaxStringLength

FitsData(data, fixed) ==
  /\ data \in Seq(0..255)
  /\ IF fixed = NoValue THEN Len(data) < 2 ^ 14
     ELSE /\ fixed \in Nat /\ Len(data) = (fixed + 7) \div 8 /\ Len(data) < 2 ^ 14
          /\ fixed % 8 # 0 => Last(data) < 2 ^ (fixed % 8)

\* A new entry has the next index and a key; an old one may keep its key.
FitsEntry(entries, e, last, max, fixed) ==
  /\ e.index \in 0..MaxCount - 1 /\ (e.index = last + 1 \/ Fits(e.index, BitsForMaxEntries(max)))
  /\ e.index \in DOMAIN entries \/ (e.index = Cardinality(DOMAIN entries) /\ e.key # NoValue)
  /\ e.key = NoValue \/ FitsKey(e.key)
  /\ e.data = NoValue \/ FitsData(e.data, fixed)

FitsMessage(side, message, max, fixed) ==
  /\ message.entries \in Seq(Range(message.entries)) /\ message.cut \in Nat /\ max \in Nat
  /\ \A i \in DOMAIN message.entries :
       FitsEntry(Sides(side, message.entries)[i - 1].entries, message.entries[i],
                 LastBefore(message.entries, i), max, fixed)

-----------------------------------------------------------------------------
(* Reading an entry. *)

\* Up to a zero byte or MAX_STRING_LENGTH; the reader throws when its bytes run out.
WithByte(state, byte) ==
  IF state.over THEN state
  ELSE [ r    |-> byte,
         text |-> IF byte.value = 0 THEN state.text ELSE Append(state.text, byte.value),
         over |-> byte.value = 0 ]
NextByte(state) == WithByte(state, ReadBits(state.r, 8))
TextRead(state) == Returning(state.r, state.text)

ReadText(r) ==
  LET after[i \in 0..MaxStringLength] ==
        IF i = 0 THEN [r |-> r, text |-> <<>>, over |-> FALSE] ELSE NextByte(after[i - 1])
  IN TextRead(after[MaxStringLength])

\* A key that is sent, whole or as the start of a key of the ring and a rest; undefined
\* when the entry keeps the key it has.
StartOf(source, n) == SubSeq(source, 1, IF n < Len(source) THEN n ELSE Len(source))

ReadKey(r, ring) ==
  LET has    == ReadBit(r)
      prefix == ReadBitIf(has, has.value = 1)
      slot   == ReadBitsIf(prefix, prefix.value = 1, 5)
      length == ReadBitsIf(slot, prefix.value = 1, 5)
      text   == ReadText(length)
      source == IF slot.value + 1 \in DOMAIN ring THEN ring[slot.value + 1] ELSE <<>>
  IN IF has.value = 0 THEN Returning(prefix, NoValue)
     ELSE IF prefix.value = 0 THEN text
     ELSE Returning(text, StartOf(source, length.value) \o text.value)

ReadFixedUserData(r, bits) ==
  LET head == ReadBytes(r, bits \div 8)
      rest == ReadBits(head, bits % 8)
  IN IF bits <= 0 THEN Returning(r, <<>>)
     ELSE IF bits % 8 = 0 THEN head
     ELSE Returning(rest, IF rest.threw THEN <<>> ELSE Append(head.value, rest.value))

ReadUserData(r, fixed) ==
  LET has    == ReadBit(r)
      length == ReadBits(has, 14)
  IN IF has.value = 0 THEN Returning(has, NoValue)
     ELSE IF fixed # NoValue THEN ReadFixedUserData(has, fixed)
     ELSE ReadBytes(length, length.value)

ReadEntryIndex(r, last, max) ==
  LET next == ReadBit(r)
  IN IF next.value = 1 THEN Returning(next, last + 1) ELSE ReadBits(next, BitsForMaxEntries(max))

RememberAll(ring, key) == Append(ring, key)     \* variant: nothing is dropped

Remember(ring, key) ==
  IF Len(ring) < HistorySize THEN Append(ring, key) ELSE Append(Tail(ring), key)

Unread == handled.read < Len(handled.entries)

KeyAt(entries, i) == IF i \in DOMAIN entries THEN entries[i].key ELSE <<>>

\* setEntry and the push onto the ring.
SetsEntry(index, key, data) ==
  /\ table' = [table EXCEPT !.entries = Put(@, [index |-> index, key |-> key, data |-> data])]
  /\ history' = Remember(history, key)
  /\ lastIndex' = index
  /\ handled' = [handled EXCEPT !.read = @ + 1]

\* One turn of the loop of parseStringTableEntries.
ReadStringEntry ==
  /\ Unread /\ ~stream.threw
  /\ \E index \in {ReadEntryIndex(stream, lastIndex, table.max)} :
     \E key \in {ReadKey(index, history)} : \E data \in {ReadUserData(key, table.fixed)} :
       IF data.threw \/ index.value >= table.max
         THEN /\ stream' = Throwing(data)
              /\ UNCHANGED <<table, history, lastIndex, handled>>
         ELSE /\ stream' = data
              /\ SetsEntry(index.value, IF key.value = NoValue THEN KeyAt(table.entries, index.value) ELSE key.value,
                        data.value)
  /\ UNCHANGED <<server, behind, restored, messageCount>>

-----------------------------------------------------------------------------
(* The handlers of the two messages up to the loop. *)

Waiting == (Unread => stream.threw) /\ messageCount < MaxMessages

\* The server sends a message: the parser reads its entries from its bits, or none at all
\* when those are empty, marked as coded with dictionaries, or cannot be decompressed.
Writes(message, max, fixed) ==
  LET entries == message.entries
      bits == Whole(<<0>> \o EncodeEntries(server, entries, max, fixed), message.cut)
  IN /\ FitsMessage(server, message, max, fixed)
     /\ server' = Sides(server, entries)[Len(entries)]
     /\ handled' = [ entries |-> [i \in DOMAIN entries |-> Resolved(Sides(server, entries)[i - 1], entries[i])],
                     before  |-> server.entries,
                     read    |-> 0 ]
     /\ stream' = IF message.form = "plain" /\ bits # <<>> THEN ReadBit(Reader(bits))
                  ELSE Throwing(Reader(<<>>))
     /\ lastIndex' = -1
     /\ behind' = (behind \/ Unread)
     /\ restored' = FALSE
     /\ messageCount' = messageCount + 1

CreateStrings ==
  /\ Waiting
  /\ ~table.created
  /\ \E message \in Creates :
       /\ Writes(message, message.max, message.fixed)
       /\ table' = [created |-> TRUE, max |-> message.max, fixed |-> message.fixed, entries |-> <<>>]
  /\ history' = <<>>

UpdateStrings ==
  /\ Waiting
  /\ table.created
  /\ \E message \in Updates(server.entries, table) : Writes(message, table.max, table.fixed)
  /\ UNCHANGED <<table, history>>

-----------------------------------------------------------------------------
(* Snapshots. *)

\* parseStringTableSnapshot over bytes: a reader is the rest of them and what it read.
Short(r, n) == [rest |-> r.rest, got |-> [i \in 1..n |-> 0], threw |-> TRUE]
Took(r, n, m) == [rest |-> SubSeq(r.rest, m + 1, Len(r.rest)), got |-> SubSeq(r.rest, 1, n), threw |-> FALSE]

Take(r, n) == IF r.threw \/ Len(r.rest) < n THEN Short(r, n) ELSE Took(r, n, n)

\* Up to a zero byte, which is taken too.
TakeText(r) ==
  LET ends == {i \in DOMAIN r.rest : r.rest[i] = 0}
  IN IF r.threw \/ ends = {} THEN Short(r, 0) ELSE Took(r, Min(ends) - 1, Min(ends))

TakeWord(r) == Take(r, 2)
Number(word) == word[1] + 256 * word[2]

\* One more record after those of `list`.
WithRecord(list, key, data) == [r |-> data, list |-> Append(list, [key |-> key.got, data |-> data.got])]
WithData(list, key, size) == WithRecord(list, key, Take(size, Number(size.got)))
WithKey(list, key) == WithData(list, key, TakeWord(key))
NextRecord(state) == WithKey(state.list, TakeText(state.r))

RecordsFrom(count) ==
  LET after[i \in 0..Number(count.got)] ==
        IF i = 0 THEN [r |-> count, list |-> <<>>] ELSE NextRecord(after[i - 1])
  IN after[Number(count.got)]
TakeRecords(r) == RecordsFrom(TakeWord(r))

ParseSnapshot(bytes) ==
  LET tables  == Take([rest |-> bytes, got |-> <<>>, threw |-> FALSE], 1)
      entries == TakeRecords(TakeText(tables))
      flag    == Take(entries.r, 1)
      client  == IF flag.got = <<1>> THEN TakeRecords(flag) ELSE [r |-> flag, list |-> <<>>]
  IN [threw |-> client.r.threw, entries |-> entries.list, client |-> client.list]

\* handleStringTables merges by index, the client's entries behind the others, up to the
\* table's capacity; empty userdata counts as none.
Merged(entries, max, snapshot) ==
  LET all == snapshot.entries \o snapshot.client
  IN PutAll(entries, [i \in 1..(IF Len(all) < max THEN Len(all) ELSE max) |->
       [index |-> i - 1, key |-> all[i].key,
        data |-> IF all[i].data = <<>> THEN NoValue ELSE all[i].data]])

\* A snapshot cannot tell no userdata from empty userdata.
SomeData(data) == IF data = NoValue THEN <<>> ELSE data

ServerRecords ==
  [i \in 1..Cardinality(DOMAIN server.entries) |->
     [key |-> server.entries[i - 1].key, data |-> SomeData(server.entries[i - 1].data)]]

SnapshotStrings ==
  /\ Waiting
  /\ table.created
  /\ \E s \in Snapshots :
       LET all == EncodeSnapshot(<<116>>, ServerRecords, s.client)
       IN \E parsed \in {ParseSnapshot(SubSeq(all, 1, Len(all) - s.cut))} :
            /\ table' = IF parsed.threw THEN table
                        ELSE [table EXCEPT !.entries = Merged(@, table.max, parsed)]
            /\ restored' = (restored \/ ~parsed.threw)
  /\ handled' = [entries |-> <<>>, before |-> server.entries, read |-> 0]
  /\ behind' = (behind \/ Unread)
  /\ messageCount' = messageCount + 1
  /\ UNCHANGED <<history, stream, lastIndex, server>>

InitStrings ==
  /\ table = [created |-> FALSE, max |-> 0, fixed |-> NoValue, entries |-> <<>>]
  /\ history = <<>>
  /\ stream = Reader(<<>>)
  /\ lastIndex = -1
  /\ server = [entries |-> <<>>, history |-> <<>>]
  /\ handled = [entries |-> <<>>, before |-> <<>>, read |-> 0]
  /\ behind = FALSE
  /\ restored = FALSE
  /\ messageCount = 0

NextStrings == CreateStrings \/ UpdateStrings \/ ReadStringEntry \/ SnapshotStrings

StringSpec == InitStrings /\ [][NextStrings]_stringVars

-----------------------------------------------------------------------------

\* The entries the parser should have by now.
Expected == PutAll(handled.before, SubSeq(handled.entries, 1, handled.read))

EntriesShown ==
  \A i \in {j \in DOMAIN Expected : j < table.max} :
    /\ i \in DOMAIN table.entries
    /\ table.entries[i].key = Expected[i].key
    /\ SomeData(table.entries[i].data) = SomeData(Expected[i].data)

\* The two rings are of one size, or neither has dropped a key yet.
RingsAlike ==
  \/ ServerHistory = HistorySize
  \/ Len(server.history) < ServerHistory /\ Len(server.history) <= HistorySize

\* As long as every message was read to its end and the rings are alike, or after a
\* snapshot, each entry has the key and the userdata the server gave it, also those of a
\* message that failed half way: the parser's ring holds what the server's held at every
\* key that refers to it.
EntriesAsSent == table.created /\ ((~behind /\ RingsAlike) \/ restored) => EntriesShown

\* The same whatever the size of the server's ring: StringTableParser.ts:42 calls it a
\* 32-slot buffer, and the parser keeps HISTORY_SIZE = 31 keys, so that once the rings
\* are full a key of the message names another key of the parser's.
EntriesOfAnyRing == table.created /\ (~behind \/ restored) => EntriesShown
=============================================================================
