---------------------------- MODULE EntityDeltas ----------------------------
(***************************************************************************)
(* One CSVCMsg_PacketEntities on the wire: the bits that the game server   *)
(* writes from its own prop lists, and decodePacketEntities that reads     *)
(* them (src/src/entities/PacketEntitiesDecoder.ts) with the lists of the  *)
(* classes.  What the entries do to the entity list and the stores is      *)
(* module Entities; here an entry is the record of what was decoded: [op,  *)
(* id, class, serial, changes], a change the prop and its value.           *)
(***************************************************************************)
EXTENDS ServerClasses, PropDecoders

CONSTANTS
  ParsedClasses, \* the classes that may have been parsed
  Messages(_),   \* the messages the server may send, from its lists by class id
  Known          \* the entities of the list before the message, with their class

VARIABLES
  sent,         \* the message: [lists, entries, newWay, form, cut]
  reader,       \* the BitReader over entity_data
  decoded,      \* the entries decoded so far
  known,        \* the entity list: id -> class id
  reading       \* the local state of the entry being read

deltaVars == <<sent, reader, decoded, known, reading>>

-----------------------------------------------------------------------------
(* The server's encoding. *)

\* The forms of a number, each with the numbers it can hold.
EntryIndex(n) ==
  IF n < 16 THEN Bits(n, 6)
  ELSE IF n < 256 THEN Bits(n % 16, 4) \o <<1, 0>> \o Bits(n \div 16, 4)
  ELSE IF n < 4096 THEN Bits(n % 16, 4) \o <<0, 1>> \o Bits(n \div 16, 8)
  ELSE Bits(n % 16, 4) \o <<1, 1>> \o Bits(n \div 16, 28)

\* A gap between prop indices, in the form asked for.
Gap(n, newWay, form) ==
  LET prefix == IF newWay THEN <<0, 0>> ELSE <<>>
      low == Bits(n % 32, 5)
  IN CASE form = "next" /\ newWay /\ n = 0  -> <<1>>
       [] form = "short" /\ newWay /\ n < 8 -> <<0, 1>> \o Bits(n, 3)
       [] form = "two"   -> prefix \o low \o <<1, 0>> \o Bits(n \div 32, 2)
       [] form = "four"  -> prefix \o low \o <<0, 1>> \o Bits(n \div 32, 4)
       [] form = "seven" -> prefix \o low \o <<1, 1>> \o Bits(n \div 32, 7)
       [] OTHER          -> prefix \o low \o <<0, 0>>

EndOfIndices(newWay) == Gap(4095, newWay, "seven")

EncodeChanges(list, changes, newWay, form) ==
  LET Index(k) == Gap(changes[k][1] - (IF k = 1 THEN 0 ELSE changes[k - 1][1]) - 1, newWay, form)
      Value(k) == EncodeProp(list[changes[k][1]], changes[k][2])
  IN Bit(newWay)
     \o FlattenSeq([k \in DOMAIN changes |-> Index(k)]) \o EndOfIndices(newWay)
     \o FlattenSeq([k \in DOMAIN changes |-> Value(k)])

\* max(1, ceil(log2(max(2, n)))) bits name one of n classes.
ClassIdBits(n) == IF n <= 2 THEN 1 ELSE CHOOSE w \in 1..31 : 2 ^ w >= n /\ 2 ^ (w - 1) < n

OpBits(op) ==
  CASE op = "delete" -> <<1, 1>>
    [] op = "leave"  -> <<1, 0>>
    [] op = "enter"  -> <<0, 1>>
    [] op = "update" -> <<0, 0>>

EncodeHead(entry, gap, idBits) ==
  EntryIndex(gap) \o OpBits(entry.op)
  \o (IF entry.op = "enter" THEN Bits(entry.class, idBits) \o Bits(entry.serial, 10) ELSE <<>>)

HasChanges(entry) == entry.op \in {"enter", "update"}

EncodeEntry(lists, idBits, message, k) ==
  LET entry == message.entries[k]
      gap == entry.id - (IF k = 1 THEN 0 ELSE message.entries[k - 1].id + 1)
  IN EncodeHead(entry, gap, idBits)
     \o (IF HasChanges(entry)
           THEN EncodeChanges(lists[entry.class], entry.changes, message.newWay, message.form) ELSE <<>>)

\* The bits of the entries, padded to whole bytes, less the bytes that were cut off.
Encode(lists, idBits, message) ==
  LET bits == FlattenSeq([k \in DOMAIN message.entries |-> EncodeEntry(lists, idBits, message, k)])
      bytes == (Len(bits) + 7) \div 8 - message.cut
  IN [k \in 1..8 * bytes |-> IF k <= Len(bits) THEN bits[k] ELSE 0]

\* A gap that its form has room for; 4095 is kept for the end.
FitsGap(n, newWay, form) ==
  /\ n \in Nat
  /\ CASE form = "next" /\ newWay /\ n = 0  -> TRUE
       [] form = "short" /\ newWay /\ n < 8 -> TRUE
       [] form = "two"   -> n < 128
       [] form = "four"  -> n < 512
       [] form = "seven" -> n < 4095
       [] OTHER          -> n < 32

SoundChanges(list, changes, newWay, form) ==
  /\ changes \in Seq(Range(changes))
  /\ \A i \in DOMAIN changes :
       /\ changes[i][1] \in DOMAIN list
       /\ FitsGap(changes[i][1] - (IF i = 1 THEN 0 ELSE changes[i - 1][1]) - 1, newWay, form)
       /\ FitsProp(list[changes[i][1]], changes[i][2])

SoundEntry(lists, e, newWay, form) ==
  /\ e = [op |-> e.op, id |-> e.id, class |-> e.class, serial |-> e.serial, changes |-> e.changes]
  /\ e.id \in 0..MaxNumber
  /\ e.op \in {"delete", "leave", "enter", "update"}
  /\ IF e.op = "enter" THEN e.serial \in 0..1023
     ELSE e.id \in DOMAIN Known /\ e.class = Known[e.id] /\ e.serial = 0
  /\ IF e.op \in {"delete", "leave"} THEN e.changes = <<>>
     ELSE e.class \in DOMAIN lists /\ SoundChanges(lists[e.class], e.changes, newWay, form)

\* The server names entities in the order of their ids, those it has sent, and writes
\* what its encodings have room for.
SoundMessage(lists, message) ==
  /\ message.newWay \in BOOLEAN
  /\ message.cut \in Nat
  /\ message.entries \in Seq(Range(message.entries))
  /\ \A k \in DOMAIN message.entries :
       /\ SoundEntry(lists, message.entries[k], message.newWay, message.form)
       /\ k > 1 => message.entries[k - 1].id < message.entries[k].id

SoundClasses(parsed) ==
  /\ parsed \in Seq(Range(parsed)) /\ Word16(Len(parsed))
  /\ \A i \in DOMAIN parsed : parsed[i].flattenedProps \in Seq(Range(parsed[i].flattenedProps))

ASSUME MessagesAssumption ==
  \A parsed \in ParsedClasses :
    /\ SoundClasses(parsed)
    /\ \A message \in Messages(ClassLists(parsed)) : SoundMessage(ClassLists(parsed), message)

\* What the server means by its changes: props and values.
Named(list, changes) == [i \in DOMAIN changes |-> <<list[changes[i][1]], changes[i][2]>>]

Meant(lists, e) ==
  [op |-> e.op, id |-> e.id, class |-> e.class, serial |-> e.serial, changes |-> Named(lists[e.class], e.changes)]

Reading(phase, previous, newWay, last, todo) ==
  [phase |-> phase, previous |-> previous, newWay |-> newWay, last |-> last, todo |-> todo]

NotReading == Reading("entry", -1, FALSE, 0, <<>>)

\* The server sends a message with the lists that it has, once the tables are parsed.
Send(lists) ==
  /\ stage = "parsed"
  /\ \E message \in Messages(lists) :
       /\ sent' = [lists |-> lists, newWay |-> message.newWay, form |-> message.form, cut |-> message.cut,
                   entries |-> [k \in DOMAIN message.entries |-> Meant(lists, message.entries[k])]]
       /\ reader' = Reader(Encode(lists, ClassIdBits(Len(classes)), message))
       /\ reader'.bits # <<>>
  /\ known' = Known
  /\ reading' = NotReading
  /\ stage' = "message"
  /\ UNCHANGED <<classes, decoded>>

-----------------------------------------------------------------------------
(* decodePacketEntities. *)

ReadUBitInt(r) ==
  LET ret  == ReadBits(r, 6)
      tag  == ret.value \div 16
      more == ReadBits(ret, CASE tag = 0 -> 0 [] tag = 1 -> 4 [] tag = 2 -> 8 [] tag = 3 -> 28)
  IN Returning(more, (ret.value % 16) + 16 * more.value)

\* readFieldIndex, as the number to add to the last index; 4095 ends the list.
ReadGap(r, newWay) ==
  LET next  == ReadBitIf(r, newWay)
      short == ReadBitIf(next, newWay /\ next.value = 0)
      three == ReadBits(short, 3)
      seven == ReadBits(short, 7)
      tag   == seven.value \div 32
      more  == ReadBits(seven, CASE tag = 0 -> 0 [] tag = 1 -> 2 [] tag = 2 -> 4 [] tag = 3 -> 7)
  IN IF newWay /\ next.value = 1 THEN Returning(next, 0)
     ELSE IF newWay /\ short.value = 1 THEN three
     ELSE Returning(more, (seven.value % 32) + 32 * more.value)

Throws ==
  /\ stage' = "threw"
  /\ UNCHANGED <<reader, decoded, known, reading>>

\* The head of an entry: the id, the op bits and, for an entity that enters,
\* its class and serial.  An entry with changes goes on with their indices.
Header ==
  LET delta   == ReadUBitInt(reader)
      id      == reading.previous + 1 + delta.value
      leaving == ReadBit(delta)
      second  == ReadBit(leaving)
      class   == ReadBits(second, ClassIdBits(Len(classes)))
      serial  == ReadBits(class, 10)
      entity  == IF id \in DOMAIN known THEN known[id] ELSE -1
      Entry(op, c, s) == [op |-> op, id |-> id, class |-> c, serial |-> s, changes |-> <<>>]
  IN CASE leaving.value = 1 ->
            [r |-> second, entry |-> Entry(IF second.value = 1 THEN "delete" ELSE "leave", entity, 0)]
       [] leaving.value = 0 /\ second.value = 1 ->
            [r |-> IF IsClass(class.value) THEN serial ELSE Throwing(serial),
             entry |-> Entry("enter", class.value, serial.value)]
       [] leaving.value = 0 /\ second.value = 0 ->
            [r |-> IF entity = -1 THEN Throwing(second) ELSE second,
             entry |-> Entry("update", entity, 0)]

ReadEntry ==
  /\ reading.phase = "entry"
  /\ Len(decoded) < Len(sent.entries)
  /\ \E head \in {Header} : \E way \in {ReadBitIf(head.r, HasChanges(head.entry))} :
     LET entry == head.entry
     IN IF head.r.threw THEN Throws
        ELSE /\ decoded' = Append(decoded, entry)
             /\ known' = CASE entry.op = "delete" -> [i \in DOMAIN known \ {entry.id} |-> known[i]]
                           [] entry.op = "enter"  -> [i \in DOMAIN known \cup {entry.id} |->
                                                          IF i = entry.id THEN entry.class ELSE known[i]]
                           [] OTHER               -> known
             /\ reader' = way
             /\ reading' = Reading(IF HasChanges(entry) THEN "indices" ELSE "entry",
                                   entry.id, way.value = 1, 0, <<>>)
             /\ stage' = IF way.threw THEN "threw" ELSE stage

\* One index of the list; those of the whole list are read before any value.
ReadIndex ==
  /\ reading.phase = "indices"
  /\ \E gap \in {ReadGap(reader, reading.newWay)} :
     LET index == reading.last + 1 + gap.value
         ends  == gap.value = 4095
     IN IF gap.threw \/ (~ends /\ index > Len(PropsOf(decoded[Len(decoded)].class))) THEN Throws
        ELSE /\ reader' = gap
             /\ reading' = IF ends THEN [reading EXCEPT !.phase = "values"]
                           ELSE Reading("indices", reading.previous, reading.newWay, index,
                                        Append(reading.todo, index))
             /\ UNCHANGED <<decoded, known, stage>>

\* One value, written to the store as soon as it is decoded.
ReadValue ==
  /\ reading.phase = "values"
  /\ reading.todo # <<>>
  /\ \E leaf \in {PropsOf(decoded[Len(decoded)].class)[Head(reading.todo)]} :
     \E read \in {DecodeProp(reader, leaf)} :
        IF read.threw THEN Throws
        ELSE /\ reader' = read
             /\ decoded' = [decoded EXCEPT ![Len(decoded)].changes = Append(@, <<leaf, read.value>>)]
             /\ reading' = [reading EXCEPT !.todo = Tail(@)]
             /\ UNCHANGED <<known, stage>>

EndEntry ==
  /\ reading.phase = "values"
  /\ reading.todo = <<>>
  /\ reading' = [reading EXCEPT !.phase = "entry"]
  /\ UNCHANGED <<reader, decoded, known, stage>>

EndMessage ==
  /\ reading.phase = "entry"
  /\ Len(decoded) = Len(sent.entries)
  /\ stage' = "decoded"
  /\ UNCHANGED <<reader, decoded, known, reading>>

Decode ==
  /\ stage = "message"
  /\ ReadEntry \/ ReadIndex \/ ReadValue \/ EndEntry \/ EndMessage
  /\ UNCHANGED <<classes, sent>>

InitDeltas ==
  /\ sent = None
  /\ reader = Reader(<<>>)
  /\ decoded = <<>>
  /\ known = <<>>
  /\ reading = NotReading

\* The decoder of a message on its own: the server's lists are those of the classes, as
\* FlattensAsServer has it.
InitParsed ==
  /\ InitDeltas
  /\ classes \in ParsedClasses
  /\ stage = "parsed"

NextParsed == Send(ClassLists(classes)) \/ Decode

ParsedSpec == InitParsed /\ [][NextParsed]_<<classes, stage, deltaVars>>

-----------------------------------------------------------------------------

SameHead(a, b) == \A field \in {"op", "id", "class", "serial"} : a[field] = b[field]

\* What the decoder takes from a message is what the server put into it, prop
\* by prop: no bit is skipped or read twice, and a message that was cut short
\* ends in a throw that leaves right values only, the ones before the cut.
DeltaRoundTrip ==
  sent # None =>
    /\ Len(decoded) <= Len(sent.entries)
    /\ \A k \in DOMAIN decoded :
         /\ SameHead(decoded[k], sent.entries[k])
         /\ IsPrefix(decoded[k].changes, sent.entries[k].changes)
         /\ k < Len(decoded) => decoded[k].changes = sent.entries[k].changes
    /\ stage = "decoded" => sent.cut = 0 /\ decoded = sent.entries
    /\ stage = "threw" => sent.cut > 0
=============================================================================
