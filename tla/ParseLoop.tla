------------------------------ MODULE ParseLoop ------------------------------
(***************************************************************************)
(* DemoParser.parseAll (src/DemoParser.ts) with the frame iterator and the *)
(* message dispatcher (src/frame/FrameParser.ts,                           *)
(* src/packet/MessageDispatch.ts): which failure ends the parse, which one *)
(* is reported and passed over, and where each is caught.                  *)
(*                                                                         *)
(* Offsets count units: the prefix of a frame, with the fixed fields of    *)
(* its command, is one unit.  `file' is discovered as it is read and then  *)
(* remembered, because a negative length moves the cursor back over frames *)
(* already read.  What a message of a packet turns out to be is chosen     *)
(* when it is dispatched.  Consumers' listeners may throw at any emit.     *)
(***************************************************************************)
EXTENDS Integers

CONSTANTS
    HeaderLength,   \* 1072 bytes in the code
    MaxSize,        \* bound: length of the buffer
    Lengths,        \* length prefixes a payload may have; the code reads an int32
    MaxMessages,    \* bound: messages in one packet
    Unread,         \* an offset no frame was read at
    None            \* nothing yet

\* consolecmd, usercmd and customdata frames are only re-emitted: "relayed".
WithPayload == {"packet", "datatables", "stringtables", "relayed"}

Shapes ==
    [command : WithPayload, length : Lengths]
        \cup [command : {"synctick", "stop", "unknown"}, length : {0}]

FatalKinds == {"truncated", "invalid-frame", "other"}
Kinds == FatalKinds \cup {"corrupt-protobuf", "corrupt-stringtable"}

ASSUME ParseLoopAssumption ==
    /\ HeaderLength \in Nat \ {0}
    /\ MaxSize \in Nat
    /\ Lengths \subseteq Int
    /\ MaxMessages \in Nat
    /\ None \notin Int
    /\ None \notin [kind : Kinds, offset : Nat]

\* What may go wrong: the header; a frame cut short or of no known command; a packet out
\* of step; a message, string table, entity update, chat text or datatables payload that
\* is damaged; and a listener that throws outside the catches of these.
Damage ==
    {"header", "frame", "packet", "protobuf", "stringtable", "entities", "chat", "datatables",
     "listener"}

VARIABLES
    size,           \* length of the buffer
    file,           \* offset -> shape of the frame there, or Unread
    pos,            \* ByteReader.cursor
    frameStart,     \* _lastFrameOffset
    at,             \* "header", "frames" (before next()), "body", "over"
    frame,          \* command of the frame in hand
    left,           \* messages of its packet still to be dispatched
    sendTables,     \* offset of the frame _sendTables came from, or None
    serverClasses,  \* the same for _serverClasses
    stringTables,   \* whether the StringTableManager exists
    descriptors,    \* whether the event descriptors have arrived
    lastError,      \* the last parserError: its kind and byteOffset, or None
    fatals,         \* how many parserErrors of a fatal kind were emitted
    outcome,        \* "running"; "clean" end of the demo, "aborted" by a failure, or
                    \* "escaped" as an exception
    met             \* (history) the damage met so far

reading == <<size, file, pos, frameStart, frame>>
errors  == <<lastError, fatals>>
tables  == <<sendTables, serverClasses, stringTables, descriptors>>
vars == <<reading, at, left, tables, errors, outcome, met>>

Init ==
    /\ size \in 0 .. MaxSize
    /\ file = [o \in 0 .. MaxSize - 1 |-> Unread]
    /\ pos = 0
    /\ frameStart = 0
    /\ at = "header"
    /\ frame = "none"
    /\ left = 0
    /\ sendTables = None
    /\ serverClasses = None
    /\ stringTables = FALSE
    /\ descriptors = FALSE
    /\ lastError = None
    /\ fatals = 0
    /\ outcome = "running"
    /\ met = {}

-----------------------------------------------------------------------------
(* Ends, errors and the catches around them *)

Meets(damage) == met' = met \cup damage

Over(how, damage) ==
    /\ at' = "over"
    /\ outcome' = how
    /\ Meets(damage)

\* emitParserError; a negative offset is clamped to 0.
Report(kind, offset) ==
    /\ lastError' = [kind |-> kind, offset |-> IF offset >= 0 THEN offset ELSE 0]
    /\ fatals' = IF kind \in FatalKinds THEN fatals + 1 ELSE fatals

\* The two catches that end the parse: parserError, then return, unless a listener of
\* parserError throws, which nothing catches.
Abort(kind, damage, offset) ==
    /\ Report(kind, offset)
    /\ Over("aborted", damage) \/ Over("escaped", damage \cup {"listener"})

\* The body goes on: with the next message of the packet, or with the next frame.
GoesOn ==
    /\ at' = IF frame = "packet" THEN "body" ELSE "frames"
    /\ UNCHANGED outcome

ThrowsGoesOn(damage) ==         \* variant: the catch reports and does not return
    \E kind \in {"truncated", "other"} : Report(kind, frameStart) /\ GoesOn /\ Meets(damage)

\* The catch around a frame's body takes any RangeError for a truncation.
Throws(damage) == \E kind \in {"truncated", "other"} : Abort(kind, damage, frameStart)

Continues == GoesOn /\ UNCHANGED <<errors, met>>

\* An inner catch: parserError and on, unless its listener throws, which lands in the
\* body's catch.
Recovers(kind, damage, offset) ==
    \/ Report(kind, offset) /\ GoesOn /\ Meets(damage)
    \/ Throws(damage \cup {"listener"})

\* An emit outside every inner catch.
Emits == Continues \/ Throws({"listener"})

-----------------------------------------------------------------------------
(* Header and frames *)

\* parseHeader runs before the loop and outside its catches; an empty buffer is refused
\* before it.
ReadHeader ==
    /\ at = "header"
    /\ \/ Over("escaped", {"header"}) /\ UNCHANGED pos
       \/ /\ size >= HeaderLength
          /\ pos' = HeaderLength
          /\ at' = "frames"
          /\ UNCHANGED <<outcome, met>>
    /\ UNCHANGED <<size, file, frameStart, frame, left, tables, errors>>

EndOfBuffer ==
    /\ at = "frames"
    /\ pos >= size
    /\ frameStart' = pos
    /\ Over("clean", {})
    /\ UNCHANGED <<size, file, pos, frame, left, tables, errors>>

\* Before the buffer, where only a negative length leads: the read throws a RangeError,
\* or finds no command byte.
ReadBeforeStart ==
    /\ at = "frames"
    /\ pos < 0
    /\ frameStart' = pos
    /\ \E kind \in {"truncated", "invalid-frame"} : Abort(kind, {"frame"}, pos)
    /\ UNCHANGED <<size, file, pos, frame, left, tables>>

PayloadEndFromPrefix(f) == pos + f.length   \* variant: counts from the prefix's start

\* readBytes compares only the end of the read with the buffer's.
PayloadEnd(f) == pos + 1 + f.length

\* next() of iterateFrames.  A frame in the buffer's last unit may be cut in its prefix.
ReadFrame(f) ==
    /\ at = "frames"
    /\ pos \in 0 .. size - 1
    /\ file[pos] \in {Unread, f}
    /\ file' = [file EXCEPT ![pos] = f]
    /\ frameStart' = pos
    /\ \/ /\ PayloadEnd(f) > size \/ pos = size - 1
          /\ Abort("truncated", {"frame"}, pos)
          /\ UNCHANGED <<pos, frame, left>>
       \/ /\ f.command = "unknown"
          /\ Abort("invalid-frame", {"frame"}, pos)
          /\ UNCHANGED <<pos, frame, left>>
       \/ /\ f.command = "stop"
          /\ Over("clean", {})
          /\ UNCHANGED <<pos, frame, left, errors>>
       \/ /\ f.command \in WithPayload \cup {"synctick"}
          /\ PayloadEnd(f) <= size
          /\ pos' = PayloadEnd(f)
          /\ frame' = f.command
          /\ left' \in IF f.command = "packet" /\ f.length # 0 THEN 0 .. MaxMessages ELSE {0}
          /\ at' = "body"
          /\ UNCHANGED <<errors, outcome, met>>
    /\ UNCHANGED <<size, tables>>

-----------------------------------------------------------------------------
(* The messages of a packet, in wire order *)

TurnUnguarded ==                \* variant: reads on past the packet's last message
    /\ at = "body"
    /\ frame = "packet"
    /\ left' = left - 1
    /\ UNCHANGED reading

Turn ==
    /\ at = "body"
    /\ frame = "packet"
    /\ left > 0
    /\ left' = left - 1
    /\ UNCHANGED reading

PacketDone ==
    /\ at = "body"
    /\ frame = "packet"
    /\ left = 0
    /\ at' = "frames"
    /\ UNCHANGED <<reading, left, tables, errors, outcome, met>>

\* A varint or size that runs off the packet, or a varint that is too long.
BadPacket ==
    /\ Turn
    /\ Throws({"packet"})
    /\ UNCHANGED tables

\* net_Tick, serverInfo and ids the dispatcher does not know.
Relayed ==
    /\ Turn
    /\ Emits
    /\ UNCHANGED tables

UndecodableEndsPacket ==        \* variant: the rest of the packet is dropped
    /\ at = "body" /\ frame = "packet" /\ left > 0
    /\ left' = 0
    /\ Recovers("corrupt-protobuf", {"protobuf"}, frameStart)
    /\ UNCHANGED <<reading, tables>>

Undecodable ==
    /\ Turn
    /\ Recovers("corrupt-protobuf", {"protobuf"}, frameStart)
    /\ UNCHANGED tables

CreateTableUncaught ==          \* variant: no catch around the handler
    /\ Turn
    /\ stringTables' = TRUE
    /\ Continues \/ Throws({"stringtable"})
    /\ UNCHANGED <<sendTables, serverClasses, descriptors>>

\* The error's byteOffset is the reader's position, which is past the frame.
CreateTable ==
    /\ Turn
    /\ stringTables' = TRUE
    /\ Continues \/ Recovers("corrupt-stringtable", {"stringtable"}, pos)
    /\ UNCHANGED <<sendTables, serverClasses, descriptors>>

UpdateTable ==
    /\ Turn
    /\ Continues \/ (stringTables /\ Recovers("corrupt-stringtable", {"stringtable"}, pos))
    /\ UNCHANGED tables

\* A failed decode, like a throwing entity listener, is told by entityDecodeError; only
\* a listener of that event can throw out of the handler.
PacketEntities ==
    /\ Turn
    /\ \/ Continues
       \/ /\ serverClasses # None /\ stringTables
          /\ \/ GoesOn /\ UNCHANGED errors /\ Meets({"entities"})
             \/ Throws({"entities", "listener"})
    /\ UNCHANGED tables

EventList ==
    /\ Turn
    /\ descriptors' = TRUE
    /\ Emits
    /\ UNCHANGED <<sendTables, serverClasses, stringTables>>

\* Dropped until the descriptors are there.  An enricher's context builds the userinfo
\* index, and with it the string-table manager.
GameEvent ==
    /\ Turn
    /\ \/ ~ descriptors /\ Continues /\ UNCHANGED stringTables
       \/ descriptors /\ Emits /\ stringTables' \in {stringTables, TRUE}
    /\ UNCHANGED <<sendTables, serverClasses, descriptors>>

VoiceData ==
    /\ Turn
    /\ stringTables' \in {stringTables, TRUE}
    /\ Emits
    /\ UNCHANGED <<sendTables, serverClasses, descriptors>>

\* The chat context builds the userinfo index as well; the inner protobuf may not decode.
UserMessage ==
    /\ Turn
    /\ stringTables' = TRUE
    /\ Emits \/ Throws({"chat"})
    /\ UNCHANGED <<sendTables, serverClasses, descriptors>>

-----------------------------------------------------------------------------
(* The other frames *)

Body(command) ==
    /\ at = "body"
    /\ frame = command
    /\ UNCHANGED <<reading, left>>

DataTablesCaught ==             \* variant: a failing datatables frame is passed over
    /\ Body("datatables")
    /\ \/ sendTables # None /\ Continues /\ UNCHANGED <<sendTables, serverClasses>>
       \/ sendTables = None /\ Recovers("corrupt-protobuf", {"datatables"}, frameStart)
            /\ sendTables' \in {None, frameStart} /\ UNCHANGED serverClasses
       \/ sendTables = None /\ Continues
            /\ sendTables' = frameStart /\ serverClasses' = frameStart
    /\ UNCHANGED <<stringTables, descriptors>>

DataTablesReplace ==            \* variant: a later frame replaces the schema
    /\ Body("datatables")
    /\ \/ /\ sendTables' \in {sendTables, frameStart}
          /\ UNCHANGED serverClasses
          /\ Throws({"datatables"})
       \/ /\ sendTables' = frameStart
          /\ serverClasses' = frameStart
          /\ Continues
    /\ UNCHANGED <<stringTables, descriptors>>

\* Only the first frame counts.  Parsing may throw, and so may registering the classes,
\* once _sendTables is set.
DataTables ==
    /\ Body("datatables")
    /\ \/ /\ sendTables # None
          /\ Continues
          /\ UNCHANGED <<sendTables, serverClasses>>
       \/ /\ sendTables = None
          /\ sendTables' \in {None, frameStart}
          /\ UNCHANGED serverClasses
          /\ Throws({"datatables"})
       \/ /\ sendTables = None
          /\ sendTables' = frameStart
          /\ serverClasses' = frameStart
          /\ Continues
    /\ UNCHANGED <<stringTables, descriptors>>

\* The blob may be corrupt, before the manager is created; a listener may throw after.
Snapshot ==
    /\ Body("stringtables")
    /\ \/ stringTables' = TRUE /\ Continues
       \/ stringTables' \in {stringTables, TRUE} /\ Recovers("corrupt-stringtable", {"stringtable"}, frameStart)
    /\ UNCHANGED <<sendTables, serverClasses, descriptors>>

RelayedFrame ==
    /\ Body("relayed")
    /\ Emits
    /\ UNCHANGED tables

SyncTick ==
    /\ Body("synctick")
    /\ Continues
    /\ UNCHANGED tables

Next ==
    \/ ReadHeader
    \/ EndOfBuffer
    \/ ReadBeforeStart
    \/ \E f \in Shapes : ReadFrame(f)
    \/ PacketDone
    \/ BadPacket
    \/ Relayed
    \/ Undecodable
    \/ CreateTable
    \/ UpdateTable
    \/ PacketEntities
    \/ EventList
    \/ GameEvent
    \/ VoiceData
    \/ UserMessage
    \/ DataTables
    \/ Snapshot
    \/ RelayedFrame
    \/ SyncTick

\* parseAll is one synchronous call: it takes a step as long as there is one.
Spec == Init /\ [][Next]_vars /\ WF_vars(Next)

-----------------------------------------------------------------------------
(* Properties *)

TypeOK ==
    /\ size \in 0 .. MaxSize
    /\ file \in [0 .. MaxSize - 1 -> Shapes \cup {Unread}]
    /\ pos \in Int /\ pos <= size
    /\ frameStart \in Int /\ frameStart <= size
    /\ at \in {"header", "frames", "body", "over"}
    /\ frame \in WithPayload \cup {"synctick", "none"}
    /\ left \in 0 .. MaxMessages
    /\ sendTables \in Int \cup {None}
    /\ serverClasses \in Int \cup {None}
    /\ stringTables \in BOOLEAN
    /\ descriptors \in BOOLEAN
    /\ lastError = None \/ (lastError.kind \in Kinds /\ lastError.offset \in 0 .. MaxSize)
    /\ fatals \in Nat
    /\ outcome \in {"running", "clean", "aborted", "escaped"}
    /\ met \subseteq Damage

\* ParserEventMap's recovery semantics, for every nesting of catches and throwing
\* listeners: a fatal kind is emitted at most once, as the last error, and only when the
\* parse does not reach the end of the demo; a parse that was aborted has emitted one.
FatalEndsParse ==
    /\ fatals <= 1
    /\ outcome \in {"running", "clean"} => fatals = 0
    /\ outcome = "aborted" => fatals = 1
    /\ fatals = 1 => at = "over" /\ lastError.kind \in FatalKinds

\* What parseAll survives: a message, a string table or snapshot, or an update of entities.
LocalDamage == {"protobuf", "stringtable", "entities"}

\* Local damage, however much of it and in whatever messages and frames, does not keep the
\* parse from the end of the demo, and all other damage does.  None of it is passed over
\* in silence: a parserError told of it, or entityDecodeError, or it was the header's.
DamageIsLocal ==
    /\ outcome \in {"running", "clean"} <=> met \subseteq LocalDamage
    /\ lastError = None <=> met \subseteq {"entities", "header"}

\* The comment on handleUserMessage: a chat message that does not decode is local damage as
\* well, the dispatcher going on with the next message of the packet.
ChatDamageIsLocal ==
    outcome \in {"running", "clean"} <=> met \subseteq LocalDamage \cup {"chat"}

\* No frame is read with half a schema: send tables without server classes, which a
\* failure while registering leaves behind, are never seen by a later message.
SchemaAllOrNothing ==
    at = "frames" => (sendTables = None <=> serverClasses = None)

\* The schema entities were created under is never exchanged, not even by a second
\* datatables frame or by one read again.
SchemaIsStable ==
    [][sendTables # None => UNCHANGED sendTables /\ (serverClasses' = serverClasses)]_vars

\* Every message of a packet gets its turn before the next frame is read, or the parse
\* is over: a bad one does not take the others with it.
PacketsFinish ==
    [][at = "body" /\ at' # "over" => left' = left - 1 \/ (left = 0 /\ at' = "frames")]_vars

\* No length read so far was negative.
Forward == \A o \in DOMAIN file : file[o] # Unread => file[o].length >= 0

\* As long as lengths are not negative, parseAll ends, whatever fails on the way.
ParseEnds == []Forward => <>(at = "over")

=============================================================================
