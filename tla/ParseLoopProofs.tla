--------------------------- MODULE ParseLoopProofs ---------------------------
(***************************************************************************)
(* Theorems about the parse loop, for every buffer size, every set of      *)
(* lengths and any number of messages in a packet.                         *)
(***************************************************************************)
EXTENDS ParseLoop, TLAPS

\* The control part of the state: where the loop is and how it ended.
Stages == {"header", "frames", "body", "over"}
Ends == {"running", "clean", "aborted", "escaped"}

\* What ends a parse once the header is read.
Fatal == {"frame", "packet", "chat", "datatables", "listener"}

-----------------------------------------------------------------------------
(* What a step does to the control part *)

\* On, with nothing met, with entities that were told of by their own event, or with an
\* error that costs a message.
GoesOnWith ==
    /\ at' \in Stages \ {"over"}
    /\ UNCHANGED outcome
    /\ \/ UNCHANGED <<errors, met>>
       \/ UNCHANGED errors /\ Meets({"entities"})
       \/ \E kind \in Kinds \ FatalKinds, offset \in Int, d \in {"protobuf", "stringtable"} :
             offset <= size /\ Report(kind, offset) /\ Meets({d})

\* Over with an error, for damage that ends the parse.
EndsWithFatal ==
    /\ at' = "over"
    /\ outcome' \in {"aborted", "escaped"}
    /\ \E kind \in FatalKinds, offset \in Int : offset <= size /\ Report(kind, offset)
    /\ \E damage \in SUBSET Damage : damage \cap Fatal # {} /\ Meets(damage)

\* Over with no error reported: at the end of the demo, or for its header.
EndsWithout ==
    /\ at' = "over"
    /\ \/ outcome' = "clean" /\ Meets({})
       \/ outcome' = "escaped" /\ Meets({"header"})
    /\ UNCHANGED errors

Controlled == GoesOnWith \/ EndsWithFatal \/ EndsWithout

\* One fatal error, and over.
LEMMA AbortEnds ==
    ASSUME NEW kind \in FatalKinds, NEW damage \in SUBSET Damage, damage \cap Fatal # {},
           NEW offset \in Int, offset <= size, Abort(kind, damage, offset)
    PROVE  EndsWithFatal
  <1>1. Report(kind, offset)
    BY DEF Abort
  <1>2. CASE Over("aborted", damage)
    BY <1>1, <1>2 DEF EndsWithFatal, Over
  <1>3. CASE Over("escaped", damage \cup {"listener"})
    <2>1. damage \cup {"listener"} \in SUBSET Damage /\ (damage \cup {"listener"}) \cap Fatal # {}
      BY DEF Damage, Fatal
    <2> QED
      BY <1>1, <1>3, <2>1 DEF EndsWithFatal, Over
  <1> QED
    BY <1>2, <1>3 DEF Abort

\* A failing body ends the parse with a fatal error at the frame it is in.
LEMMA ThrowsEnds ==
    ASSUME TypeOK, NEW damage \in SUBSET Damage, damage \cap Fatal # {}, Throws(damage)
    PROVE  EndsWithFatal
  <1>1. frameStart \in Int /\ frameStart <= size
    BY DEF TypeOK
  <1>2. PICK kind \in {"truncated", "other"} : Abort(kind, damage, frameStart)
    BY DEF Throws
  <1>3. kind \in FatalKinds
    BY DEF FatalKinds
  <1> QED
    BY <1>1, <1>2, <1>3, AbortEnds

\* A listener that throws is such damage, whatever else was met in the same step.
LEMMA ListenersAreFatal ==
    ASSUME NEW damage \in SUBSET Damage
    PROVE  damage \cup {"listener"} \in SUBSET Damage /\ (damage \cup {"listener"}) \cap Fatal # {}
  BY DEF Damage, Fatal

\* An inner catch goes on, unless the listener of its error throws.
LEMMA RecoversGoesOnOrEnds ==
    ASSUME TypeOK, NEW kind \in Kinds \ FatalKinds, NEW d \in {"protobuf", "stringtable"},
           NEW offset \in Int, offset <= size, Recovers(kind, {d}, offset)
    PROVE  Controlled
  <1>1. CASE Report(kind, offset) /\ GoesOn /\ Meets({d})
    BY <1>1 DEF GoesOn, Controlled, GoesOnWith, Stages
  <1>2. CASE Throws({d} \cup {"listener"})
    <2>1. {d} \in SUBSET Damage
      BY DEF Damage
    <2> QED
      BY <1>2, <2>1, ListenersAreFatal, ThrowsEnds DEF Controlled
  <1> QED
    BY <1>1, <1>2 DEF Recovers

\* No error, no end.
LEMMA ContinuesGoesOn ==
    ASSUME Continues
    PROVE  Controlled
  BY DEF Continues, GoesOn, Controlled, GoesOnWith, Stages

\* An emit goes on or ends with the error its listener threw.
LEMMA EmitsControlled ==
    ASSUME TypeOK, Emits
    PROVE  Controlled
  <1>1. {"listener"} \in SUBSET Damage /\ {"listener"} \cap Fatal # {}
    BY DEF Damage, Fatal
  <1> QED
    BY <1>1, ContinuesGoesOn, ThrowsEnds DEF Emits, Controlled

\* Reading a frame goes on, or ends with an error or cleanly.
LEMMA ReadFrameControlled ==
    ASSUME TypeOK, NEW f \in Shapes, ReadFrame(f)
    PROVE  Controlled
  <1>1. pos \in Int /\ pos <= size
    BY DEF TypeOK
  <1>2. CASE Abort("truncated", {"frame"}, pos) \/ Abort("invalid-frame", {"frame"}, pos)
    <2>1. /\ "truncated" \in FatalKinds /\ "invalid-frame" \in FatalKinds
          /\ {"frame"} \in SUBSET Damage /\ {"frame"} \cap Fatal # {}
      BY DEF FatalKinds, Damage, Fatal
    <2> QED
      BY <1>1, <1>2, <2>1, AbortEnds DEF Controlled
  <1>3. CASE Over("clean", {}) /\ UNCHANGED errors
    BY <1>3 DEF Over, EndsWithout, Controlled
  <1>4. CASE at' = "body" /\ UNCHANGED <<errors, outcome, met>>
    BY <1>4 DEF Controlled, GoesOnWith, Stages
  <1> QED
    BY <1>2, <1>3, <1>4 DEF ReadFrame

\* Every step is taken before the end and does one of the three.
LEMMA StepControlled ==
    ASSUME TypeOK, Next
    PROVE  at # "over" /\ Controlled
  <1>1. at # "over"
    BY DEF Next, ReadHeader, EndOfBuffer, ReadBeforeStart, ReadFrame, PacketDone, BadPacket,
           Relayed, Undecodable, CreateTable, UpdateTable, PacketEntities, EventList,
           GameEvent, VoiceData, UserMessage, DataTables, Snapshot, RelayedFrame, SyncTick,
           Turn, Body
  <1>2. ASSUME ReadHeader PROVE Controlled
    <2>1. CASE Over("escaped", {"header"})
      BY <1>2, <2>1 DEF ReadHeader, Over, EndsWithout, Controlled
    <2>2. CASE at' = "frames" /\ UNCHANGED <<errors, outcome, met>>
      BY <2>2 DEF Controlled, GoesOnWith, Stages
    <2> QED
      BY <1>2, <2>1, <2>2 DEF ReadHeader
  <1>3. ASSUME EndOfBuffer PROVE Controlled
    BY <1>3 DEF EndOfBuffer, Over, EndsWithout, Controlled
  <1>4. ASSUME ReadBeforeStart PROVE Controlled
    <2>1. /\ pos \in Int /\ pos <= size
          /\ "truncated" \in FatalKinds /\ "invalid-frame" \in FatalKinds
          /\ {"frame"} \in SUBSET Damage /\ {"frame"} \cap Fatal # {}
      BY DEF TypeOK, FatalKinds, Damage, Fatal
    <2> QED
      BY <1>4, <2>1, AbortEnds DEF ReadBeforeStart, Controlled
  <1>5. ASSUME PacketDone PROVE Controlled
    BY <1>5 DEF PacketDone, Controlled, GoesOnWith, Stages
  <1>6. ASSUME BadPacket \/ Relayed \/ PacketEntities \/ EventList \/ GameEvent
               \/ VoiceData \/ UserMessage \/ DataTables \/ RelayedFrame \/ SyncTick
        PROVE  Controlled
    <2>1. ASSUME NEW damage \in {{"packet"}, {"listener"}, {"chat"}, {"datatables"},
                                 {"entities", "listener"}},
                 Throws(damage)
          PROVE  Controlled
      <3>1. damage \in SUBSET Damage /\ damage \cap Fatal # {}
        BY DEF Damage, Fatal
      <3> QED
        BY <2>1, <3>1, ThrowsEnds DEF Controlled
    <2>2. CASE Throws({"packet"}) \/ Throws({"chat"}) \/ Throws({"datatables"})
               \/ Throws({"entities", "listener"})
      BY <2>1, <2>2
    <2>3. CASE GoesOn /\ UNCHANGED errors /\ Meets({"entities"})
      BY <2>3 DEF GoesOn, Controlled, GoesOnWith, Stages
    <2> QED
      BY <1>6, <2>2, <2>3, ContinuesGoesOn, EmitsControlled
      DEF BadPacket, Relayed, PacketEntities, EventList, GameEvent, VoiceData,
          UserMessage, DataTables, RelayedFrame, SyncTick
  <1>7. ASSUME Undecodable \/ CreateTable \/ UpdateTable \/ Snapshot
        PROVE  Controlled
    <2>1. /\ pos \in Int /\ pos <= size
          /\ frameStart \in Int /\ frameStart <= size
      BY DEF TypeOK
    <2>2. "corrupt-protobuf" \in Kinds \ FatalKinds /\ "corrupt-stringtable" \in Kinds \ FatalKinds
      BY DEF Kinds, FatalKinds
    <2>3. CASE Continues
      BY <2>3, ContinuesGoesOn
    <2>4. CASE Recovers("corrupt-protobuf", {"protobuf"}, frameStart)
      BY <2>1, <2>2, <2>4, RecoversGoesOnOrEnds
    <2>5. CASE Recovers("corrupt-stringtable", {"stringtable"}, frameStart)
      BY <2>1, <2>2, <2>5, RecoversGoesOnOrEnds
    <2>6. CASE Recovers("corrupt-stringtable", {"stringtable"}, pos)
      BY <2>1, <2>2, <2>6, RecoversGoesOnOrEnds
    <2> QED
      BY <1>7, <2>3, <2>4, <2>5, <2>6 DEF Undecodable, CreateTable, UpdateTable, Snapshot
  <1> QED
    BY <1>1, <1>2, <1>3, <1>4, <1>5, <1>6, <1>7, ReadFrameControlled DEF Next

-----------------------------------------------------------------------------
(* Types *)

\* An error's offset is clamped into the buffer.
LEMMA ReportType ==
    ASSUME TypeOK, NEW kind \in Kinds, NEW offset \in Int, offset <= size,
           Report(kind, offset)
    PROVE  /\ lastError'.kind \in Kinds
           /\ lastError'.offset \in 0 .. MaxSize
           /\ fatals' \in Nat
  <1>1. (IF offset >= 0 THEN offset ELSE 0) \in 0 .. MaxSize
    BY ParseLoopAssumption DEF TypeOK
  <1>2. lastError'.kind = kind /\ lastError'.offset = IF offset >= 0 THEN offset ELSE 0
    BY DEF Report
  <1> QED
    BY <1>1, <1>2 DEF Report, TypeOK

LEMMA ControlType ==
    ASSUME TypeOK, Controlled
    PROVE  /\ at' \in Stages
           /\ lastError' = None \/ (lastError'.kind \in Kinds /\ lastError'.offset \in 0 .. MaxSize)
           /\ fatals' \in Nat
           /\ outcome' \in Ends
           /\ met' \subseteq Damage
  <1>1. CASE GoesOnWith
    <2>1. met' \subseteq Damage
      BY <1>1 DEF GoesOnWith, Meets, TypeOK, Damage
    <2> QED
      BY <1>1, <2>1, ReportType DEF GoesOnWith, TypeOK, Stages, Ends, errors
  <1>2. CASE EndsWithFatal
    <2>1. met' \subseteq Damage
      BY <1>2 DEF EndsWithFatal, Meets, TypeOK
    <2> QED
      BY <1>2, <2>1, ReportType DEF EndsWithFatal, Kinds, Stages, Ends
  <1>3. CASE EndsWithout
    <2>1. met' \subseteq Damage
      BY <1>3 DEF EndsWithout, Meets, TypeOK, Damage
    <2> QED
      BY <1>3, <2>1 DEF EndsWithout, TypeOK, Stages, Ends, errors
  <1> QED
    BY <1>1, <1>2, <1>3 DEF Controlled

\* The reading part: only the iterator moves the cursor, never past the end.
ReadingType ==
    /\ size \in 0 .. MaxSize
    /\ file \in [0 .. MaxSize - 1 -> Shapes \cup {Unread}]
    /\ pos \in Int /\ pos <= size
    /\ frameStart \in Int /\ frameStart <= size
    /\ frame \in WithPayload \cup {"synctick", "none"}
    /\ left \in 0 .. MaxMessages

LEMMA ReadFrameType ==
    ASSUME ReadingType, NEW f \in Shapes, ReadFrame(f)
    PROVE  ReadingType'
  <1>1. f.length \in Int
    <2>1. CASE f \in [command : WithPayload, length : Lengths]
      BY <2>1, ParseLoopAssumption
    <2>2. CASE f \in [command : {"synctick", "stop", "unknown"}, length : {0}]
      BY <2>2
    <2> QED
      BY <2>1, <2>2 DEF Shapes
  <1>2. /\ size' = size
        /\ file' \in [0 .. MaxSize - 1 -> Shapes \cup {Unread}]
        /\ frameStart' = pos
    BY DEF ReadFrame, ReadingType
  <1>3. CASE UNCHANGED <<pos, frame, left>>
    BY <1>2, <1>3 DEF ReadingType
  <1>4. CASE /\ f.command \in WithPayload \cup {"synctick"}
             /\ PayloadEnd(f) <= size
             /\ pos' = PayloadEnd(f)
             /\ frame' = f.command
             /\ left' \in IF f.command = "packet" /\ f.length # 0 THEN 0 .. MaxMessages
                                                                  ELSE {0}
    BY <1>1, <1>2, <1>4, ParseLoopAssumption DEF ReadingType, PayloadEnd
  <1> QED
    BY <1>3, <1>4 DEF ReadFrame

LEMMA ReadingKept ==
    ASSUME ReadingType, [Next]_vars
    PROVE  ReadingType'
  <1>1. CASE UNCHANGED <<reading, left>>
    BY <1>1 DEF reading, ReadingType
  <1>2. CASE Turn
    BY <1>2, ParseLoopAssumption DEF Turn, reading, ReadingType
  <1>3. CASE ReadHeader
    BY <1>3, ParseLoopAssumption DEF ReadHeader, ReadingType
  <1>4. CASE EndOfBuffer \/ ReadBeforeStart
    BY <1>4 DEF EndOfBuffer, ReadBeforeStart, ReadingType
  <1> QED
    BY <1>1, <1>2, <1>3, <1>4, ReadFrameType
    DEF Next, vars, PacketDone, BadPacket, Relayed, Undecodable, CreateTable, UpdateTable,
        PacketEntities, EventList, GameEvent, VoiceData, UserMessage, DataTables, Snapshot,
        RelayedFrame, SyncTick, Body

TablesType ==
    /\ sendTables \in Int \cup {None}
    /\ serverClasses \in Int \cup {None}
    /\ stringTables \in BOOLEAN
    /\ descriptors \in BOOLEAN

LEMMA TablesKept ==
    ASSUME TypeOK, [Next]_vars
    PROVE  TablesType'
  <1> USE DEF TypeOK, TablesType
  <1>1. CASE UNCHANGED tables
    BY <1>1 DEF tables
  <1>2. CASE CreateTable \/ EventList \/ GameEvent \/ VoiceData \/ UserMessage \/ Snapshot
    BY <1>2 DEF CreateTable, EventList, GameEvent, VoiceData, UserMessage, Snapshot
  <1>3. CASE DataTables
    BY <1>3 DEF DataTables
  <1> QED
    BY <1>1, <1>2, <1>3
    DEF Next, vars, ReadHeader, EndOfBuffer, ReadBeforeStart, ReadFrame, PacketDone,
        BadPacket, Relayed, Undecodable, UpdateTable, PacketEntities, RelayedFrame, SyncTick

-----------------------------------------------------------------------------
(* The inductive invariant *)

\* While the parse is on, no fatal error was reported.
NoFatalYet == at # "over" => fatals = 0 /\ outcome = "running"

\* While the parse is on, the schema is whole or not there.
SchemaWhole == at # "over" => (sendTables = None <=> serverClasses = None)

\* Only a packet has messages left.
OnlyPacketsTakeTurns == at = "body" /\ frame # "packet" => left = 0

IInv ==
    /\ TypeOK
    /\ FatalEndsParse
    /\ NoFatalYet
    /\ SchemaWhole
    /\ OnlyPacketsTakeTurns
    /\ DamageIsLocal

LEMMA InitHolds ==
    ASSUME Init
    PROVE  IInv
  <1>1. outcome = "running" /\ met = {}
    BY DEF Init
  <1>2. size \in 0 .. MaxSize /\ size \in Nat /\ left \in 0 .. MaxMessages
    BY ParseLoopAssumption DEF Init
  <1>3. file \in [0 .. MaxSize - 1 -> Shapes \cup {Unread}]
    BY DEF Init
  <1>4. /\ pos \in Int /\ pos <= size
        /\ frameStart \in Int /\ frameStart <= size
    BY <1>2 DEF Init
  <1>5. /\ at = "header" /\ frame = "none" /\ fatals = 0 /\ lastError = None
        /\ sendTables = None /\ serverClasses = None
        /\ stringTables = FALSE /\ descriptors = FALSE
    BY DEF Init
  <1>6. TypeOK
    BY <1>1, <1>2, <1>3, <1>4, <1>5 DEF TypeOK
  <1> QED
    BY <1>1, <1>5, <1>6
    DEF IInv, FatalEndsParse, NoFatalYet, SchemaWhole, OnlyPacketsTakeTurns, DamageIsLocal

\* TypeOK is the three types above.
LEMMA TypeParts ==
    TypeOK <=> /\ ReadingType
               /\ TablesType
               /\ at \in Stages
               /\ \/ lastError = None
                  \/ lastError.kind \in Kinds /\ lastError.offset \in 0 .. MaxSize
               /\ fatals \in Nat
               /\ outcome \in Ends
               /\ met \subseteq Damage
  BY DEF TypeOK, ReadingType, TablesType, Stages, Ends

LEMMA TypeKept ==
    ASSUME TypeOK, [Next]_vars
    PROVE  TypeOK'
  <1>1. ReadingType' /\ TablesType'
    BY TypeParts, ReadingKept, TablesKept
  <1>2. CASE Next
    BY <1>1, <1>2, StepControlled, ControlType
    DEF TypeOK, ReadingType, TablesType, Stages, Ends
  <1>3. CASE UNCHANGED vars
    BY <1>3 DEF vars, reading, tables, errors, TypeOK
  <1> QED
    BY <1>2, <1>3

\* A step before the end reports at most one fatal error, and only by ending.
LEMMA FatalKept ==
    ASSUME TypeOK, FatalEndsParse, NoFatalYet, Next
    PROVE  FatalEndsParse' /\ NoFatalYet'
  <1>1. at # "over" /\ Controlled
    BY StepControlled
  <1>2. fatals = 0 /\ outcome = "running"
    BY <1>1 DEF NoFatalYet
  <1>3. CASE GoesOnWith
    <2>1. fatals' = 0 /\ outcome' = outcome
      BY <1>2, <1>3 DEF GoesOnWith, Report, errors
    <2> QED
      BY <1>2, <2>1 DEF FatalEndsParse, NoFatalYet
  <1>4. CASE EndsWithFatal
    BY <1>2, <1>4 DEF EndsWithFatal, Report, FatalEndsParse, NoFatalYet
  <1>5. CASE EndsWithout
    BY <1>2, <1>5 DEF EndsWithout, errors, FatalEndsParse, NoFatalYet
  <1> QED
    BY <1>1, <1>3, <1>4, <1>5 DEF Controlled

\* What a step meets is local if it goes on and fatal, or the header, if it ends short; it
\* goes with an error unless it is the entities' or the header's.
LEMMA DamageKept ==
    ASSUME TypeOK, NoFatalYet, DamageIsLocal, Next
    PROVE  DamageIsLocal'
  <1>1. at # "over" /\ Controlled
    BY StepControlled
  <1>2. outcome = "running" /\ met \subseteq LocalDamage
    BY <1>1 DEF NoFatalYet, DamageIsLocal
  <1>3. ASSUME NEW kind \in Kinds, NEW offset \in Int, Report(kind, offset)
        PROVE  lastError' # None
    <2>1. lastError' \in [kind : Kinds, offset : Nat]
      BY <1>3 DEF Report
    <2> QED
      BY <2>1, ParseLoopAssumption
  <1>4. CASE GoesOnWith
    <2>1. outcome' = "running" /\ met' \subseteq LocalDamage
      BY <1>2, <1>4 DEF GoesOnWith, Meets, LocalDamage
    <2>2. lastError' = None <=> met' \subseteq {"entities", "header"}
      <3>1. CASE UNCHANGED <<errors, met>> \/ (UNCHANGED errors /\ Meets({"entities"}))
        BY <3>1 DEF Meets, DamageIsLocal, errors
      <3>2. CASE \E kind \in Kinds \ FatalKinds, offset \in Int, d \in {"protobuf", "stringtable"} :
                   offset <= size /\ Report(kind, offset) /\ Meets({d})
        BY <1>3, <3>2 DEF Meets
      <3> QED
        BY <1>4, <3>1, <3>2 DEF GoesOnWith
    <2> QED
      BY <2>1, <2>2 DEF DamageIsLocal
  <1>5. CASE EndsWithFatal
    <2>1. lastError' # None
      BY <1>3, <1>5 DEF EndsWithFatal, Kinds
    <2>2. ~ (met' \subseteq LocalDamage) /\ ~ (met' \subseteq {"entities", "header"})
      BY <1>5 DEF EndsWithFatal, Meets, LocalDamage, Fatal
    <2> QED
      BY <1>5, <2>1, <2>2 DEF EndsWithFatal, DamageIsLocal
  <1>6. CASE EndsWithout
    <2>1. lastError' = lastError
      BY <1>6 DEF EndsWithout, errors
    <2>2. CASE outcome' = "clean" /\ met' = met \cup {}
      <3>1. met' = met
        BY <2>2
      <3> QED
        BY <1>2, <2>1, <2>2, <3>1 DEF DamageIsLocal
    <2>3. CASE outcome' = "escaped" /\ met' = met \cup {"header"}
      <3>1. ~ (met' \subseteq LocalDamage)
        BY <2>3 DEF LocalDamage
      <3>2. met' \subseteq {"entities", "header"} <=> met \subseteq {"entities", "header"}
        BY <2>3
      <3> QED
        BY <2>1, <2>3, <3>1, <3>2 DEF DamageIsLocal
    <2> QED
      BY <1>6, <2>2, <2>3 DEF EndsWithout, Meets
  <1> QED
    BY <1>1, <1>4, <1>5, <1>6 DEF Controlled

\* Only the datatables frame touches the schema, and it ends the parse when it fails.
LEMMA SchemaKept ==
    ASSUME TypeOK, SchemaWhole, Next
    PROVE  SchemaWhole'
  <1>1. at # "over"
    BY StepControlled
  <1>2. CASE DataTables
    <2>1. frameStart # None
      BY ParseLoopAssumption DEF TypeOK
    <2>2. CASE Throws({"datatables"})
      BY <2>2 DEF Throws, Abort, Over, SchemaWhole
    <2> QED
      BY <1>1, <1>2, <2>1, <2>2 DEF DataTables, SchemaWhole
  <1>3. CASE UNCHANGED <<sendTables, serverClasses>>
    BY <1>1, <1>3 DEF SchemaWhole
  <1> QED
    BY <1>2, <1>3
    DEF Next, ReadHeader, EndOfBuffer, ReadBeforeStart, ReadFrame, PacketDone, BadPacket,
        Relayed, Undecodable, CreateTable, UpdateTable, PacketEntities, EventList,
        GameEvent, VoiceData, UserMessage, Snapshot, RelayedFrame, SyncTick, tables

\* The iterator gives messages to packets only; a turn is taken inside a packet.
LEMMA TurnsKept ==
    ASSUME TypeOK, OnlyPacketsTakeTurns, Next
    PROVE  OnlyPacketsTakeTurns'
  <1>1. CASE Turn
    BY <1>1 DEF Turn, reading, OnlyPacketsTakeTurns
  <1>2. CASE \E command \in WithPayload \cup {"synctick"} : Body(command)
    BY <1>2 DEF Body, reading, OnlyPacketsTakeTurns
  <1>3. ASSUME NEW f \in Shapes, ReadFrame(f)
        PROVE  OnlyPacketsTakeTurns'
    BY <1>3 DEF ReadFrame, Abort, Over, OnlyPacketsTakeTurns
  <1>4. CASE ReadHeader \/ EndOfBuffer \/ ReadBeforeStart \/ PacketDone
    BY <1>4 DEF ReadHeader, EndOfBuffer, ReadBeforeStart, PacketDone, Abort, Over,
                OnlyPacketsTakeTurns
  <1> QED
    BY <1>1, <1>2, <1>3, <1>4
    DEF Next, BadPacket, Relayed, Undecodable, CreateTable, UpdateTable, PacketEntities,
        EventList, GameEvent, VoiceData, UserMessage, DataTables, Snapshot, RelayedFrame,
        SyncTick, WithPayload

LEMMA StepHolds ==
    ASSUME IInv, [Next]_vars
    PROVE  IInv'
  <1>1. CASE Next
    BY <1>1, TypeKept, FatalKept, SchemaKept, TurnsKept, DamageKept DEF IInv
  <1>2. CASE UNCHANGED vars
    BY <1>2, TypeKept
    DEF IInv, vars, reading, tables, errors, FatalEndsParse, NoFatalYet, SchemaWhole,
        OnlyPacketsTakeTurns, DamageIsLocal
  <1> QED
    BY <1>1, <1>2

LEMMA InvariantHolds == Spec => []IInv
  BY InitHolds, StepHolds, PTL DEF Spec

-----------------------------------------------------------------------------
(* Theorems *)

\* Every variable keeps its type; the cursor never passes the end of the buffer and a
\* reported offset is inside it.
THEOREM TypeCorrect == Spec => []TypeOK
  <1>1. IInv => TypeOK
    BY DEF IInv
  <1> QED
    BY <1>1, InvariantHolds, PTL

\* At most one fatal error is reported, as the last one, and only when the parse stops
\* short of the end of the demo.
THEOREM FatalErrorEndsParse == Spec => []FatalEndsParse
  <1>1. IInv => FatalEndsParse
    BY DEF IInv
  <1> QED
    BY <1>1, InvariantHolds, PTL

\* Any number of damaged messages, tables and entity updates leaves the parse to reach the
\* end of the demo, nothing else does, and each kind of damage is told of.
THEOREM DamageStaysLocal == Spec => []DamageIsLocal
  <1>1. IInv => DamageIsLocal
    BY DEF IInv
  <1> QED
    BY <1>1, InvariantHolds, PTL

\* No frame is read under half a schema.
THEOREM SchemaNeverHalf == Spec => []SchemaAllOrNothing
  <1>1. IInv => SchemaAllOrNothing
    BY DEF IInv, SchemaWhole, SchemaAllOrNothing
  <1> QED
    BY <1>1, InvariantHolds, PTL

\* The schema, once known, is never exchanged.
THEOREM SchemaNeverChanges == Spec => SchemaIsStable
  <1>1. IInv /\ [Next]_vars
          => [sendTables # None => UNCHANGED sendTables /\ (serverClasses' = serverClasses)]_vars
    <2> SUFFICES ASSUME IInv, Next, sendTables # None
                 PROVE  UNCHANGED <<sendTables, serverClasses>>
      OBVIOUS
    <2> QED
      BY DEF Next, ReadHeader, EndOfBuffer, ReadBeforeStart, ReadFrame, PacketDone,
             BadPacket, Relayed, Undecodable, CreateTable, UpdateTable, PacketEntities,
             EventList, GameEvent, VoiceData, UserMessage, DataTables, Snapshot,
             RelayedFrame, SyncTick, tables
  <1> QED
    BY <1>1, InvariantHolds, PTL DEF Spec, SchemaIsStable

\* Every message of a packet has its turn before the next frame is read.
THEOREM EveryMessageHasItsTurn == Spec => PacketsFinish
  <1> DEFINE A == at = "body" /\ at' # "over"
                    => left' = left - 1 \/ (left = 0 /\ at' = "frames")
  <1>1. IInv /\ [Next]_vars => [A]_vars
    <2> SUFFICES ASSUME IInv, Next, at = "body", at' # "over"
                 PROVE  left' = left - 1 \/ (left = 0 /\ at' = "frames")
      OBVIOUS
    <2>1. CASE Turn
      BY <2>1 DEF Turn
    <2>2. CASE PacketDone
      BY <2>2 DEF PacketDone
    <2>3. ASSUME NEW command \in WithPayload \cup {"synctick"}, command # "packet",
                 Body(command)
          PROVE  left = 0 /\ (GoesOn => at' = "frames")
      BY <2>3 DEF Body, GoesOn, IInv, OnlyPacketsTakeTurns
    <2>4. ASSUME NEW kind, NEW damage, NEW offset, Recovers(kind, damage, offset)
          PROVE  GoesOn
      BY <2>4 DEF Recovers, Throws, Abort, Over
    <2>5. Emits => GoesOn
      BY DEF Emits, Continues, Throws, Abort, Over
    <2>6. ASSUME NEW damage, Throws(damage)
          PROVE  FALSE
      BY <2>6 DEF Throws, Abort, Over
    <2> QED
      BY <2>1, <2>2, <2>3, <2>4, <2>5, <2>6
      DEF Next, ReadHeader, EndOfBuffer, ReadBeforeStart, ReadFrame, BadPacket, Relayed,
          Undecodable, CreateTable, UpdateTable, PacketEntities, EventList, GameEvent,
          VoiceData, UserMessage, DataTables, Snapshot, RelayedFrame, SyncTick, Continues,
          WithPayload
  <1> QED
    BY <1>1, InvariantHolds, PTL DEF Spec, PacketsFinish

=============================================================================
