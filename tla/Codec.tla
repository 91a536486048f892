-------------------------------- MODULE Codec --------------------------------
(***************************************************************************)
(* The loop that every generated codec has: `decode' reads tags and fields *)
(* until its end, a nested message calls the decode of its type on the     *)
(* same reader, and what the message does not know is skipped.             *)
(*                                                                         *)
(* A buffer is a sequence of numbers: a byte, or a varint of any length.   *)
(* A message is a function from its fields to values: a number, the        *)
(* sequence of bytes of a string, a nested message, or a sequence.         *)
(***************************************************************************)
EXTENDS NetMessages, Integers, FiniteSets, SequencesExt

CONSTANTS
    Types,          \* the names of the messages sent
    NoMessage       \* undefined: a nested message that was never read

ASSUME TypesAssumption == Types \subseteq DOMAIN messages

VARIABLES
    sent,           \* what the server sent: [type, message]
    buffer,         \* its bytes, as they arrived
    whole,          \* they are all there
    readerPos,      \* the reader
    calls,          \* the calls of decode, innermost last
    status          \* "reading", "done" or "thrown"

codecVars == <<sent, buffer, whole, readerPos, calls, status>>

-----------------------------------------------------------------------------
(* Fields *)

WireType(kind) ==
    CASE kind \in {"int32", "uint32", "sint32", "uint64", "bool"} -> 0
      [] kind = "fixed64" -> 1
      [] kind \in {"string", "bytes", "message"} -> 2
      [] kind \in {"float", "fixed32"} -> 5

Tag(number, wireType) == 8 * number + wireType

\* The bytes of a value that has a length of its own.
Size(wireType) == CASE wireType = 0 -> 1 [] wireType = 1 -> 8 [] wireType = 5 -> 4

\* What createBase has for a field.
Default(field) ==
    IF field.occurs # "once" \/ field.kind \in {"string", "bytes"} THEN <<>>
    ELSE IF field.kind = "message" THEN NoMessage
    ELSE 0

createBase(type) == [f \in DOMAIN messages[type] |-> Default(messages[type][f])]

-----------------------------------------------------------------------------
(* encode *)

\* The fields of a message by number.
FieldsOf(type) ==
    LET fields == messages[type]
        Until(f) == {g \in DOMAIN fields : fields[g].number <= fields[f].number}
    IN  [i \in 1..Cardinality(DOMAIN fields) |->
            CHOOSE f \in DOMAIN fields : Cardinality(Until(f)) = i]

Fixed(v, n) == <<v>> \o [i \in 1..(n - 1) |-> 0]

RECURSIVE Encode(_, _, _)
EncodeValue(field, v, how) ==
    CASE WireType(field.kind) # 2 -> Fixed(v, Size(WireType(field.kind)))
      [] field.kind = "message" -> LET inner == Encode(field.of, v, how) IN <<Len(inner)>> \o inner
      [] OTHER -> <<Len(v)>> \o v

EncodeOne(field, v, how) ==
    <<Tag(field.number, WireType(field.kind))>> \o EncodeValue(field, v, how)

\* A field is written when it is not its default, or, by a server, when it was set.
EncodeField(field, v, how) ==
    IF field.occurs = "many"
      THEN LET all == FlattenSeq([i \in DOMAIN v |-> EncodeValue(field, v[i], how)])
           IN  <<Tag(field.number, 2), Len(all)>> \o all
    ELSE IF field.occurs = "each" THEN FlattenSeq([i \in DOMAIN v |-> EncodeOne(field, v[i], how)])
    ELSE IF v = Default(field) /\ (field.kind = "message" \/ ~ how.zeros) THEN <<>>
    ELSE EncodeOne(field, v, how)

\* `how': the fields in the order of their numbers or against it, with zeros or without,
\* lists packed or not, and with bytes before and after that the reader is to skip.
Encode(type, message, how) ==
    LET fields == FieldsOf(type)
        Shape(f) == IF how.unpacked /\ messages[type][f].occurs = "many"
                    THEN [messages[type][f] EXCEPT !.occurs = "each"] ELSE messages[type][f]
        parts == [i \in DOMAIN fields |-> EncodeField(Shape(fields[i]), message[fields[i]], how)]
    IN  how.before \o FlattenSeq(IF how.reversed THEN Reverse(parts) ELSE parts) \o how.after

-----------------------------------------------------------------------------
(* decode.  A call is [type, message, end, into, ..]: `into' is the field of the caller
   that gets the result; `list' is the field whose packed elements are being read, up to
   `listEnd', or ""; `groups' counts the groups being skipped. *)

Call(type, end, into) ==
    [type |-> type, message |-> createBase(type), end |-> end, into |-> into,
     list |-> "", listEnd |-> 0, groups |-> 0]

Top == Last(calls)

Update(call) == [calls EXCEPT ![Len(calls)] = call]

\* The nth byte from the reader on, n = 1, 2, ..
Byte(n) == buffer[readerPos + n]

Left(n) == readerPos + n <= Len(buffer)

\* Read n bytes; the reader throws when there are fewer.
Reads(n, call) ==
    IF Left(n) THEN readerPos' = readerPos + n /\ calls' = Update(call) /\ UNCHANGED status
    ELSE status' = "thrown" /\ UNCHANGED <<readerPos, calls>>

Assigned(call, f, v) ==
    [call EXCEPT !.message[f] = IF messages[call.type][f].occurs = "once" THEN v ELSE Append(@, v)]

Field(f) == messages[Top.type][f]

\* The loop's condition.
AtTag == Top.list = "" /\ Top.groups = 0 /\ readerPos < Top.end

TagIs(f, wireType) == AtTag /\ Left(1) /\ Byte(1) = Tag(Field(f).number, wireType)

Value(kind, n) == IF kind = "bool" /\ Byte(n) # 0 THEN 1 ELSE Byte(n)

ReadNumber(f) ==
    /\ WireType(Field(f).kind) # 2
    /\ TagIs(f, WireType(Field(f).kind))
    /\ Reads(1 + Size(WireType(Field(f).kind)), Assigned(Top, f, Value(Field(f).kind, 2)))

ReadDelimited(f) ==
    /\ Field(f).kind \in {"string", "bytes"}
    /\ TagIs(f, 2)
    /\ IF Left(2) THEN Reads(2 + Byte(2), Assigned(Top, f, SubSeq(buffer, readerPos + 3, readerPos + 2 + Byte(2))))
       ELSE Reads(2, Top)

EnterFromTag(f) ==              \* variant: the end is counted from the tag
    /\ Field(f).kind = "message"
    /\ TagIs(f, 2)
    /\ Left(2)
    /\ readerPos' = readerPos + 2
    /\ calls' = Append(calls, Call(Field(f).of, readerPos + Byte(2), f))
    /\ UNCHANGED status

\* decode(reader, reader.uint32()): the new end is not compared with the caller's.
EnterMessage(f) ==
    /\ Field(f).kind = "message"
    /\ TagIs(f, 2)
    /\ IF Left(2)
         THEN /\ readerPos' = readerPos + 2
              /\ calls' = Append(calls, Call(Field(f).of, readerPos + 2 + Byte(2), f))
              /\ UNCHANGED status
         ELSE Reads(2, Top)

EnterList(f) ==
    /\ Field(f).occurs = "many"
    /\ TagIs(f, 2)
    /\ IF Left(2) THEN Reads(2, [Top EXCEPT !.list = f, !.listEnd = readerPos + 2 + Byte(2)])
       ELSE Reads(2, Top)

ReadElement ==
    /\ Top.list # ""
    /\ IF readerPos < Top.listEnd
         THEN LET n == Size(WireType(Field(Top.list).kind))
              IN  Reads(n, Assigned(Top, Top.list, Value(Field(Top.list).kind, 1)))
         ELSE Reads(0, [Top EXCEPT !.list = ""])

Known ==
    \E f \in DOMAIN messages[Top.type] :
        \/ Byte(1) = Tag(Field(f).number, WireType(Field(f).kind))
        \/ Field(f).occurs = "many" /\ Byte(1) = Tag(Field(f).number, 2)

\* reader.skipType; a group is skipped field by field.
SkipType ==
    LET wireType == Byte(1) % 8
    IN  CASE wireType \in {0, 1, 5} -> Reads(1 + Size(wireType), Top)
          [] wireType = 2 /\ Left(2) -> Reads(2 + Byte(2), Top)
          [] wireType = 3 -> Reads(1, [Top EXCEPT !.groups = @ + 1])
          [] wireType = 4 -> Reads(1, [Top EXCEPT !.groups = @ - 1])
          [] OTHER -> status' = "thrown" /\ UNCHANGED <<readerPos, calls>>

EndsMessage == Byte(1) % 8 = 4 \/ Byte(1) = 0

SkipField == AtTag /\ Left(1) /\ ~ Known /\ ~ EndsMessage /\ SkipType

SkipInGroup == Top.groups > 0 /\ IF Left(1) THEN SkipType ELSE Reads(1, Top)

TagThrows == AtTag /\ ~ Left(1) /\ Reads(1, Top)

\* decode returns to the caller at p, and the caller assigns the result.
Return(p) ==
    /\ readerPos' = p
    /\ IF Len(calls) = 1 THEN status' = "done" /\ UNCHANGED calls
       ELSE LET caller == Front(calls)
            IN  /\ calls' = [caller EXCEPT ![Len(caller)] = Assigned(Last(caller), Top.into, Top.message)]
                /\ UNCHANGED status

EndOfMessage == Top.list = "" /\ Top.groups = 0 /\ readerPos >= Top.end /\ Return(readerPos)

\* The end of a group, or a zero, ends the message early.
Break == AtTag /\ Left(1) /\ ~ Known /\ EndsMessage /\ Return(readerPos + 1)

NextCodec ==
    /\ status = "reading"
    /\ UNCHANGED <<sent, buffer, whole>>
    /\ \/ \E f \in DOMAIN messages[Top.type] :
            ReadNumber(f) \/ ReadDelimited(f) \/ EnterMessage(f) \/ EnterList(f)
       \/ ReadElement \/ SkipField \/ SkipInGroup \/ TagThrows \/ EndOfMessage \/ Break

-----------------------------------------------------------------------------
(* The server *)

\* Messages with every field set to its number, with the nested ones only, and with none.
RECURSIVE Sample(_, _)
SampleOf(field, how) ==
    LET one == IF field.kind = "message" THEN Sample(field.of, how)
               ELSE IF how = "nested" THEN Default([field EXCEPT !.occurs = "once"])
               ELSE IF field.kind = "bool" THEN 1
               ELSE IF field.kind \in {"string", "bytes"} THEN <<field.number, 0>>
               ELSE field.number
    IN  IF field.occurs = "once" THEN one ELSE <<one, one>>

Sample(type, how) ==
    [f \in DOMAIN messages[type] |->
        IF how = "empty" THEN Default(messages[type][f]) ELSE SampleOf(messages[type][f], how)]

\* Fields that no message has, one for each wire type, the last one nested, and a field 1
\* of a wire type that none has.
Unknown ==
    {<<>>, <<Tag(99, 0), 8>>, <<Tag(99, 1)>> \o Fixed(9, 8), <<Tag(1, 1)>> \o Fixed(9, 8), <<Tag(99, 2), 2, 8, 9>>,
     <<Tag(99, 5)>> \o Fixed(8, 4),
     <<Tag(99, 3), Tag(1, 0), 8, Tag(98, 3), Tag(1, 2), 1, 9, Tag(98, 4), Tag(99, 4)>>}

Hows ==
    [reversed : BOOLEAN, zeros : {TRUE}, unpacked : BOOLEAN, before : Unknown, after : {<<>>}]
    \cup [reversed : {FALSE}, zeros : BOOLEAN, unpacked : {FALSE}, before : {<<>>}, after : Unknown]

\* A whole buffer, one with a zero after its end, or one that is cut.
InitCodec ==
    /\ \E type \in Types, how \in {"full", "nested", "empty"} :
        LET message == Sample(type, how)
        IN  /\ sent = [type |-> type, message |-> message]
            /\ \/ \E h \in Hows, end \in {<<>>, <<0>>} :
                    buffer = Encode(type, message, h) \o end /\ whole = TRUE
               \/ LET all == Encode(type, message, CHOOSE h \in Hows : h.before = <<>> /\ h.after = <<>>)
                  IN  \E n \in 0..(Len(all) - 1) : buffer = SubSeq(all, 1, n) /\ whole = FALSE
    /\ readerPos = 0
    /\ calls = <<Call(sent.type, Len(buffer), "")>>
    /\ status = "reading"

CodecSpec == InitCodec /\ [][NextCodec]_codecVars

-----------------------------------------------------------------------------
(* Properties *)

Result == Top.message

\* A whole buffer decodes to the message the server sent, whatever the order of its fields,
\* with zeros written or left out, lists packed or not, and fields in it or in its nested
\* messages that the client does not know.  Of a buffer that is cut, decode throws or
\* returns fields as sent, missing, or the first elements of a list: it invents nothing.
DecodesAsSent ==
    /\ whole => status # "thrown"
    /\ whole /\ status = "done" => Result = sent.message
    /\ status = "done" => \A f \in DOMAIN Result :
          \/ Result[f] \in {sent.message[f], Default(messages[sent.type][f])}
          \/ messages[sent.type][f].occurs # "once" /\ IsPrefix(Result[f], sent.message[f])

=============================================================================
