---------------------------- MODULE PropDecoders ----------------------------
(***************************************************************************)
(* decodeProp and the decoders it dispatches to (src/src/properties/), and *)
(* the encoding of the game server that they undo, as far as the decoders  *)
(* tell it.  A vector is the sequence of its components (a normal has the  *)
(* sign of its z, which the code computes from x and y), a string the      *)
(* sequence of its bytes, a 64-bit integer of more than 32 bits the pair   *)
(* of its low and its signed high half.                                    *)
(***************************************************************************)
EXTENDS BitStream

Has(prop, flag) == flag \in prop.flags

-----------------------------------------------------------------------------
(* Decoding. *)

DecodeInt(r, prop) ==
  CASE Has(prop, "VARINT") /\ Has(prop, "UNSIGNED")   -> ReadVarInt(r, 5)
    [] Has(prop, "VARINT") /\ ~Has(prop, "UNSIGNED")  -> ReadSignedVarInt(r, 5)
    [] ~Has(prop, "VARINT") /\ Has(prop, "UNSIGNED")  -> ReadBits(r, prop.numBits)
    [] ~Has(prop, "VARINT") /\ ~Has(prop, "UNSIGNED") -> ReadSignedBits(r, prop.numBits)

DecodeInt64(r, prop) ==
  LET low  == ReadBits(r, 32)
      high == (IF Has(prop, "UNSIGNED") THEN ReadBits(low, prop.numBits - 32)
                                        ELSE ReadSignedBits(low, prop.numBits - 32))
  IN CASE Has(prop, "VARINT") /\ Has(prop, "UNSIGNED")  -> ReadVarInt(r, 10)
       [] Has(prop, "VARINT") /\ ~Has(prop, "UNSIGNED") -> ReadSignedVarInt(r, 10)
       [] ~Has(prop, "VARINT") /\ prop.numBits > 32 ->
            Returning(high, <<low.value, high.value>>)
       [] ~Has(prop, "VARINT") /\ prop.numBits <= 32 -> DecodeInt(r, prop)

\* low + (step / denom) * range, in units of 1 / denom^2; rounding down or up
\* leaves out the last or the first step of the range.
Quantized(prop, step) ==
  LET denom == 2 ^ prop.numBits - 1
      range == prop.highValue - prop.lowValue
      low   == prop.lowValue * denom * denom
  IN CASE Has(prop, "ROUNDDOWN") -> low + step * range * (denom - 1)
       [] ~Has(prop, "ROUNDDOWN") /\ Has(prop, "ROUNDUP") ->
            low + range * denom + step * range * (denom - 1)
       [] OTHER -> low + step * range * denom

FloatFlags == << "COORD", "COORD_MP", "COORD_MP_LP", "COORD_MP_INT", "NOSCALE", "NORMAL",
                 "CELL_COORD", "CELL_COORD_LP", "CELL_COORD_INT" >>

\* The first flag of the chain that the prop has decides its encoding.
FloatEncoding(prop) ==
  LET chosen == {i \in DOMAIN FloatFlags : Has(prop, FloatFlags[i])}
  IN IF chosen = {} THEN "QUANTIZED"
     ELSE FloatFlags[CHOOSE i \in chosen : \A j \in chosen : i <= j]

DecodeFloat(r, prop) ==
  LET encoding == FloatEncoding(prop)
      step == ReadBits(r, prop.numBits)
  IN CASE encoding = "COORD"          -> ReadBitCoord(r)
       [] encoding = "COORD_MP"       -> ReadBitCoordMP(r, FALSE, 5)
       [] encoding = "COORD_MP_LP"    -> ReadBitCoordMP(r, FALSE, 3)
       [] encoding = "COORD_MP_INT"   -> ReadBitCoordMP(r, TRUE, 5)
       [] encoding = "NOSCALE"        -> ReadBits(r, 32)
       [] encoding = "NORMAL"         -> ReadBitNormal(r)
       [] encoding = "CELL_COORD"     -> ReadBitCellCoord(r, prop.numBits, FALSE, 5)
       [] encoding = "CELL_COORD_LP"  -> ReadBitCellCoord(r, prop.numBits, FALSE, 3)
       [] encoding = "CELL_COORD_INT" -> ReadBitCellCoord(r, prop.numBits, TRUE, 5)
       [] encoding = "QUANTIZED"      -> Returning(step, Quantized(prop, step.value))

\* The second component, read where the first one ended.
Pair(x, y) == Returning(y, <<x.value, y.value>>)
DecodeSecond(x, prop) == Pair(x, DecodeFloat(x, prop))

DecodeVectorXY(r, prop) == DecodeSecond(DecodeFloat(r, prop), prop)

\* The third component, of a normal its sign bit.
Triple(xy, z) == Returning(z, <<xy.value[1], xy.value[2], z.value>>)
DecodeThird(xy, prop) == Triple(xy, IF Has(prop, "NORMAL") THEN ReadBit(xy) ELSE DecodeFloat(xy, prop))

DecodeVector(r, prop) == DecodeThird(DecodeVectorXY(r, prop), prop)

DecodeString(r) ==
  LET length == ReadBits(r, 9) IN ReadBytes(length, length.value)

\* ceil(log2(n + 1))
CountBits(n) == IF n <= 0 THEN 0 ELSE CHOOSE w \in 1..31 : 2 ^ w > n /\ 2 ^ (w - 1) <= n

\* decodeProp for the types that are not arrays.
DecodeScalar(r, leaf) ==
  CASE leaf.prop.type = "INT"      -> DecodeInt(r, leaf.prop)
    [] leaf.prop.type = "FLOAT"    -> DecodeFloat(r, leaf.prop)
    [] leaf.prop.type = "VECTOR"   -> DecodeVector(r, leaf.prop)
    [] leaf.prop.type = "VECTORXY" -> DecodeVectorXY(r, leaf.prop)
    [] leaf.prop.type = "STRING"   -> DecodeString(r)
    [] leaf.prop.type = "INT64"    -> DecodeInt64(r, leaf.prop)
    [] OTHER -> Throwing(r)

\* One more element after those of `sofar`.
Collected(sofar, read) == Returning(read, Append(sofar.value, read.value))
DecodeElement(sofar, element) == Collected(sofar, DecodeScalar(sofar, element))

\* Element by element; an element has no template of its own, so that an array of
\* arrays throws.
DecodeArray(r, leaf) ==
  LET count == ReadBits(r, CountBits(leaf.prop.numElements))
      after[i \in 0..count.value] ==
        IF i = 0 THEN Returning(count, <<>>) ELSE DecodeElement(after[i - 1], leaf.element[1])
  IN IF leaf.element = <<>> \/ count.threw THEN Throwing(r) ELSE after[count.value]

DecodeProp(r, leaf) == IF leaf.prop.type = "ARRAY" THEN DecodeArray(r, leaf) ELSE DecodeScalar(r, leaf)

-----------------------------------------------------------------------------
(* The server's encoding of a value. *)

Bits(v, n) == [k \in 1..n |-> IF k > 31 THEN 0 ELSE (v \div (2 ^ (k - 1))) % 2]
Bit(holds) == <<IF holds THEN 1 ELSE 0>>
Magnitude(v) == IF v < 0 THEN -v ELSE v

\* As many groups of seven bits as the number needs.
VarInt(v) ==
  LET last == CHOOSE g \in 0..4 : v \div 128 ^ g < 128 /\ (g = 0 \/ v \div 128 ^ (g - 1) >= 128)
  IN FlattenSeq([i \in 1..last + 1 |->
       Bits(((v \div 128 ^ (i - 1)) % 128) + (IF i <= last THEN 128 ELSE 0), 8)])

ZigzagOf(v) == IF v < 0 THEN -2 * v - 1 ELSE 2 * v

EncodeInt(prop, v) ==
  IF Has(prop, "VARINT") THEN VarInt(IF Has(prop, "UNSIGNED") THEN v ELSE ZigzagOf(v))
  ELSE Bits(IF v < 0 THEN v + 2 ^ prop.numBits ELSE v, prop.numBits)

EncodeInt64(prop, v) ==
  IF Has(prop, "VARINT") \/ prop.numBits <= 32 THEN EncodeInt(prop, v)
  ELSE Bits(v[1], 32) \o Bits(IF v[2] < 0 THEN v[2] + 2 ^ (prop.numBits - 32) ELSE v[2],
                              prop.numBits - 32)

EncodeCoord(v) ==
  LET int == Magnitude(v) \div 32
      frac == Magnitude(v) % 32
  IN Bit(int > 0) \o Bit(frac > 0)
     \o (IF v = 0 THEN <<>> ELSE Bit(v < 0))
     \o (IF int > 0 THEN Bits(int - 1, 14) ELSE <<>>)
     \o (IF frac > 0 THEN Bits(frac, 5) ELSE <<>>)

EncodeCoordMP(v, integral, fracBits) ==
  LET int == IF integral THEN Magnitude(v) ELSE Magnitude(v) \div 2 ^ fracBits
      inBounds == int <= 2 ^ 11
  IN Bit(inBounds) \o Bit(int > 0)
     \o (IF integral /\ int = 0 THEN <<>> ELSE Bit(v < 0))
     \o (IF int > 0 THEN Bits(int - 1, IF inBounds THEN 11 ELSE 14) ELSE <<>>)
     \o (IF integral THEN <<>> ELSE Bits(Magnitude(v) % 2 ^ fracBits, fracBits))

EncodeCellCoord(v, bits, fracBits) == Bits(v \div 2 ^ fracBits, bits) \o Bits(v % 2 ^ fracBits, fracBits)

EncodeFloat(prop, v) ==
  LET encoding == FloatEncoding(prop)
  IN CASE encoding = "COORD"          -> EncodeCoord(v)
       [] encoding = "COORD_MP"       -> EncodeCoordMP(v, FALSE, 5)
       [] encoding = "COORD_MP_LP"    -> EncodeCoordMP(v, FALSE, 3)
       [] encoding = "COORD_MP_INT"   -> EncodeCoordMP(v, TRUE, 5)
       [] encoding = "NOSCALE"        -> Bits(v, 32)
       [] encoding = "NORMAL"         -> Bit(v < 0) \o Bits(Magnitude(v), 11)
       [] encoding = "CELL_COORD"     -> EncodeCellCoord(v, prop.numBits, 5)
       [] encoding = "CELL_COORD_LP"  -> EncodeCellCoord(v, prop.numBits, 3)
       [] encoding = "CELL_COORD_INT" -> EncodeCellCoord(v, prop.numBits, 0)
       [] encoding = "QUANTIZED"      ->
            Bits(CHOOSE step \in 0..2 ^ prop.numBits - 1 : Quantized(prop, step) = v, prop.numBits)

EncodeVector(prop, v) ==
  EncodeFloat(prop, v[1]) \o EncodeFloat(prop, v[2])
  \o (IF Len(v) = 2 THEN <<>> ELSE IF Has(prop, "NORMAL") THEN <<v[3]>> ELSE EncodeFloat(prop, v[3]))

EncodeString(v) == Bits(Len(v), 9) \o FlattenSeq([i \in DOMAIN v |-> Bits(v[i], 8)])

EncodeScalar(leaf, v) ==
  CASE leaf.prop.type = "INT"   -> EncodeInt(leaf.prop, v)
    [] leaf.prop.type = "INT64" -> EncodeInt64(leaf.prop, v)
    [] leaf.prop.type = "FLOAT" -> EncodeFloat(leaf.prop, v)
    [] leaf.prop.type \in {"VECTOR", "VECTORXY"} -> EncodeVector(leaf.prop, v)
    [] leaf.prop.type = "STRING" -> EncodeString(v)

EncodeArray(leaf, v) ==
  Bits(Len(v), CountBits(leaf.prop.numElements))
  \o FlattenSeq([i \in DOMAIN v |-> EncodeScalar(leaf.element[1], v[i])])

EncodeProp(leaf, v) == IF leaf.prop.type = "ARRAY" THEN EncodeArray(leaf, v) ELSE EncodeScalar(leaf, v)

-----------------------------------------------------------------------------
(* The values that an encoding has room for. *)

MaxNumber == 2147483647

Fits(v, n) == n \in 0..32 /\ v \in 0..MaxNumber /\ (n < 31 => v < 2 ^ n)

FitsSigned(v, n) == n \in 1..31 /\ v \in -(2 ^ (n - 1))..2 ^ (n - 1) - 1

FitsInt(prop, v) ==
  CASE Has(prop, "VARINT") /\ Has(prop, "UNSIGNED")   -> v \in 0..MaxNumber
    [] Has(prop, "VARINT") /\ ~Has(prop, "UNSIGNED")  -> v \in -(2 ^ 30)..2 ^ 30 - 1
    [] ~Has(prop, "VARINT") /\ Has(prop, "UNSIGNED")  -> Fits(v, prop.numBits)
    [] ~Has(prop, "VARINT") /\ ~Has(prop, "UNSIGNED") -> FitsSigned(v, prop.numBits)

FitsInt64(prop, v) ==
  IF Has(prop, "VARINT") \/ prop.numBits <= 32 THEN FitsInt(prop, v)
  ELSE /\ prop.numBits \in 33..63
       /\ v = <<v[1], v[2]>>
       /\ Fits(v[1], 32)
       /\ IF Has(prop, "UNSIGNED") THEN Fits(v[2], prop.numBits - 32) ELSE FitsSigned(v[2], prop.numBits - 32)

\* `unit` is the number of fractions of an integer.
FitsCoord(v, unit) == v \in -(16384 * unit + unit - 1)..16384 * unit + unit - 1

FitsCell(v, n, unit) == v \in 0..MaxNumber /\ Fits(v \div unit, n)

FitsFloat(prop, v) ==
  LET encoding == FloatEncoding(prop)
  IN CASE encoding \in {"COORD", "COORD_MP"} -> FitsCoord(v, 32)
       [] encoding = "COORD_MP_LP"    -> FitsCoord(v, 8)
       [] encoding = "COORD_MP_INT"   -> FitsCoord(v, 1)
       [] encoding = "NOSCALE"        -> Fits(v, 32)
       [] encoding = "NORMAL"         -> v \in -2047..2047
       [] encoding = "CELL_COORD"     -> FitsCell(v, prop.numBits, 32)
       [] encoding = "CELL_COORD_LP"  -> FitsCell(v, prop.numBits, 8)
       [] encoding = "CELL_COORD_INT" -> FitsCell(v, prop.numBits, 1)
       [] encoding = "QUANTIZED"      ->
            prop.numBits \in 1..30 /\ \E step \in 0..2 ^ prop.numBits - 1 : Quantized(prop, step) = v

FitsString(v) == v \in Seq(0..255) /\ Len(v) < 512

FitsScalar(leaf, v) ==
  CASE leaf.prop.type = "INT"   -> FitsInt(leaf.prop, v)
    [] leaf.prop.type = "INT64" -> FitsInt64(leaf.prop, v)
    [] leaf.prop.type = "FLOAT" -> FitsFloat(leaf.prop, v)
    [] leaf.prop.type = "VECTORXY" ->
         v = <<v[1], v[2]>> /\ FitsFloat(leaf.prop, v[1]) /\ FitsFloat(leaf.prop, v[2])
    [] leaf.prop.type = "VECTOR" ->
         /\ v = <<v[1], v[2], v[3]>> /\ FitsFloat(leaf.prop, v[1]) /\ FitsFloat(leaf.prop, v[2])
         /\ IF Has(leaf.prop, "NORMAL") THEN v[3] \in {0, 1} ELSE FitsFloat(leaf.prop, v[3])
    [] leaf.prop.type = "STRING" -> FitsString(v)
    [] OTHER -> FALSE

\* Counts of classes and of elements.
Word16(n) == n \in 1..2 ^ 16 - 1

FitsArray(leaf, v) ==
  /\ leaf.element # <<>>
  /\ v \in Seq(Range(v)) /\ Len(v) <= leaf.prop.numElements /\ Word16(leaf.prop.numElements)
  /\ \A i \in DOMAIN v : FitsScalar(leaf.element[1], v[i])

FitsProp(leaf, v) == IF leaf.prop.type = "ARRAY" THEN FitsArray(leaf, v) ELSE FitsScalar(leaf, v)
=============================================================================
