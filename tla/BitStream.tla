------------------------------ MODULE BitStream ------------------------------
(***************************************************************************)
(* BitReader (src/src/reader/BitReader.ts), little-endian within bytes and *)
(* across them.  A reader is a record: the bits of its bytes, the cursor,  *)
(* the value its last read returned and whether that read threw; a reader  *)
(* that threw reads no more, as the exception unwinds the caller.          *)
(*                                                                         *)
(* A float is the number of units of its resolution (a coordinate in 32nds *)
(* or 8ths, a normal in 2047ths), a raw float the number of its bits.      *)
(* Numbers stay below 2^31, the largest TLC has.                           *)
(***************************************************************************)
EXTENDS Integers, SequencesExt

Reader(bits) == [bits |-> bits, cursor |-> 0, value |-> 0, threw |-> FALSE]

Returning(r, value) == [r EXCEPT !.value = value]
Throwing(r) == [bits |-> r.bits, cursor |-> r.cursor, value |-> 0, threw |-> TRUE]
Moving(r, n, value) == [bits |-> r.bits, cursor |-> r.cursor + n, value |-> value, threw |-> FALSE]

\* The 32-bit word the code loads from `count` bytes; a byte past the view is
\* undefined, which "|" takes for zero.
Word(r, byte, count) ==
  [k \in 0..31 |-> IF k < 8 * count /\ 8 * byte + k < Len(r.bits)
                     THEN r.bits[8 * byte + k + 1] ELSE 0]

\* (word >>> shift) & ((1 << n) - 1)
Extract(word, shift, n) ==
  LET above[k \in shift..shift + n] ==
        IF k >= shift + n \/ k > 31 THEN 0 ELSE word[k] + 2 * above[k + 1]
  IN above[shift]

\* The window of at most four bytes, which holds 25 bits at any alignment.
FastField(r, n) ==
  LET byte == r.cursor \div 8
      last == (r.cursor + n - 1) \div 8
  IN Extract(Word(r, byte, last - byte + 1), r.cursor % 8, n)

\* The two halves of a longer read: 16 bits, then the rest.
SlowField(r, n) ==
  LET high == r.cursor + 16
  IN Extract(Word(r, r.cursor \div 8, 3), r.cursor % 8, 16)
     + 65536 * Extract(Word(r, high \div 8, 3), high % 8, n - 16)

ReadBits(r, n) ==
  IF r.threw THEN Throwing(r)
  ELSE IF n = 0 THEN Returning(r, 0)
  ELSE IF n > 32 \/ r.cursor + n > Len(r.bits) THEN Throwing(r)
  ELSE Moving(r, n, IF n <= 25 THEN FastField(r, n) ELSE SlowField(r, n))

ReadBit(r) == ReadBits(r, 1)

ReadBitIf(r, wanted) == IF wanted THEN ReadBit(r) ELSE Returning(r, 0)
ReadBitsIf(r, wanted, n) == IF wanted THEN ReadBits(r, n) ELSE Returning(r, 0)

TwosComplement(value, n) ==
  IF n < 32 /\ value >= 2 ^ (n - 1) THEN value - 2 ^ n ELSE value

ReadSignedBits(r, n) ==
  LET read == ReadBits(r, n) IN Returning(read, TwosComplement(read.value, n))

\* Groups of seven bits, least significant first, each with a bit that says
\* whether another follows: five at most for 32 bits, ten for 64.
ReadVarInt(r, groups) ==
  LET Group(state, i) ==
        LET byte == ReadBits(state.r, 8)
        IN IF ~state.more THEN state
           ELSE [ r     |-> byte,
                  total |-> state.total + (byte.value % 128) * (2 ^ (7 * i)),
                  more  |-> byte.value >= 128 /\ ~byte.threw ]
      after[i \in 0..groups] ==
        IF i = 0 THEN [r |-> r, total |-> 0, more |-> TRUE] ELSE Group(after[i - 1], i - 1)
  IN Returning(after[groups].r, after[groups].total)

Zigzag(n) == IF n % 2 = 0 THEN n \div 2 ELSE -(n \div 2) - 1

ReadSignedVarInt(r, groups) ==
  LET read == ReadVarInt(r, groups) IN Returning(read, Zigzag(read.value))

Signed(sign, magnitude) == IF sign = 1 THEN -magnitude ELSE magnitude

\* A world coordinate: two presence bits, and nothing more for a zero.
ReadBitCoord(r) ==
  LET hasInt  == ReadBit(r)
      hasFrac == ReadBit(hasInt)
      present == hasInt.value = 1 \/ hasFrac.value = 1
      sign    == ReadBitIf(hasFrac, present)
      int     == ReadBitsIf(sign, hasInt.value = 1, 14)
      frac    == ReadBitsIf(int, hasFrac.value = 1, 5)
  IN Returning(frac, Signed(sign.value,
                 (IF hasInt.value = 1 THEN 32 * (int.value + 1) ELSE 0) + frac.value))

IntBits(inBounds) == IF inBounds = 1 THEN 11 ELSE 14

\* A reader that takes the sign bit of an integral zero, which is not sent.
BitCoordMPSigned(r, integral, fracBits) ==
  LET inBounds == ReadBit(r)
      hasInt   == ReadBit(inBounds)
      sign     == ReadBit(hasInt)
      int      == ReadBitsIf(sign, hasInt.value = 1, IntBits(inBounds.value))
      frac     == ReadBitsIf(int, ~integral, fracBits)
      whole    == IF hasInt.value = 1 THEN int.value + 1 ELSE 0
  IN Returning(frac, Signed(sign.value,
                 IF integral THEN whole ELSE whole * (2 ^ fracBits) + frac.value))

\* A multiplayer coordinate; an integral one is a bare zero without its int bit.
ReadBitCoordMP(r, integral, fracBits) ==
  LET inBounds == ReadBit(r)
      hasInt   == ReadBit(inBounds)
      sign     == ReadBitIf(hasInt, ~integral \/ hasInt.value = 1)
      int      == ReadBitsIf(sign, hasInt.value = 1, IntBits(inBounds.value))
      frac     == ReadBitsIf(int, ~integral, fracBits)
      whole    == IF hasInt.value = 1 THEN int.value + 1 ELSE 0
  IN Returning(frac, Signed(sign.value,
                 IF integral THEN whole ELSE whole * (2 ^ fracBits) + frac.value))

ReadBitNormal(r) ==
  LET sign == ReadBit(r)
      frac == ReadBits(sign, 11)
  IN Returning(frac, Signed(sign.value, frac.value))

ReadBitCellCoord(r, bits, integral, fracBits) ==
  LET int  == ReadBits(r, bits)
      frac == ReadBitsIf(int, ~integral, fracBits)
  IN Returning(frac, IF integral THEN int.value
                     ELSE int.value * (2 ^ fracBits) + frac.value)

\* n bytes; off a byte boundary each of them spans two bytes of the view.
ReadBytes(r, n) ==
  IF r.threw THEN Throwing(r)
  ELSE IF r.cursor + 8 * n > Len(r.bits) THEN Throwing(r)
  ELSE Moving(r, 8 * n, [i \in 1..n |-> Extract(Word(r, r.cursor \div 8 + i - 1, 2), r.cursor % 8, 8)])
=============================================================================
