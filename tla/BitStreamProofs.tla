---------------------------- MODULE BitStreamProofs ----------------------------
(***************************************************************************)
(* Theorems about the reads of BitStream and of PropDecoders, for every    *)
(* value that its encoding has room for: from a reader before the bits of  *)
(* a value a read takes exactly those bits and that value, and it throws   *)
(* where the bits end (Reads).  The messages that put such values one      *)
(* behind the other are those of PacketEntitiesProofs and                  *)
(* StringTablesProofs.                                                     *)
(***************************************************************************)
EXTENDS PropDecoders, FiniteSetTheorems, WellFoundedInduction, SequenceTheorems, TLAPS

-----------------------------------------------------------------------------
(* Induction, over a finite set and over an interval. *)

LEMMA FiniteInduction ==
  ASSUME NEW S, IsFiniteSet(S), NEW G,
         \A T \in SUBSET S : (\A U \in SUBSET T : U # T => U \in G) => T \in G
  PROVE  S \in G
  <1> DEFINE Bad == {T \in SUBSET S : T \notin G}
  <1>1. IsWellFoundedOn(StrictSubsetOrdering(S), SUBSET S)
    BY FS_StrictSubsetOrderingWellFounded, FS_FiniteSubsetsOfFinite
  <1>2. Bad \subseteq SUBSET S
    OBVIOUS
  <1>3. ASSUME Bad # {} PROVE FALSE
    <2> HIDE DEF Bad
    <2>1. PICK T \in Bad : \A U \in Bad : ~ (<<U, T>> \in StrictSubsetOrdering(S))
      BY <1>1, <1>2, <1>3, WFMin
    <2>2. ASSUME NEW U \in SUBSET T, U # T PROVE U \in G
      BY <2>1, <2>2, Zenon DEF Bad, StrictSubsetOrdering
    <2> QED BY <2>1, <2>2 DEF Bad
  <1> QED BY <1>3

LEMMA IntervalInduction ==
  ASSUME NEW n \in Nat, NEW G, 0 \in G, \A i \in 0..n - 1 : i \in G => i + 1 \in G
  PROVE  \A i \in 0..n : i \in G
  <1> SUFFICES ASSUME NEW i \in 0..n PROVE i \in G
    OBVIOUS
  <1> DEFINE S == 0..i
             H == {T \in SUBSET S : \A m \in 0..n : T = 0..m => m \in G}
  <1>1. IsFiniteSet(S)
    BY FS_Interval
  <1>2. ASSUME NEW T \in SUBSET S, \A U \in SUBSET T : U # T => U \in H
        PROVE  T \in H
    <2>1. SUFFICES ASSUME NEW m \in 0..n, T = 0..m PROVE m \in G
      BY DEF H
    <2>2. CASE m = 0
      BY <2>2
    <2>3. CASE m # 0
      <3>1. 0..m - 1 \in SUBSET T /\ 0..m - 1 # T
        <4>1. m \in T /\ m \notin 0..m - 1
          BY <2>1, <2>3
        <4> QED BY <4>1, <2>1, <2>3
      <3>2. 0..m - 1 \in H
        BY <3>1, <1>2
      <3>3. m - 1 \in G
        BY <3>2, <2>3
      <3> QED BY <3>3, <2>3
    <2> QED BY <2>2, <2>3
  <1>3. S \in H
    <2> HIDE DEF S, H
    <2> QED BY <1>1, <1>2, FiniteInduction
  <1> QED BY <1>3

-----------------------------------------------------------------------------
(* Powers of two, up to the widest number. *)

Pow2(k) == 2 ^ k

\* The digits of a number.
Digit(v, k) == (v \div Pow2(k)) % 2

LEMMA PowerStep ==
  \A k \in 0..31 : Pow2(k) \in Nat /\ Pow2(k) > 0 /\ Pow2(k + 1) = 2 * Pow2(k)
  <1> SUFFICES ASSUME NEW k \in 0..31
               PROVE  Pow2(k) \in Nat /\ Pow2(k) > 0 /\ Pow2(k + 1) = 2 * Pow2(k)
    OBVIOUS
  <1> QED
    <2>0. CASE k = 0
      BY <2>0 DEF Pow2
    <2>1. CASE k = 1
      BY <2>1 DEF Pow2
    <2>2. CASE k = 2
      BY <2>2 DEF Pow2
    <2>3. CASE k = 3
      BY <2>3 DEF Pow2
    <2>4. CASE k = 4
      BY <2>4 DEF Pow2
    <2>5. CASE k = 5
      BY <2>5 DEF Pow2
    <2>6. CASE k = 6
      BY <2>6 DEF Pow2
    <2>7. CASE k = 7
      BY <2>7 DEF Pow2
    <2>8. CASE k = 8
      BY <2>8 DEF Pow2
    <2>9. CASE k = 9
      BY <2>9 DEF Pow2
    <2>10. CASE k = 10
      BY <2>10 DEF Pow2
    <2>11. CASE k = 11
      BY <2>11 DEF Pow2
    <2>12. CASE k = 12
      BY <2>12 DEF Pow2
    <2>13. CASE k = 13
      BY <2>13 DEF Pow2
    <2>14. CASE k = 14
      BY <2>14 DEF Pow2
    <2>15. CASE k = 15
      BY <2>15 DEF Pow2
    <2>16. CASE k = 16
      BY <2>16 DEF Pow2
    <2>17. CASE k = 17
      BY <2>17 DEF Pow2
    <2>18. CASE k = 18
      BY <2>18 DEF Pow2
    <2>19. CASE k = 19
      BY <2>19 DEF Pow2
    <2>20. CASE k = 20
      BY <2>20 DEF Pow2
    <2>21. CASE k = 21
      BY <2>21 DEF Pow2
    <2>22. CASE k = 22
      BY <2>22 DEF Pow2
    <2>23. CASE k = 23
      BY <2>23 DEF Pow2
    <2>24. CASE k = 24
      BY <2>24 DEF Pow2
    <2>25. CASE k = 25
      BY <2>25 DEF Pow2
    <2>26. CASE k = 26
      BY <2>26 DEF Pow2
    <2>27. CASE k = 27
      BY <2>27 DEF Pow2
    <2>28. CASE k = 28
      BY <2>28 DEF Pow2
    <2>29. CASE k = 29
      BY <2>29 DEF Pow2
    <2>30. CASE k = 30
      BY <2>30 DEF Pow2
    <2>31. CASE k = 31
      BY <2>31 DEF Pow2
    <2> QED BY <2>0, <2>1, <2>2, <2>3, <2>4, <2>5, <2>6, <2>7, <2>8, <2>9, <2>10, <2>11, <2>12, <2>13, <2>14, <2>15, <2>16, <2>17, <2>18, <2>19, <2>20, <2>21, <2>22, <2>23, <2>24, <2>25, <2>26, <2>27, <2>28, <2>29, <2>30, <2>31

LEMMA PowerValues ==
  /\ Pow2(0) = 1 /\ Pow2(1) = 2 /\ Pow2(2) = 4 /\ Pow2(3) = 8
  /\ Pow2(4) = 16 /\ Pow2(5) = 32 /\ Pow2(6) = 64 /\ Pow2(7) = 128
  /\ Pow2(8) = 256 /\ Pow2(9) = 512 /\ Pow2(10) = 1024 /\ Pow2(11) = 2048
  /\ Pow2(12) = 4096 /\ Pow2(13) = 8192 /\ Pow2(14) = 16384 /\ Pow2(15) = 32768
  /\ Pow2(16) = 65536 /\ Pow2(17) = 131072 /\ Pow2(18) = 262144 /\ Pow2(19) = 524288
  /\ Pow2(20) = 1048576 /\ Pow2(21) = 2097152 /\ Pow2(22) = 4194304 /\ Pow2(23) = 8388608
  /\ Pow2(24) = 16777216 /\ Pow2(25) = 33554432 /\ Pow2(26) = 67108864 /\ Pow2(27) = 134217728
  /\ Pow2(28) = 268435456 /\ Pow2(29) = 536870912 /\ Pow2(30) = 1073741824 /\ Pow2(31) = 2147483648
  BY DEF Pow2

-----------------------------------------------------------------------------
(* Reading a number. *)

\* Halving a number with a power of two.
LEMMA HalfOfQuotient ==
  ASSUME NEW v \in Nat, NEW p \in Nat, p > 0
  PROVE  /\ v \div p \in Nat
         /\ v \div (2 * p) = (v \div p) \div 2
         /\ v \div p = ((v \div p) % 2) + 2 * ((v \div p) \div 2)
  OBVIOUS

\* The word holds the digits of v from the place `shift' on.
Holds(word, shift, n, v) ==
  /\ shift \in Nat /\ n \in Nat /\ shift + n <= 32
  /\ v \in Nat /\ v < Pow2(n)
  /\ \A k \in 0..n - 1 : word[shift + k] = Digit(v, k)

\* `Extract' gives back the number whose digits the word holds.
LEMMA ExtractDigits ==
  ASSUME NEW word, NEW shift, NEW n, NEW v, Holds(word, shift, n, v)
  PROVE  Extract(word, shift, n) = v
  <1> USE DEF Holds
  <1> DEFINE D == shift..shift + n
             above == CHOOSE f : f = [k \in D |-> IF k >= shift + n \/ k > 31 THEN 0 ELSE word[k] + 2 * f[k + 1]]
             e == [k \in D |-> v \div Pow2(k - shift)]
  <1>1. ASSUME NEW k \in D
        PROVE  e[k] = IF k >= shift + n \/ k > 31 THEN 0 ELSE word[k] + 2 * e[k + 1]
    <2> DEFINE j == k - shift
    <2>1. j \in 0..n /\ n \in 0..32
      OBVIOUS
    <2>2. CASE k >= shift + n
      <3>1. j = n
        BY <2>2
      <3>2. Pow2(n) \in Nat /\ Pow2(n) > 0
        BY PowerStep, PowerValues, <2>1, SMT
      <3>3. v \div Pow2(n) = 0
        BY <3>2
      <3> QED BY <3>1, <3>3, <2>2
    <2>3. CASE ~(k >= shift + n)
      <3>1. j \in 0..n - 1 /\ k <= 31 /\ k + 1 \in D /\ (k + 1) - shift = j + 1 /\ k = shift + j
        BY <2>3
      <3>2. Pow2(j) \in Nat /\ Pow2(j) > 0 /\ Pow2(j + 1) = 2 * Pow2(j)
        <4>1. j \in 0..31
          BY <3>1
        <4> HIDE DEF j
        <4> QED BY <4>1, PowerStep
      <3>3. word[k] = (v \div Pow2(j)) % 2
        BY <3>1 DEF Digit
      <3>4. e[k] = v \div Pow2(j) /\ e[k + 1] = v \div Pow2(j + 1)
        BY <3>1
      <3> HIDE DEF e, j
      <3>5. e[k] = word[k] + 2 * e[k + 1]
        BY <3>2, <3>3, <3>4, HalfOfQuotient
      <3> QED BY <3>5, <3>1, <2>3
    <2> QED BY <2>2, <2>3
  <1>2. e = [k \in D |-> IF k >= shift + n \/ k > 31 THEN 0 ELSE word[k] + 2 * e[k + 1]]
    <2>1. DOMAIN e = D
      OBVIOUS
    <2> HIDE DEF D
    <2> QED BY <1>1, <2>1
  <1>3. above = [k \in D |-> IF k >= shift + n \/ k > 31 THEN 0 ELSE word[k] + 2 * above[k + 1]]
    <2> HIDE DEF e, D
    <2> QED BY <1>2, Zenon
  <1>4. \A i \in 0..n : above[shift + n - i] = e[shift + n - i]
    <2> DEFINE G == {i \in 0..n : above[shift + n - i] = e[shift + n - i]}
    <2>1. 0 \in G
      <3>1. shift + n \in D
        OBVIOUS
      <3> HIDE DEF above, e, D
      <3>2. above[shift + n] = 0 /\ e[shift + n] = 0
        BY <1>2, <1>3, <3>1
      <3> QED BY <3>2
    <2>2. ASSUME NEW i \in 0..n - 1, i \in G PROVE i + 1 \in G
      <3> DEFINE k == shift + n - (i + 1)
      <3>1. k \in D /\ k + 1 = shift + n - i /\ ~(k >= shift + n) /\ k <= 31
        OBVIOUS
      <3>2. above[k + 1] = e[k + 1]
        BY <2>2, <3>1
      <3> HIDE DEF above, e, D, k
      <3>3. above[k] = e[k]
        BY <3>1, <3>2, <1>2, <1>3
      <3> QED BY <3>3 DEF k
    <2> HIDE DEF G
    <2>3. \A i \in 0..n : i \in G
      BY <2>1, <2>2, IntervalInduction
    <2> QED BY <2>3 DEF G
  <1>5. above[shift] = v
    <2>1. above[shift] = e[shift]
      <3> HIDE DEF above, e
      <3> QED BY <1>4
    <2>2. e[shift] = v \div Pow2(0)
      OBVIOUS
    <2> HIDE DEF above, e
    <2> QED BY <2>1, <2>2, PowerValues, SMT
  <1> HIDE DEF e
  <1> QED BY <1>5 DEF Extract

LEMMA PowerPositive == \A k \in 0..32 : Pow2(k) \in Nat /\ Pow2(k) > 0
  <1> SUFFICES ASSUME NEW k \in 0..32 PROVE Pow2(k) \in Nat /\ Pow2(k) > 0
    OBVIOUS
  <1>1. CASE k \in 0..31
    BY <1>1, PowerStep
  <1>2. CASE k = 32
    BY <1>2 DEF Pow2
  <1> QED BY <1>1, <1>2

LEMMA MaxNumberIs == MaxNumber \in Nat /\ MaxNumber > 65536
  BY SMT DEF MaxNumber

LEMMA FitsRange ==
  ASSUME NEW v, NEW n, Fits(v, n)
  PROVE  /\ n \in 0..32 /\ v \in Nat /\ v <= MaxNumber
         /\ n < 31 => v < Pow2(n)
  <1>1. n \in 0..32 /\ v \in 0..MaxNumber /\ (n < 31 => v < Pow2(n))
    BY Zenon DEF Fits, Pow2
  <1>2. MaxNumber \in Nat
    BY SMT DEF MaxNumber
  <1> QED BY <1>1, <1>2

\* The digits of a number below and from the sixteenth on.
LEMMA LowDigits ==
  ASSUME NEW v \in Nat, NEW k \in 0..15
  PROVE  Digit(v % Pow2(16), k) = Digit(v, k)
  <1>1. CASE k = 0
    BY <1>1, PowerValues, SMTT(30) DEF Digit
  <1>2. CASE k = 1
    BY <1>2, PowerValues, SMTT(30) DEF Digit
  <1>3. CASE k = 2
    BY <1>3, PowerValues, SMTT(30) DEF Digit
  <1>4. CASE k = 3
    BY <1>4, PowerValues, SMTT(30) DEF Digit
  <1>5. CASE k = 4
    BY <1>5, PowerValues, SMTT(30) DEF Digit
  <1>6. CASE k = 5
    BY <1>6, PowerValues, SMTT(30) DEF Digit
  <1>7. CASE k = 6
    BY <1>7, PowerValues, SMTT(30) DEF Digit
  <1>8. CASE k = 7
    BY <1>8, PowerValues, SMTT(30) DEF Digit
  <1>9. CASE k = 8
    BY <1>9, PowerValues, SMTT(30) DEF Digit
  <1>10. CASE k = 9
    BY <1>10, PowerValues, SMTT(30) DEF Digit
  <1>11. CASE k = 10
    BY <1>11, PowerValues, SMTT(30) DEF Digit
  <1>12. CASE k = 11
    BY <1>12, PowerValues, SMTT(30) DEF Digit
  <1>13. CASE k = 12
    BY <1>13, PowerValues, SMTT(30) DEF Digit
  <1>14. CASE k = 13
    BY <1>14, PowerValues, SMTT(30) DEF Digit
  <1>15. CASE k = 14
    BY <1>15, PowerValues, SMTT(30) DEF Digit
  <1>16. CASE k = 15
    BY <1>16, PowerValues, SMTT(30) DEF Digit
  <1> QED BY <1>1, <1>2, <1>3, <1>4, <1>5, <1>6, <1>7, <1>8, <1>9, <1>10, <1>11, <1>12, <1>13, <1>14, <1>15, <1>16

LEMMA HighDigits ==
  ASSUME NEW v \in Nat, NEW k \in 0..15
  PROVE  Digit(v \div Pow2(16), k) = Digit(v, 16 + k)
  <1>1. CASE k = 0
    BY <1>1, PowerValues, SMTT(30) DEF Digit
  <1>2. CASE k = 1
    BY <1>2, PowerValues, SMTT(30) DEF Digit
  <1>3. CASE k = 2
    BY <1>3, PowerValues, SMTT(30) DEF Digit
  <1>4. CASE k = 3
    BY <1>4, PowerValues, SMTT(30) DEF Digit
  <1>5. CASE k = 4
    BY <1>5, PowerValues, SMTT(30) DEF Digit
  <1>6. CASE k = 5
    BY <1>6, PowerValues, SMTT(30) DEF Digit
  <1>7. CASE k = 6
    BY <1>7, PowerValues, SMTT(30) DEF Digit
  <1>8. CASE k = 7
    BY <1>8, PowerValues, SMTT(30) DEF Digit
  <1>9. CASE k = 8
    BY <1>9, PowerValues, SMTT(30) DEF Digit
  <1>10. CASE k = 9
    BY <1>10, PowerValues, SMTT(30) DEF Digit
  <1>11. CASE k = 10
    BY <1>11, PowerValues, SMTT(30) DEF Digit
  <1>12. CASE k = 11
    BY <1>12, PowerValues, SMTT(30) DEF Digit
  <1>13. CASE k = 12
    BY <1>13, PowerValues, SMTT(30) DEF Digit
  <1>14. CASE k = 13
    BY <1>14, PowerValues, SMTT(30) DEF Digit
  <1>15. CASE k = 14
    BY <1>15, PowerValues, SMTT(30) DEF Digit
  <1>16. CASE k = 15
    BY <1>16, PowerValues, SMTT(30) DEF Digit
  <1> QED BY <1>1, <1>2, <1>3, <1>4, <1>5, <1>6, <1>7, <1>8, <1>9, <1>10, <1>11, <1>12, <1>13, <1>14, <1>15, <1>16

\* The half of a number that is longer than the window.
LEMMA HighFits ==
  ASSUME NEW n \in 26..32, NEW v, Fits(v, n)
  PROVE  v \div Pow2(16) < Pow2(n - 16)
  <1>0. v \in Nat /\ v < 2147483648 /\ (n < 31 => v < Pow2(n))
    BY FitsRange, SMT DEF MaxNumber
  <1>1. CASE n = 26
    BY <1>1, <1>0, PowerValues, SMT
  <1>2. CASE n = 27
    BY <1>2, <1>0, PowerValues, SMT
  <1>3. CASE n = 28
    BY <1>3, <1>0, PowerValues, SMT
  <1>4. CASE n = 29
    BY <1>4, <1>0, PowerValues, SMT
  <1>5. CASE n = 30
    BY <1>5, <1>0, PowerValues, SMT
  <1>6. CASE n = 31
    BY <1>6, <1>0, PowerValues, SMT
  <1>7. CASE n = 32
    BY <1>7, <1>0, PowerValues, SMT
  <1> QED BY <1>1, <1>2, <1>3, <1>4, <1>5, <1>6, <1>7

LEMMA BitsAreDigits ==
  ASSUME NEW n \in 0..32, NEW v \in Nat
  PROVE  /\ Bits(v, n) \in Seq({0, 1})
         /\ Len(Bits(v, n)) = n
         /\ v <= MaxNumber => \A k \in 0..n - 1 : Bits(v, n)[k + 1] = Digit(v, k)
  <1> DEFINE b == [k \in 1..n |-> IF k > 31 THEN 0 ELSE (v \div Pow2(k - 1)) % 2]
  <1>1. Bits(v, n) = b
    BY Zenon DEF Bits, Pow2
  <1>2. ASSUME NEW k \in 1..n PROVE b[k] \in {0, 1}
    <2>1. CASE k > 31
      BY <2>1
    <2>2. CASE k <= 31
      <3>1. k - 1 \in 0..32
        BY <2>2
      <3>2. Pow2(k - 1) \in Nat /\ Pow2(k - 1) > 0
        BY <3>1, PowerPositive
      <3>3. v \div Pow2(k - 1) \in Nat
        BY <3>2
      <3> QED BY <3>3, <2>2
    <2> QED BY <2>1, <2>2
  <1>3. b \in Seq({0, 1}) /\ Len(b) = n
    <2>1. b \in [1..n -> {0, 1}]
      BY <1>2
    <2> HIDE DEF b
    <2> QED BY <2>1
  <1>4. ASSUME v <= MaxNumber, NEW k \in 0..n - 1 PROVE b[k + 1] = Digit(v, k)
    <2>1. CASE k = 31
      <3>1. b[k + 1] = 0
        BY <2>1
      <3>2. v \div Pow2(31) = 0
        BY <1>4, PowerValues, SMT DEF MaxNumber
      <3> QED BY <3>1, <3>2, <2>1 DEF Digit
    <2>2. CASE k # 31
      <3>1. k + 1 \in 1..n /\ ~(k + 1 > 31) /\ (k + 1) - 1 = k
        BY <2>2
      <3> QED BY <3>1 DEF Digit
    <2> QED BY <2>1, <2>2
  <1> HIDE DEF b
  <1> QED BY <1>1, <1>3, <1>4

-----------------------------------------------------------------------------
(* A reader, the bits before it, and what a read takes. *)

IsReader(r) ==
  /\ r = [bits |-> r.bits, cursor |-> r.cursor, value |-> r.value, threw |-> r.threw]
  /\ r.bits \in Seq({0, 1})
  /\ r.cursor \in 0..Len(r.bits)
  /\ r.threw \in BOOLEAN

BitStrings == Seq({0, 1})

\* The bits before a reader that goes on are e, as far as they go.
Carries(r, e) ==
  ~r.threw => \A k \in 1..Len(e) : r.cursor + k <= Len(r.bits) => r.bits[r.cursor + k] = e[k]

\* `out' is what a read leaves that takes n bits for the value v, or throws when fewer
\* are left.
Takes(r, out, n, v) ==
  /\ IsReader(out)
  /\ out.bits = r.bits
  /\ out.threw <=> (r.threw \/ r.cursor + n > Len(r.bits))
  /\ out.threw \/ (out.cursor = r.cursor + n /\ out.value = v)

\* A read of the encoding e of a value.
Reads(r, out, e, v) == Takes(r, out, Len(e), v)

LEMMA ReaderRange ==
  ASSUME NEW r, IsReader(r)
  PROVE  /\ r.cursor \in Nat /\ Len(r.bits) \in Nat /\ r.cursor <= Len(r.bits)
         /\ r.bits \in Seq({0, 1}) /\ r.threw \in BOOLEAN
  <1>1. r.bits \in Seq({0, 1}) /\ r.cursor \in 0..Len(r.bits) /\ r.threw \in BOOLEAN
    BY Zenon DEF IsReader
  <1>2. Len(r.bits) \in Nat
    BY <1>1, LenProperties
  <1> QED BY <1>1, <1>2

LEMMA ThrowingThrows ==
  ASSUME NEW r, IsReader(r), NEW n \in Nat, NEW v, r.threw \/ r.cursor + n > Len(r.bits)
  PROVE  Takes(r, Throwing(r), n, v)
  <1> DEFINE out == [bits |-> r.bits, cursor |-> r.cursor, value |-> 0, threw |-> TRUE]
  <1>1. Throwing(r) = out
    BY DEF Throwing
  <1>2. IsReader(out)
    BY DEF IsReader
  <1>3. Takes(r, out, n, v)
    BY <1>2 DEF Takes
  <1> QED BY <1>1, <1>3

LEMMA MovingTakes ==
  ASSUME NEW r, IsReader(r), ~r.threw, NEW n \in Nat, r.cursor + n <= Len(r.bits), NEW v
  PROVE  Takes(r, Moving(r, n, v), n, v)
  <1> DEFINE out == [bits |-> r.bits, cursor |-> r.cursor + n, value |-> v, threw |-> FALSE]
  <1>1. Moving(r, n, v) = out
    BY DEF Moving
  <1>2. IsReader(out)
    BY DEF IsReader
  <1>3. Takes(r, out, n, v)
    BY <1>2, ReaderRange DEF Takes
  <1> QED BY <1>1, <1>3

LEMMA ReturningTakes ==
  ASSUME NEW r, NEW out, NEW n, NEW v, NEW w, NEW x, Takes(r, out, n, v), ~out.threw => w = x
  PROVE  Takes(r, Returning(out, w), n, x)
  <1> DEFINE back == [bits |-> out.bits, cursor |-> out.cursor, value |-> w, threw |-> out.threw]
  <1>1. Returning(out, w) = back
    BY DEF Takes, Returning, IsReader
  <1>2. IsReader(back)
    BY DEF IsReader, Takes
  <1>3. Takes(r, back, n, x)
    BY <1>2 DEF Takes
  <1> QED BY <1>1, <1>3

LEMMA NothingTaken ==
  ASSUME NEW r, IsReader(r)
  PROVE  Takes(r, r, 0, r.value)
  BY DEF Takes, IsReader

LEMMA Joined ==
  ASSUME NEW d \in BitStrings, NEW e \in BitStrings
  PROVE  /\ d \o e \in BitStrings /\ Len(d) \in Nat /\ Len(e) \in Nat /\ Len(d \o e) = Len(d) + Len(e)
         /\ \A k \in 1..Len(d) : k \in 1..Len(d \o e) /\ (d \o e)[k] = d[k]
         /\ \A k \in 1..Len(e) : Len(d) + k \in 1..Len(d \o e) /\ (d \o e)[Len(d) + k] = e[k]
  BY DEF BitStrings

\* The first part of what a reader carries, and what is left when that is read.
LEMMA CarriesFirst ==
  ASSUME NEW r, NEW d \in BitStrings, NEW e \in BitStrings, Carries(r, d \o e)
  PROVE  Carries(r, d)
  BY Joined DEF Carries

LEMMA CarriesOn ==
  ASSUME NEW r, IsReader(r), NEW d \in BitStrings, NEW e \in BitStrings, Carries(r, d \o e),
         NEW out, NEW v, Reads(r, out, d, v)
  PROVE  Carries(out, e) /\ IsReader(out)
  <1> USE DEF Reads
  <1>1. ASSUME ~out.threw, NEW k \in 1..Len(e), out.cursor + k <= Len(out.bits)
        PROVE  out.bits[out.cursor + k] = e[k]
    <2>1. out.cursor = r.cursor + Len(d) /\ out.bits = r.bits /\ ~r.threw
      BY <1>1 DEF Takes
    <2>2. (d \o e)[Len(d) + k] = e[k] /\ Len(d) + k \in 1..Len(d \o e) /\ Len(d) \in Nat
      BY Joined
    <2>3. r.cursor \in Nat /\ Len(r.bits) \in Nat
      BY ReaderRange
    <2>4. r.cursor + (Len(d) + k) = out.cursor + k
      BY <2>1, <2>2, <2>3
    <2> QED BY <2>1, <2>2, <2>4, <1>1 DEF Carries
  <1>2. IsReader(out)
    BY DEF Takes
  <1> QED BY <1>1, <1>2 DEF Carries

\* One read after another.
LEMMA ReadsOn ==
  ASSUME NEW r, IsReader(r), NEW mid, NEW out, NEW d \in BitStrings, NEW e \in BitStrings, NEW u, NEW v,
         Reads(r, mid, d, u), Reads(mid, out, e, v)
  PROVE  Reads(r, out, d \o e, v)
  <1>1. Len(d) \in Nat /\ Len(e) \in Nat /\ Len(d \o e) = Len(d) + Len(e)
    BY Joined
  <1>2. r.cursor \in Nat /\ Len(r.bits) \in Nat
    BY ReaderRange
  <1> QED BY <1>1, <1>2 DEF Reads, Takes

LEMMA Onward ==
  ASSUME NEW r, IsReader(r), NEW mid, NEW out, NEW d \in BitStrings, NEW e \in BitStrings,
         NEW f \in BitStrings, NEW u, NEW v,
         Reads(r, mid, d, u), Reads(mid, out, e, v), Carries(r, (d \o e) \o f)
  PROVE  Reads(r, out, d \o e, v) /\ Carries(out, f) /\ IsReader(out)
  <1>1. d \o e \in BitStrings
    BY Joined
  <1>2. Reads(r, out, d \o e, v)
    BY ReadsOn
  <1> QED BY <1>1, <1>2, CarriesOn

-----------------------------------------------------------------------------
(* readBits: the window of four bytes, and the two halves of a longer number. *)

\* The four bytes from the cursor's hold 25 bits at any alignment.
LEMMA Window ==
  ASSUME NEW c \in Nat, NEW n \in 1..25
  PROVE  /\ c % 8 \in 0..7 /\ c \div 8 \in Nat /\ c = 8 * (c \div 8) + (c % 8)
         /\ (c + n - 1) \div 8 \in Nat
         /\ 8 * ((c + n - 1) \div 8 - c \div 8 + 1) >= (c % 8) + n
         /\ (c % 8) + n <= 32
  OBVIOUS

\* The digits of v lie before the cursor c, in a word of `count' bytes.
Lies(r, c, n, v, count) ==
  /\ c \in Nat /\ n \in Nat /\ v \in Nat /\ count \in Nat
  /\ v < Pow2(n)
  /\ (c % 8) + n <= 8 * count /\ (c % 8) + n <= 32 /\ c + n <= Len(r.bits)
  /\ \A k \in 0..n - 1 : r.bits[c + k + 1] = Digit(v, k)

\* A field of a word that is loaded from the bytes it lies in.
LEMMA FieldOfWord ==
  ASSUME NEW r, IsReader(r), NEW c, NEW n, NEW v, NEW count, Lies(r, c, n, v, count)
  PROVE  Extract(Word(r, c \div 8, count), c % 8, n) = v
  <1> USE DEF Lies
  <1> DEFINE word == [k \in 0..31 |-> IF k < 8 * count /\ 8 * (c \div 8) + k < Len(r.bits)
                                       THEN r.bits[8 * (c \div 8) + k + 1] ELSE 0]
  <1>1. Word(r, c \div 8, count) = word
    BY DEF Word
  <1>2. c % 8 \in 0..7 /\ c \div 8 \in Nat /\ c = 8 * (c \div 8) + (c % 8)
    OBVIOUS
  <1>3. ASSUME NEW k \in 0..n - 1 PROVE word[(c % 8) + k] = Digit(v, k)
    <2> DEFINE at == (c % 8) + k
    <2>1. at \in 0..31 /\ at < 8 * count /\ 8 * (c \div 8) + at = c + k
      BY <1>2
    <2>2. Len(r.bits) \in Nat /\ c + k < Len(r.bits)
      BY DEF IsReader
    <2> HIDE DEF at
    <2>3. word[at] = r.bits[c + k + 1]
      BY <2>1, <2>2
    <2> QED BY <2>3 DEF at
  <1> DEFINE shift == c % 8
  <1>4. shift \in Nat /\ shift + n <= 32
    BY <1>2
  <1>5. \A k \in 0..n - 1 : word[shift + k] = Digit(v, k)
    BY <1>3
  <1> HIDE DEF word, shift
  <1>6. Extract(word, shift, n) = v
    <2>1. Holds(word, shift, n, v)
      BY <1>4, <1>5 DEF Holds
    <2> QED BY <2>1, ExtractDigits, Zenon
  <1> QED BY <1>1, <1>6 DEF shift

LEMMA ReadBitsReads ==
  ASSUME NEW r, IsReader(r), NEW n, NEW v, Fits(v, n), Carries(r, Bits(v, n))
  PROVE  Takes(r, ReadBits(r, n), n, v)
  <1>0. n \in 0..32 /\ v \in Nat /\ v <= MaxNumber /\ (n < 31 => v < Pow2(n))
    BY FitsRange
  <1>1. CASE r.threw
    BY <1>0, <1>1, ThrowingThrows DEF ReadBits
  <1>2. CASE ~r.threw /\ n = 0
    <2>1. v = 0
      BY <1>0, <1>2, PowerValues, SMT
    <2>2. ReadBits(r, n) = Returning(r, 0)
      BY <1>2 DEF ReadBits
    <2> QED BY <2>1, <2>2, <1>2, NothingTaken, ReturningTakes
  <1>3. CASE ~r.threw /\ n # 0 /\ r.cursor + n > Len(r.bits)
    BY <1>0, <1>3, ThrowingThrows DEF ReadBits
  <1> SUFFICES ASSUME ~r.threw, n # 0, r.cursor + n <= Len(r.bits)
               PROVE  Takes(r, ReadBits(r, n), n, v)
    <2>1. r.cursor + n \in Nat /\ Len(r.bits) \in Nat
      BY <1>0, ReaderRange
    <2> QED BY <1>1, <1>2, <1>3, <2>1
  <1>33. ASSUME (IF n <= 25 THEN FastField(r, n) ELSE SlowField(r, n)) = v
         PROVE  Takes(r, ReadBits(r, n), n, v)
    <2>1. ReadBits(r, n) = Moving(r, n, IF n <= 25 THEN FastField(r, n) ELSE SlowField(r, n))
      <3>1. ~(n > 32 \/ r.cursor + n > Len(r.bits))
        BY <1>0, ReaderRange
      <3> QED BY <3>1 DEF ReadBits
    <2> QED BY <2>1, <1>33, <1>0, MovingTakes
  <1> DEFINE c == r.cursor
  <1>4. c \in Nat /\ Len(r.bits) \in Nat
    BY DEF IsReader
  <1>5. ASSUME NEW k \in 0..n - 1 PROVE r.bits[c + k + 1] = Digit(v, k)
    <2>1. Len(Bits(v, n)) = n /\ Bits(v, n)[k + 1] = Digit(v, k)
      BY <1>0, BitsAreDigits
    <2>2. k + 1 \in 1..n /\ c + (k + 1) <= Len(r.bits) /\ c + k + 1 = c + (k + 1)
      BY <1>0, <1>4
    <2> QED BY <2>1, <2>2 DEF Carries
  <1>6. CASE n \in 1..25
    <2>1. v < Pow2(n)
      BY <1>0, <1>6
    <2> DEFINE count == (c + n - 1) \div 8 - c \div 8 + 1
    <2>2. count \in Nat /\ (c % 8) + n <= 8 * count /\ (c % 8) + n <= 32
      <3> DEFINE a == c \div 8
                 b == (c + n - 1) \div 8
                 m == c % 8
      <3>1. /\ m \in 0..7 /\ a \in Nat /\ b \in Nat /\ n \in 1..25
            /\ 8 * (b - a + 1) >= m + n /\ m + n <= 32
        BY <1>4, <1>6, Window, ZenonT(60)
      <3> HIDE DEF a, b, m
      <3>2. b - a + 1 \in Nat /\ m + n <= 8 * (b - a + 1) /\ m + n <= 32
        BY <3>1
      <3> QED BY <3>2, Zenon DEF a, b, m
    <2>3. FastField(r, n) = Extract(Word(r, c \div 8, count), c % 8, n)
      BY DEF FastField
    <2> HIDE DEF count, c
    <2>4. Lies(r, c, n, v, count)
      BY <2>1, <2>2, <1>0, <1>4, <1>5 DEF Lies, c
    <2>5. Extract(Word(r, c \div 8, count), c % 8, n) = v
      BY <2>4, FieldOfWord, Zenon
    <2> QED BY <2>5, <2>3, <1>33, <1>6
  <1>7. CASE n \in 26..32
    <2> DEFINE low == v % Pow2(16)
               high == v \div Pow2(16)
               d == c + 16
    <2>1. low \in Nat /\ high \in Nat /\ v = low + 65536 * high /\ low < Pow2(16) /\ d \in Nat
      <3>1. v % 65536 \in Nat /\ v \div 65536 \in Nat /\ v = (v % 65536) + 65536 * (v \div 65536) /\ v % 65536 < 65536
        BY <1>0, SMT
      <3>2. Pow2(16) = 65536
        BY PowerValues, SMT
      <3>3. d \in Nat
        BY <1>4
      <3> HIDE DEF d
      <3> QED BY <3>1, <3>2, <3>3, SMT
    <2>2. high < Pow2(n - 16)
      BY <1>7, HighFits
    <2>3. SlowField(r, n) = Extract(Word(r, c \div 8, 3), c % 8, 16)
                            + 65536 * Extract(Word(r, d \div 8, 3), d % 8, n - 16)
      BY SMT DEF SlowField
    <2>4. (c % 8) + 16 <= 24 /\ (d % 8) + (n - 16) <= 24 /\ c + 16 <= Len(r.bits) /\ d + (n - 16) <= Len(r.bits)
      BY <1>4, <1>7, SMTT(60)
    <2>5. ASSUME NEW k \in 0..15 PROVE r.bits[c + k + 1] = Digit(low, k)
      <3>1. k \in 0..n - 1
        BY <1>7
      <3>2. r.bits[c + k + 1] = Digit(v, k)
        BY <3>1, <1>5
      <3>3. Digit(v % Pow2(16), k) = Digit(v, k)
        BY <1>0, LowDigits
      <3> QED BY <3>2, <3>3
    <2>6. ASSUME NEW k \in 0..(n - 16) - 1 PROVE r.bits[d + k + 1] = Digit(high, k)
      <3>1. k \in 0..15 /\ 16 + k \in 0..n - 1 /\ d + k + 1 = c + (16 + k) + 1
        BY <1>4, <1>7
      <3>2. r.bits[d + k + 1] = Digit(v, 16 + k)
        BY <3>1, <1>5
      <3> QED BY <3>1, <3>2, <1>0, HighDigits
    <2> HIDE DEF low, high, d, c
    <2>8. n - 16 \in Nat
      BY <1>7
    <2>7. Extract(Word(r, c \div 8, 3), c % 8, 16) = low
      <3>1. Lies(r, c, 16, low, 3)
        BY <1>4, <2>1, <2>4, <2>5 DEF Lies
      <3> QED BY <3>1, FieldOfWord, Zenon
    <2>9. Extract(Word(r, d \div 8, 3), d % 8, n - 16) = high
      <3>1. Lies(r, d, n - 16, high, 3)
        BY <2>1, <2>2, <2>4, <2>6, <2>8 DEF Lies
      <3> QED BY <3>1, FieldOfWord, Zenon
    <2>10. SlowField(r, n) = v
      BY <2>1, <2>3, <2>7, <2>9, SMT
    <2> QED BY <2>10, <1>33, <1>7
  <1> QED BY <1>0, <1>6, <1>7

-----------------------------------------------------------------------------
(* Reading what the server wrote, one encoding after the other. *)

LEMMA NoBits == <<>> \in BitStrings /\ Len(<<>>) = 0
  BY DEF BitStrings

LEMMA FieldReads ==
  ASSUME NEW r, IsReader(r), NEW n, NEW v, Fits(v, n), NEW m, ~r.threw => m = n, Carries(r, Bits(v, n))
  PROVE  Bits(v, n) \in BitStrings /\ Reads(r, ReadBits(r, m), Bits(v, n), v)
  <1>0. n \in 0..32 /\ v \in Nat
    BY FitsRange
  <1>1. Bits(v, n) \in BitStrings /\ Len(Bits(v, n)) = n
    BY <1>0, BitsAreDigits DEF BitStrings
  <1>2. CASE r.threw
    <2>1. ReadBits(r, m) = Throwing(r)
      BY <1>2 DEF ReadBits
    <2> QED BY <1>0, <1>1, <1>2, <2>1, ThrowingThrows DEF Reads
  <1>3. CASE ~r.threw
    <2>1. m = n
      BY <1>3
    <2>2. Takes(r, ReadBits(r, n), n, v)
      BY ReadBitsReads
    <2> QED BY <1>1, <2>1, <2>2 DEF Reads
  <1> QED BY <1>1, <1>2, <1>3

LEMMA SingleBit ==
  ASSUME NEW b \in {0, 1}
  PROVE  Fits(b, 1) /\ Bits(b, 1) = <<b>> /\ <<b>> \in BitStrings
  <1>1. Fits(b, 1)
    <2>1. b < Pow2(1)
      BY PowerValues, SMT
    <2>2. b \in 0..MaxNumber
      <3>1. MaxNumber \in Nat /\ 1 <= MaxNumber
        BY SMT DEF MaxNumber
      <3> QED BY <3>1
    <2>3. 1 \in 0..32
      OBVIOUS
    <2> QED BY <2>1, <2>2, <2>3, Zenon DEF Fits, Pow2
  <1>2. Bits(b, 1) \in Seq({0, 1}) /\ Len(Bits(b, 1)) = 1
    BY BitsAreDigits
  <1>3. Bits(b, 1)[1] = b
    <2>1. Bits(b, 1) = [k \in 1..1 |-> IF k > 31 THEN 0 ELSE (b \div Pow2(k - 1)) % 2]
      BY Zenon DEF Bits, Pow2
    <2>2. (b \div Pow2(0)) % 2 = b
      BY PowerValues, SMT
    <2> QED BY <2>1, <2>2, SMT
  <1>4. Bits(b, 1) = <<b>>
    BY <1>2, <1>3
  <1> QED BY <1>1, <1>4 DEF BitStrings

LEMMA BitReads ==
  ASSUME NEW r, IsReader(r), NEW b \in {0, 1}, Carries(r, <<b>>)
  PROVE  <<b>> \in BitStrings /\ Reads(r, ReadBit(r), <<b>>, b)
  <1>1. Fits(b, 1) /\ Bits(b, 1) = <<b>>
    BY SingleBit
  <1>2. Reads(r, ReadBits(r, 1), Bits(b, 1), b) /\ Bits(b, 1) \in BitStrings
    BY <1>1, FieldReads
  <1> QED BY <1>1, <1>2 DEF ReadBit

\* A field that is sent on a condition.
LEMMA IfReads ==
  ASSUME NEW r, IsReader(r), NEW n, NEW v, NEW m, NEW wanted \in BOOLEAN, NEW sends \in BOOLEAN,
         ~r.threw => (wanted <=> sends) /\ m = n,
         sends => Fits(v, n), ~sends => v = 0,
         NEW e, e = (IF sends THEN Bits(v, n) ELSE <<>>), Carries(r, e)
  PROVE  e \in BitStrings /\ Reads(r, ReadBitsIf(r, wanted, m), e, v)
  <1>1. e \in BitStrings
    BY NoBits, FieldReads
  <1>2. Len(e) \in Nat
    BY <1>1 DEF BitStrings
  <1>3. CASE r.threw
    <2>1. Takes(r, Throwing(r), Len(e), v)
      BY <1>2, <1>3, ThrowingThrows
    <2>2. ReadBits(r, m) = Throwing(r)
      BY <1>3 DEF ReadBits
    <2>3. Takes(r, Returning(r, 0), Len(e), v)
      <3>1. Takes(r, r, Len(e), v)
        BY <1>3, <1>2 DEF Takes, IsReader
      <3> QED BY <3>1, <1>3, ReturningTakes
    <2> QED BY <1>1, <2>1, <2>2, <2>3 DEF Reads, ReadBitsIf
  <1>4. CASE ~r.threw /\ sends
    <2>1. ReadBitsIf(r, wanted, m) = ReadBits(r, m)
      BY <1>4 DEF ReadBitsIf
    <2> QED BY <2>1, <1>4, FieldReads
  <1>5. CASE ~r.threw /\ ~sends
    <2>1. ReadBitsIf(r, wanted, m) = Returning(r, 0)
      BY <1>5 DEF ReadBitsIf
    <2>2. Takes(r, r, 0, r.value)
      BY NothingTaken
    <2>3. Takes(r, Returning(r, 0), 0, v)
      BY <2>2, <1>5, ReturningTakes
    <2>4. e = <<>>
      BY <1>5
    <2> QED BY <2>1, <2>3, <2>4, <1>1, NoBits DEF Reads
  <1> QED BY <1>3, <1>4, <1>5

LEMMA BitIfReads ==
  ASSUME NEW r, IsReader(r), NEW b \in {0, 1}, NEW wanted \in BOOLEAN, NEW sends \in BOOLEAN,
         ~r.threw => (wanted <=> sends), ~sends => b = 0,
         NEW e, e = (IF sends THEN <<b>> ELSE <<>>), Carries(r, e)
  PROVE  e \in BitStrings /\ Reads(r, ReadBitIf(r, wanted), e, b)
  <1>1. Fits(b, 1) /\ Bits(b, 1) = <<b>>
    BY SingleBit
  <1>2. ReadBitIf(r, wanted) = ReadBitsIf(r, wanted, 1)
    BY DEF ReadBitIf, ReadBitsIf, ReadBit
  <1>3. e = (IF sends THEN Bits(b, 1) ELSE <<>>)
    BY <1>1
  <1> HIDE DEF ReadBitIf
  <1>4. e \in BitStrings /\ Reads(r, ReadBitsIf(r, wanted, 1), e, b)
    BY <1>1, <1>3, IfReads
  <1> QED BY <1>2, <1>4

\* The value of a read, changed.
LEMMA ReturningReads ==
  ASSUME NEW r, NEW out, NEW e, NEW v, NEW w, NEW x, Reads(r, out, e, v), ~out.threw => w = x
  PROVE  Reads(r, Returning(out, w), e, x)
  BY ReturningTakes DEF Reads

LEMMA ReadsValue ==
  ASSUME NEW r, NEW out, NEW e, NEW v, Reads(r, out, e, v)
  PROVE  /\ IsReader(out) /\ out.threw \in BOOLEAN
         /\ ~out.threw => ~r.threw /\ out.value = v
  BY DEF Reads, Takes, IsReader

-----------------------------------------------------------------------------
(* Signed numbers. *)

LEMMA HalfPower ==
  ASSUME NEW n \in 1..31
  PROVE  Pow2(n - 1) \in Nat /\ Pow2(n - 1) > 0 /\ Pow2(n) = 2 * Pow2(n - 1) /\ Pow2(n) <= MaxNumber + 1
  <1>1. n - 1 \in 0..31 /\ (n - 1) + 1 = n
    OBVIOUS
  <1>2. Pow2(n - 1) \in Nat /\ Pow2(n - 1) > 0 /\ Pow2((n - 1) + 1) = 2 * Pow2(n - 1)
    BY <1>1, PowerStep
  <1>3. Pow2(n) <= MaxNumber + 1
    <2> DEFINE G == {i \in 0..30 : Pow2(31 - i) <= Pow2(31)}
    <2>1. 0 \in G
      BY PowerPositive
    <2>2. ASSUME NEW i \in 0..30 - 1, i \in G PROVE i + 1 \in G
      <3> DEFINE k == 31 - (i + 1)
      <3>1. k \in 0..31 /\ k + 1 = 31 - i
        OBVIOUS
      <3>2. Pow2(31 - i) <= Pow2(31)
        BY <2>2
      <3> HIDE DEF k
      <3>3. Pow2(k) <= Pow2(31)
        BY <3>1, <3>2, PowerStep, PowerPositive
      <3> QED BY <3>3 DEF k
    <2> HIDE DEF G
    <2>3. \A i \in 0..30 : i \in G
      BY <2>1, <2>2, IntervalInduction
    <2>4. 31 - n \in 0..30 /\ 31 - (31 - n) = n
      OBVIOUS
    <2>5. Pow2(31 - (31 - n)) <= Pow2(31)
      BY <2>3, <2>4 DEF G
    <2>6. Pow2(31) = MaxNumber + 1
      BY PowerValues, SMT DEF MaxNumber
    <2> QED BY <2>4, <2>5, <2>6
  <1> QED BY <1>1, <1>2, <1>3

\* A signed number is sent as the one it is modulo 2^n.
Unsigned(v, n) == IF v < 0 THEN v + Pow2(n) ELSE v

LEMMA SignedFits ==
  ASSUME NEW v, NEW n, FitsSigned(v, n)
  PROVE  Fits(Unsigned(v, n), n) /\ TwosComplement(Unsigned(v, n), n) = v
  <1>1. n \in 1..31 /\ v \in -Pow2(n - 1)..Pow2(n - 1) - 1
    BY Zenon DEF FitsSigned, Pow2
  <1>2. Pow2(n - 1) \in Nat /\ Pow2(n - 1) > 0 /\ Pow2(n) = 2 * Pow2(n - 1) /\ Pow2(n) <= MaxNumber + 1
    BY <1>1, HalfPower
  <1>3. MaxNumber \in Nat
    BY SMT DEF MaxNumber
  <1> DEFINE u == Unsigned(v, n)
  <1>4. u \in 0..MaxNumber /\ u < Pow2(n) /\ n \in 0..32
    BY <1>1, <1>2, <1>3 DEF Unsigned
  <1>5. (IF n < 32 /\ u >= Pow2(n - 1) THEN u - Pow2(n) ELSE u) = v
    BY <1>1, <1>2 DEF Unsigned
  <1> HIDE DEF u
  <1>6. Fits(u, n)
    BY <1>4, Zenon DEF Fits, Pow2
  <1>7. TwosComplement(u, n) = v
    BY <1>5, Zenon DEF TwosComplement, Pow2
  <1> QED BY <1>6, <1>7 DEF u

LEMMA SignedReads ==
  ASSUME NEW r, IsReader(r), NEW v, NEW n, FitsSigned(v, n), Carries(r, Bits(Unsigned(v, n), n))
  PROVE  /\ Bits(Unsigned(v, n), n) \in BitStrings
         /\ Reads(r, ReadSignedBits(r, n), Bits(Unsigned(v, n), n), v)
  <1> DEFINE u == Unsigned(v, n)
             read == ReadBits(r, n)
  <1>1. Fits(u, n) /\ TwosComplement(u, n) = v
    BY SignedFits
  <1>2. Bits(u, n) \in BitStrings /\ Reads(r, read, Bits(u, n), u)
    BY <1>1, FieldReads
  <1>3. ReadSignedBits(r, n) = Returning(read, TwosComplement(read.value, n))
    BY DEF ReadSignedBits
  <1> HIDE DEF u, read
  <1>4. ~read.threw => TwosComplement(read.value, n) = v
    BY <1>1, <1>2, ReadsValue
  <1>5. Reads(r, Returning(read, TwosComplement(read.value, n)), Bits(u, n), v)
    BY <1>2, <1>4, ReturningReads
  <1> QED BY <1>2, <1>3, <1>5 DEF u

-----------------------------------------------------------------------------
(* Coordinates, normals and cells. *)

\* The bit that says whether something holds.
AsBit(holds) == IF holds THEN 1 ELSE 0

LEMMA AsBits ==
  ASSUME NEW holds
  PROVE  /\ AsBit(holds) \in {0, 1} /\ Bit(holds) = <<AsBit(holds)>> /\ Bit(holds) \in BitStrings
         /\ holds => AsBit(holds) = 1
         /\ ~holds => AsBit(holds) = 0
  <1>1. AsBit(holds) \in {0, 1}
    BY DEF AsBit
  <1> QED BY <1>1, SingleBit DEF AsBit, Bit

LEMMA FitsBits ==
  ASSUME NEW v, NEW n, Fits(v, n)
  PROVE  Bits(v, n) \in BitStrings /\ Len(Bits(v, n)) = n /\ n \in 0..32
  BY FitsRange, BitsAreDigits DEF BitStrings

\* A part of an encoding that is there on a condition.
LEMMA OptionalBits ==
  ASSUME NEW sends, NEW n, NEW v, sends => Fits(v, n)
  PROVE  (IF sends THEN Bits(v, n) ELSE <<>>) \in BitStrings
  BY NoBits, FitsBits

LEMMA OptionalBit ==
  ASSUME NEW sends, NEW b \in {0, 1}
  PROVE  (IF sends THEN <<b>> ELSE <<>>) \in BitStrings
  BY NoBits, SingleBit

LEMMA CoordRange ==
  ASSUME NEW v, NEW unit \in Nat, FitsCoord(v, unit)
  PROVE  v \in Int /\ v >= -(16384 * unit + unit - 1) /\ v <= 16384 * unit + unit - 1
  <1> DEFINE top == 16384 * unit + unit - 1
  <1>1. top \in Int
    BY SMT
  <1>2. v \in -top..top
    BY SMT DEF FitsCoord
  <1> HIDE DEF top
  <1>3. v \in Int /\ v >= -top /\ v <= top
    BY <1>1, <1>2
  <1> QED BY <1>3, SMT DEF top

LEMMA SmallFits ==
  ASSUME NEW n \in 0..30, NEW v \in Nat, v < Pow2(n)
  PROVE  Fits(v, n)
  <1>1. v \in 0..MaxNumber
    <2>1. CASE n = 0
      <3>1. v = 0 /\ MaxNumber \in Nat
        BY <2>1, PowerValues, SMT DEF MaxNumber
      <3> QED BY <3>1
    <2>2. CASE n # 0
      <3>1. n \in 1..31
        BY <2>2
      <3>2. Pow2(n) <= MaxNumber + 1 /\ Pow2(n) \in Nat
        BY <3>1, HalfPower, PowerPositive
      <3>3. MaxNumber \in Nat
        BY SMT DEF MaxNumber
      <3> QED BY <3>2, <3>3
    <2> QED BY <2>1, <2>2
  <1>2. n \in 0..32
    OBVIOUS
  <1> QED BY <1>1, <1>2, Zenon DEF Fits, Pow2

LEMMA CoordParts ==
  ASSUME NEW v, FitsCoord(v, 32)
  PROVE  LET int == Magnitude(v) \div 32
             frac == Magnitude(v) % 32
             sign == AsBit(v < 0)
         IN /\ v \in Int /\ int \in Nat /\ frac \in 0..31 /\ frac \in Nat /\ sign \in {0, 1}
            /\ v = 0 <=> ~(int > 0) /\ ~(frac > 0)
            /\ v = 0 => sign = 0
            /\ Signed(sign, (IF int > 0 THEN 32 * ((int - 1) + 1) ELSE 0) + frac) = v
            /\ int > 0 => int - 1 \in Nat /\ Fits(int - 1, 14)
            /\ Fits(frac, 5)
  <1> DEFINE m == Magnitude(v)
             int == m \div 32
             frac == m % 32
             sign == AsBit(v < 0)
  <1>1. v \in Int /\ v >= -524319 /\ v <= 524319
    BY CoordRange, SMT
  <1>2. m \in Nat /\ m <= 524319 /\ m = (IF v < 0 THEN -v ELSE v) /\ sign = (IF v < 0 THEN 1 ELSE 0)
    BY <1>1, SMT DEF Magnitude, AsBit
  <1> HIDE DEF m, sign
  <1>3. int \in Nat /\ int <= 16384 /\ frac \in 0..31 /\ frac \in Nat /\ m = 32 * int + frac
    BY <1>2, SMT
  <1> HIDE DEF int, frac
  <1>4. v = 0 <=> ~(int > 0) /\ ~(frac > 0)
    BY <1>1, <1>2, <1>3, SMT
  <1>5. Signed(sign, (IF int > 0 THEN 32 * ((int - 1) + 1) ELSE 0) + frac) = v
    BY <1>1, <1>2, <1>3, SMT DEF Signed
  <1>6. int > 0 => int - 1 \in Nat /\ Fits(int - 1, 14)
    <2>1. ASSUME int > 0 PROVE int - 1 \in Nat /\ int - 1 < Pow2(14)
      BY <1>3, <2>1, PowerValues, SMT
    <2> QED BY <2>1, SmallFits
  <1>7. Fits(frac, 5)
    <2>1. frac \in Nat /\ frac < Pow2(5)
      BY <1>3, PowerValues, SMT
    <2> QED BY <2>1, SmallFits
  <1>8. sign \in {0, 1} /\ (v = 0 => sign = 0)
    BY <1>2
  <1>9. v \in Int /\ int \in Nat /\ frac \in 0..31 /\ frac \in Nat
    BY <1>1, <1>3, SMT
  <1> QED BY <1>4, <1>5, <1>6, <1>7, <1>8, <1>9, Zenon DEF m, int, frac, sign

LEMMA CoordReads ==
  ASSUME NEW r, IsReader(r), NEW v, FitsCoord(v, 32), Carries(r, EncodeCoord(v))
  PROVE  EncodeCoord(v) \in BitStrings /\ Reads(r, ReadBitCoord(r), EncodeCoord(v), v)
  <1> DEFINE int == Magnitude(v) \div 32
             frac == Magnitude(v) % 32
             sign == AsBit(v < 0)
             e1 == <<AsBit(int > 0)>>
             e2 == <<AsBit(frac > 0)>>
             e3 == IF ~(v = 0) THEN <<sign>> ELSE <<>>
             e4 == IF int > 0 THEN Bits(int - 1, 14) ELSE <<>>
             e5 == IF frac > 0 THEN Bits(frac, 5) ELSE <<>>
             r1 == ReadBit(r)
             r2 == ReadBit(r1)
             p3 == r1.value = 1 \/ r2.value = 1
             r3 == ReadBitIf(r2, p3)
             p4 == r1.value = 1
             r4 == ReadBitsIf(r3, p4, 14)
             p5 == r2.value = 1
             r5 == ReadBitsIf(r4, p5, 5)
             x == Signed(r3.value, (IF r1.value = 1 THEN 32 * (r4.value + 1) ELSE 0) + r5.value)
  <1>1. /\ v \in Int /\ int \in Nat /\ frac \in 0..31 /\ frac \in Nat /\ sign \in {0, 1}
        /\ v = 0 <=> ~(int > 0) /\ ~(frac > 0)
        /\ v = 0 => sign = 0
        /\ Signed(sign, (IF int > 0 THEN 32 * ((int - 1) + 1) ELSE 0) + frac) = v
        /\ int > 0 => int - 1 \in Nat /\ Fits(int - 1, 14)
        /\ Fits(frac, 5)
    BY CoordParts
  <1>2. EncodeCoord(v) = e1 \o e2 \o e3 \o e4 \o e5
    BY Zenon DEF EncodeCoord, Bit, AsBit
  <1>3. ReadBitCoord(r) = Returning(r5, x)
    BY Zenon DEF ReadBitCoord
  <1>4. e1 \in BitStrings /\ e2 \in BitStrings /\ e3 \in BitStrings /\ e4 \in BitStrings /\ e5 \in BitStrings
    <2>1. e1 \in BitStrings /\ e2 \in BitStrings
      BY AsBits, SingleBit
    <2>2. e3 \in BitStrings
      BY <1>1, OptionalBit
    <2>3. e4 \in BitStrings
      BY <1>1, OptionalBits
    <2>4. e5 \in BitStrings
      BY <1>1, OptionalBits
    <2> QED BY <2>1, <2>2, <2>3, <2>4
  <1> DEFINE w2 == e1 \o e2
             w3 == w2 \o e3
             w4 == w3 \o e4
             w5 == w4 \o e5
  <1>5. EncodeCoord(v) = w5
    BY <1>2
  <1> HIDE DEF int, frac, sign, r1, r2, r3, r4, r5
  <1>6. /\ AsBit(int > 0) \in {0, 1} /\ (AsBit(int > 0) = 1 <=> int > 0)
        /\ AsBit(frac > 0) \in {0, 1} /\ (AsBit(frac > 0) = 1 <=> frac > 0)
    BY DEF AsBit
  <1> HIDE DEF e1, e2, e3, e4, e5, w2, w3, w4, w5
  <1>7. w2 \in BitStrings /\ w3 \in BitStrings /\ w4 \in BitStrings /\ w5 \in BitStrings
    BY <1>4, Joined DEF w2, w3, w4, w5
  <1>8. Carries(r, w4) /\ Carries(r, w3) /\ Carries(r, w2) /\ Carries(r, e1)
    <2>1. Carries(r, w4)
      BY <1>4, <1>5, <1>7, CarriesFirst DEF w5
    <2>2. Carries(r, w3)
      BY <1>4, <2>1, <1>7, CarriesFirst DEF w4
    <2>3. Carries(r, w2)
      BY <1>4, <2>2, <1>7, CarriesFirst DEF w3
    <2>4. Carries(r, e1)
      BY <1>4, <2>3, <1>7, CarriesFirst DEF w2
    <2> QED BY <2>1, <2>2, <2>3, <2>4
  <1>9. Reads(r, r1, e1, AsBit(int > 0)) /\ Carries(r1, e2) /\ IsReader(r1)
    <2>1. Reads(r, r1, e1, AsBit(int > 0))
      BY <1>6, <1>8, BitReads DEF r1, e1
    <2> QED BY <2>1, <1>4, <1>8, CarriesOn DEF w2
  <1>10. Reads(r1, r2, e2, AsBit(frac > 0)) /\ Reads(r, r2, w2, AsBit(frac > 0)) /\ Carries(r2, e3) /\ IsReader(r2)
    <2>1. Reads(r1, r2, e2, AsBit(frac > 0))
      BY <1>6, <1>9, BitReads DEF r2, e2
    <2> QED BY <2>1, <1>4, <1>8, <1>9, Onward DEF w2, w3
  <1>11. ~r2.threw => r1.value = AsBit(int > 0) /\ r2.value = AsBit(frac > 0)
    BY <1>9, <1>10, ReadsValue
  <1>12. Reads(r2, r3, e3, sign) /\ Reads(r, r3, w3, sign) /\ Carries(r3, e4) /\ IsReader(r3)
    <2>1. p3 \in BOOLEAN /\ (~r2.threw => (p3 <=> ~(v = 0)))
      BY <1>1, <1>6, <1>11
    <2>2. e3 = IF ~(v = 0) THEN <<sign>> ELSE <<>>
      BY DEF e3
    <2>3. Reads(r2, r3, e3, sign)
      <3> HIDE DEF p3
      <3> QED BY <1>1, <2>1, <2>2, <1>10, BitIfReads DEF r3
    <2> QED BY <2>3, <1>4, <1>7, <1>8, <1>10, Onward DEF w3, w4
  <1> DEFINE n4 == IF int > 0 THEN int - 1 ELSE 0
             n5 == IF frac > 0 THEN frac ELSE 0
  <1>13. Reads(r3, r4, e4, n4) /\ Reads(r, r4, w4, n4) /\ Carries(r4, e5) /\ IsReader(r4)
    <2>1. p4 \in BOOLEAN /\ (~r3.threw => (p4 <=> int > 0) /\ 14 = 14)
      BY <1>6, <1>11, <1>12, ReadsValue
    <2>2. e4 = IF int > 0 THEN Bits(n4, 14) ELSE <<>>
      BY DEF e4
    <2>3. (int > 0 => Fits(n4, 14)) /\ (~(int > 0) => n4 = 0) /\ (int > 0) \in BOOLEAN
      BY <1>1
    <2>4. Reads(r3, r4, e4, n4)
      <3> HIDE DEF p4, n4
      <3> QED BY <2>1, <2>2, <2>3, <1>12, IfReads DEF r4
    <2> QED BY <2>4, <1>4, <1>5, <1>7, <1>8, <1>12, Onward DEF w4, w5
  <1>14. Reads(r4, r5, e5, n5) /\ Reads(r, r5, w5, n5)
    <2>1. p5 \in BOOLEAN /\ (~r4.threw => (p5 <=> frac > 0) /\ 5 = 5)
      BY <1>6, <1>11, <1>12, <1>13, ReadsValue
    <2>2. e5 = IF frac > 0 THEN Bits(n5, 5) ELSE <<>>
      BY DEF e5
    <2>3. (frac > 0 => Fits(n5, 5)) /\ (~(frac > 0) => n5 = 0) /\ (frac > 0) \in BOOLEAN
      BY <1>1
    <2>4. Reads(r4, r5, e5, n5)
      <3> HIDE DEF p5, n5
      <3> QED BY <2>1, <2>2, <2>3, <1>13, IfReads DEF r5
    <2> QED BY <2>4, <1>4, <1>7, <1>13, ReadsOn DEF w5
  <1>15. ~r5.threw => x = v
    <2>1. ASSUME ~r5.threw
          PROVE  /\ r1.value = AsBit(int > 0) /\ r3.value = sign /\ r4.value = n4 /\ r5.value = n5
      BY <2>1, <1>9, <1>10, <1>12, <1>13, <1>14, ReadsValue
    <2>2. n5 = frac
      BY <1>1
    <2>3. (IF int > 0 THEN 32 * (n4 + 1) ELSE 0) = (IF int > 0 THEN 32 * ((int - 1) + 1) ELSE 0)
      BY <1>1
    <2> HIDE DEF n4, n5
    <2> QED BY <2>1, <2>2, <2>3, <1>1, <1>6, Zenon
  <1> HIDE DEF x
  <1>16. Reads(r, Returning(r5, x), w5, v)
    BY <1>14, <1>15, ReturningReads
  <1> QED BY <1>3, <1>5, <1>7, <1>16

LEMMA CoordMPParts ==
  ASSUME NEW v, NEW integral \in BOOLEAN, NEW unit \in {8, 32}, FitsCoord(v, IF integral THEN 1 ELSE unit)
  PROVE  LET int == IF integral THEN Magnitude(v) ELSE Magnitude(v) \div unit
             frac == IF integral THEN 0 ELSE Magnitude(v) % unit
             sign == AsBit(v < 0)
         IN /\ v \in Int /\ int \in Nat /\ frac \in Nat /\ frac < unit /\ sign \in {0, 1}
            /\ integral /\ int = 0 => sign = 0
            /\ Signed(sign, IF integral THEN int ELSE int * unit + frac) = v
            /\ int > 0 => int - 1 \in Nat /\ Fits(int - 1, IF int <= Pow2(11) THEN 11 ELSE 14)
  <1> DEFINE m == Magnitude(v)
             int == IF integral THEN m ELSE m \div unit
             frac == IF integral THEN 0 ELSE m % unit
             sign == AsBit(v < 0)
             top == IF integral THEN 16384 ELSE 16384 * unit + unit - 1
  <1>1. v \in Int /\ v >= -top /\ v <= top /\ top \in Nat
    BY CoordRange, SMT
  <1>2. m \in Nat /\ m <= top /\ m = (IF v < 0 THEN -v ELSE v) /\ sign = (IF v < 0 THEN 1 ELSE 0)
    <2> HIDE DEF top
    <2> QED BY <1>1 DEF Magnitude, AsBit
  <1> HIDE DEF m, sign
  <1>3. int \in Nat /\ int <= 16384 /\ frac \in Nat /\ frac < unit
        /\ m = (IF integral THEN int ELSE int * unit + frac)
    <2>1. CASE integral
      BY <1>2, <2>1, SMT
    <2>2. CASE ~integral /\ unit = 8
      BY <1>2, <2>2, SMT
    <2>3. CASE ~integral /\ unit = 32
      BY <1>2, <2>3, SMT
    <2> QED BY <2>1, <2>2, <2>3, SMT
  <1>4. int > 0 => int - 1 \in Nat /\ Fits(int - 1, IF int <= Pow2(11) THEN 11 ELSE 14)
    <2>1. ASSUME int > 0 PROVE int - 1 \in Nat /\ int - 1 < Pow2(14) /\ (int <= Pow2(11) => int - 1 < Pow2(11))
      <3> HIDE DEF int
      <3>1. int - 1 \in Nat /\ int - 1 < 16384 /\ (int <= 2048 => int - 1 < 2048)
        BY <1>3, <2>1, SMT
      <3> QED BY <3>1, PowerValues, SMT
    <2> HIDE DEF int
    <2> QED BY <2>1, SmallFits
  <1> HIDE DEF int, frac
  <1>5. Signed(sign, IF integral THEN int ELSE int * unit + frac) = v
    <2>1. Signed(sign, m) = v
      BY <1>1, <1>2, SMT DEF Signed
    <2> QED BY <2>1, <1>3, SMT
  <1>6. sign \in {0, 1} /\ (integral /\ int = 0 => sign = 0)
    BY <1>1, <1>2, <1>3, SMT
  <1>7. v \in Int /\ int \in Nat /\ frac \in Nat /\ frac < unit
    BY <1>1, <1>3, SMT
  <1> QED BY <1>4, <1>5, <1>6, <1>7, Zenon DEF m, int, frac, sign

LEMMA CoordMPReads ==
  ASSUME NEW r, IsReader(r), NEW v, NEW integral \in BOOLEAN, NEW fracBits \in {3, 5},
         FitsCoord(v, IF integral THEN 1 ELSE Pow2(fracBits)), Carries(r, EncodeCoordMP(v, integral, fracBits))
  PROVE  /\ EncodeCoordMP(v, integral, fracBits) \in BitStrings
         /\ Reads(r, ReadBitCoordMP(r, integral, fracBits), EncodeCoordMP(v, integral, fracBits), v)
  <1> DEFINE unit == Pow2(fracBits)
             int == IF integral THEN Magnitude(v) ELSE Magnitude(v) \div unit
             frac == IF integral THEN 0 ELSE Magnitude(v) % unit
             sign == AsBit(v < 0)
             near == int <= Pow2(11)
             wide == IF near THEN 11 ELSE 14
             signed == ~(integral /\ int = 0)
             e1 == <<AsBit(near)>>
             e2 == <<AsBit(int > 0)>>
             e3 == IF signed THEN <<sign>> ELSE <<>>
             e4 == IF int > 0 THEN Bits(int - 1, wide) ELSE <<>>
             e5 == IF ~integral THEN Bits(frac, fracBits) ELSE <<>>
             r1 == ReadBit(r)
             r2 == ReadBit(r1)
             p3 == ~integral \/ r2.value = 1
             r3 == ReadBitIf(r2, p3)
             p4 == r2.value = 1
             m4 == IntBits(r1.value)
             r4 == ReadBitsIf(r3, p4, m4)
             p5 == ~integral
             r5 == ReadBitsIf(r4, p5, fracBits)
             whole == IF r2.value = 1 THEN r4.value + 1 ELSE 0
             x == Signed(r3.value, IF integral THEN whole ELSE whole * unit + r5.value)
  <1>0. unit \in {8, 32} /\ fracBits \in 0..30 /\ unit \in Nat
    BY PowerValues, SMT
  <1>1. /\ v \in Int /\ int \in Nat /\ frac \in Nat /\ frac < unit /\ sign \in {0, 1}
        /\ ~signed => sign = 0
        /\ Signed(sign, IF integral THEN int ELSE int * unit + frac) = v
        /\ int > 0 => int - 1 \in Nat /\ Fits(int - 1, wide)
    <2> HIDE DEF unit
    <2>1. FitsCoord(v, IF integral THEN 1 ELSE unit)
      BY DEF unit
    <2> QED BY <1>0, <2>1, CoordMPParts, SMTT(60)
  <1>2. EncodeCoordMP(v, integral, fracBits) = e1 \o e2 \o e3 \o e4 \o e5
    <2>1. /\ (IF integral /\ int = 0 THEN <<>> ELSE <<sign>>) = e3
          /\ (IF integral THEN <<>> ELSE Bits(Magnitude(v) % unit, fracBits)) = e5
      BY Zenon
    <2> QED BY <2>1, Zenon DEF EncodeCoordMP, Bit, AsBit, Pow2
  <1>3. ReadBitCoordMP(r, integral, fracBits) = Returning(r5, x)
    BY Zenon DEF ReadBitCoordMP, Pow2
  <1>22. Fits(frac, fracBits)
    BY <1>0, <1>1, SmallFits
  <1>4. e1 \in BitStrings /\ e2 \in BitStrings /\ e3 \in BitStrings /\ e4 \in BitStrings /\ e5 \in BitStrings
    <2>1. e1 \in BitStrings /\ e2 \in BitStrings
      BY AsBits, SingleBit
    <2>2. e3 \in BitStrings
      BY <1>1, OptionalBit
    <2>3. e4 \in BitStrings
      BY <1>1, OptionalBits
    <2>4. e5 \in BitStrings
      BY <1>22, OptionalBits
    <2> QED BY <2>1, <2>2, <2>3, <2>4
  <1> DEFINE w2 == e1 \o e2
             w3 == w2 \o e3
             w4 == w3 \o e4
             w5 == w4 \o e5
  <1>5. EncodeCoordMP(v, integral, fracBits) = w5
    BY <1>2
  <1> HIDE DEF unit, int, frac, sign, r1, r2, r3, r4, r5
  <1>6. /\ AsBit(near) \in {0, 1} /\ (AsBit(near) = 1 <=> near)
        /\ AsBit(int > 0) \in {0, 1} /\ (AsBit(int > 0) = 1 <=> int > 0)
    BY DEF AsBit
  <1> HIDE DEF near
  <1> HIDE DEF e1, e2, e3, e4, e5, w2, w3, w4, w5
  <1>7. w2 \in BitStrings /\ w3 \in BitStrings /\ w4 \in BitStrings /\ w5 \in BitStrings
    BY <1>4, Joined DEF w2, w3, w4, w5
  <1>8. Carries(r, w4) /\ Carries(r, w3) /\ Carries(r, w2) /\ Carries(r, e1)
    <2>1. Carries(r, w4)
      BY <1>4, <1>5, <1>7, CarriesFirst DEF w5
    <2>2. Carries(r, w3)
      BY <1>4, <2>1, <1>7, CarriesFirst DEF w4
    <2>3. Carries(r, w2)
      BY <1>4, <2>2, <1>7, CarriesFirst DEF w3
    <2>4. Carries(r, e1)
      BY <1>4, <2>3, <1>7, CarriesFirst DEF w2
    <2> QED BY <2>1, <2>2, <2>3, <2>4
  <1>9. Reads(r, r1, e1, AsBit(near)) /\ Carries(r1, e2) /\ IsReader(r1)
    <2>1. Reads(r, r1, e1, AsBit(near))
      BY <1>6, <1>8, BitReads DEF r1, e1
    <2> QED BY <2>1, <1>4, <1>8, CarriesOn DEF w2
  <1>10. Reads(r1, r2, e2, AsBit(int > 0)) /\ Reads(r, r2, w2, AsBit(int > 0)) /\ Carries(r2, e3) /\ IsReader(r2)
    <2>1. Reads(r1, r2, e2, AsBit(int > 0))
      BY <1>6, <1>9, BitReads DEF r2, e2
    <2> QED BY <2>1, <1>4, <1>8, <1>9, Onward DEF w2, w3
  <1>11. ~r2.threw => r1.value = AsBit(near) /\ r2.value = AsBit(int > 0)
    BY <1>9, <1>10, ReadsValue
  <1>12. Reads(r2, r3, e3, sign) /\ Reads(r, r3, w3, sign) /\ Carries(r3, e4) /\ IsReader(r3)
    <2>1. p3 \in BOOLEAN /\ signed \in BOOLEAN /\ (~r2.threw => (p3 <=> signed))
      BY <1>1, <1>6, <1>11
    <2>2. e3 = IF signed THEN <<sign>> ELSE <<>>
      BY DEF e3
    <2>3. Reads(r2, r3, e3, sign)
      <3> HIDE DEF p3, signed
      <3> QED BY <1>1, <2>1, <2>2, <1>10, BitIfReads DEF r3
    <2> QED BY <2>3, <1>4, <1>7, <1>8, <1>10, Onward DEF w3, w4
  <1> DEFINE n4 == IF int > 0 THEN int - 1 ELSE 0
  <1>13. Reads(r3, r4, e4, n4) /\ Reads(r, r4, w4, n4) /\ Carries(r4, e5) /\ IsReader(r4)
    <2>1. p4 \in BOOLEAN /\ (~r3.threw => (p4 <=> int > 0) /\ m4 = wide)
      BY <1>6, <1>11, <1>12, ReadsValue DEF IntBits
    <2>2. e4 = IF int > 0 THEN Bits(n4, wide) ELSE <<>>
      BY DEF e4
    <2>3. (int > 0 => Fits(n4, wide)) /\ (~(int > 0) => n4 = 0) /\ (int > 0) \in BOOLEAN
      BY <1>1
    <2>4. Reads(r3, r4, e4, n4)
      <3> HIDE DEF p4, n4, m4, wide
      <3> QED BY <2>1, <2>2, <2>3, <1>12, IfReads DEF r4
    <2> QED BY <2>4, <1>4, <1>5, <1>7, <1>8, <1>12, Onward DEF w4, w5
  <1>14. Reads(r4, r5, e5, frac) /\ Reads(r, r5, w5, frac)
    <2>1. p5 \in BOOLEAN
      OBVIOUS
    <2>2. e5 = IF p5 THEN Bits(frac, fracBits) ELSE <<>>
      BY DEF e5
    <2>3. ~p5 => frac = 0
      BY DEF frac
    <2>4. Reads(r4, r5, e5, frac)
      <3> HIDE DEF p5
      <3> QED BY <2>1, <2>2, <2>3, <1>22, <1>13, IfReads DEF r5
    <2> QED BY <2>4, <1>4, <1>7, <1>13, ReadsOn DEF w5
  <1>15. ~r5.threw => x = v
    <2>1. ASSUME ~r5.threw
          PROVE  /\ r2.value = AsBit(int > 0) /\ r3.value = sign /\ r4.value = n4 /\ r5.value = frac
      BY <2>1, <1>9, <1>10, <1>12, <1>13, <1>14, ReadsValue
    <2>2. int > 0 => n4 + 1 = int
      BY <1>1
    <2>3. ~(int > 0) => int = 0
      BY <1>1
    <2>4. ASSUME ~r5.threw PROVE whole = int
      <3> HIDE DEF n4
      <3> QED BY <2>1, <2>2, <2>3, <2>4, <1>6, Zenon
    <2> HIDE DEF n4, whole
    <2> QED BY <2>1, <2>4, <1>1, Zenon
  <1> HIDE DEF x
  <1>16. Reads(r, Returning(r5, x), w5, v)
    BY <1>14, <1>15, ReturningReads
  <1> QED BY <1>3, <1>5, <1>7, <1>16

FitsNormal(v) == v \in -2047..2047
EncodeNormal(v) == Bit(v < 0) \o Bits(Magnitude(v), 11)

LEMMA NormalReads ==
  ASSUME NEW r, IsReader(r), NEW v, FitsNormal(v), Carries(r, EncodeNormal(v))
  PROVE  EncodeNormal(v) \in BitStrings /\ Reads(r, ReadBitNormal(r), EncodeNormal(v), v)
  <1> USE DEF EncodeNormal
  <1> DEFINE m == Magnitude(v)
             sign == AsBit(v < 0)
             e1 == <<sign>>
             e2 == Bits(m, 11)
             r1 == ReadBit(r)
             r2 == ReadBits(r1, 11)
  <1>1. m \in Nat /\ m <= 2047 /\ sign \in {0, 1} /\ Signed(sign, m) = v
    BY SMT DEF Magnitude, AsBit, Signed, FitsNormal
  <1>2. Bit(v < 0) = e1
    BY DEF Bit, AsBit
  <1>3. ReadBitNormal(r) = Returning(r2, Signed(r1.value, r2.value))
    BY DEF ReadBitNormal
  <1> HIDE DEF m, sign, r1, r2
  <1>4. Fits(m, 11)
    <2>1. m \in Nat /\ m < Pow2(11)
      BY <1>1, PowerValues, SMT
    <2> QED BY <2>1, SmallFits
  <1>40. sign \in {0, 1} /\ Signed(sign, m) = v
    BY <1>1, SMT
  <1>5. e1 \in BitStrings /\ e2 \in BitStrings
    BY <1>40, <1>4, FitsBits, SingleBit
  <1>6. Carries(r, e1 \o e2) /\ Carries(r, e1)
    <2>1. Carries(r, e1 \o e2)
      BY <1>2 DEF m
    <2> HIDE DEF e1, e2
    <2> QED BY <2>1, <1>5, CarriesFirst
  <1>7. Reads(r, r1, e1, sign)
    BY <1>40, <1>6, BitReads DEF r1
  <1>8. Carries(r1, e2) /\ IsReader(r1)
    <2> HIDE DEF e1, e2
    <2> QED BY <1>5, <1>6, <1>7, CarriesOn
  <1>9. Reads(r1, r2, e2, m)
    BY <1>4, <1>8, FieldReads DEF r2
  <1> HIDE DEF e1, e2
  <1>10. Reads(r, r2, e1 \o e2, m)
    BY <1>5, <1>7, <1>9, ReadsOn
  <1>11. ~r2.threw => Signed(r1.value, r2.value) = v
    BY <1>40, <1>7, <1>9, ReadsValue
  <1>12. Reads(r, Returning(r2, Signed(r1.value, r2.value)), e1 \o e2, v)
    BY <1>10, <1>11, ReturningReads
  <1>13. e1 \o e2 \in BitStrings
    BY <1>5, Joined
  <1> QED BY <1>2, <1>3, <1>12, <1>13 DEF e2, m

LEMMA CellParts ==
  ASSUME NEW v, NEW n, NEW unit \in {1, 8, 32}, FitsCell(v, n, unit)
  PROVE  /\ v \div unit \in Nat /\ v % unit \in Nat /\ v % unit < unit
         /\ (v \div unit) * unit + (v % unit) = v
         /\ Fits(v \div unit, n)
  <1>1. v \in Nat
    <2>1. MaxNumber \in Nat
      BY SMT DEF MaxNumber
    <2>2. v \in 0..MaxNumber
      BY DEF FitsCell
    <2> QED BY <2>1, <2>2
  <1>2. /\ v \div unit \in Nat /\ v % unit \in Nat /\ v % unit < unit
        /\ (v \div unit) * unit + (v % unit) = v
    <2>1. CASE unit = 1
      BY <1>1, <2>1
    <2>2. CASE unit = 8
      BY <1>1, <2>2
    <2>3. CASE unit = 32
      BY <1>1, <2>3
    <2> QED BY <2>1, <2>2, <2>3
  <1> QED BY <1>2 DEF FitsCell

LEMMA CellReads ==
  ASSUME NEW r, IsReader(r), NEW v, NEW n, NEW integral \in BOOLEAN, NEW fracBits \in {3, 5}, NEW parts,
         parts = (IF integral THEN 0 ELSE fracBits), FitsCell(v, n, Pow2(parts)), Carries(r, EncodeCellCoord(v, n, parts))
  PROVE  /\ EncodeCellCoord(v, n, parts) \in BitStrings
         /\ Reads(r, ReadBitCellCoord(r, n, integral, fracBits), EncodeCellCoord(v, n, parts), v)
  <1> DEFINE unit == Pow2(parts)
             int == v \div unit
             frac == v % unit
             e1 == Bits(int, n)
             e2 == Bits(frac, parts)
             r1 == ReadBits(r, n)
             p2 == ~integral
             r2 == ReadBitsIf(r1, p2, fracBits)
             x == IF integral THEN r1.value ELSE r1.value * Pow2(fracBits) + r2.value
  <1>0. unit \in {1, 8, 32} /\ unit \in Nat /\ parts \in 0..30 /\ (integral => unit = 1)
    BY PowerValues, SMT
  <1>1. int \in Nat /\ frac \in Nat /\ frac < unit /\ int * unit + frac = v /\ Fits(int, n)
    <2>1. FitsCell(v, n, unit)
      OBVIOUS
    <2> HIDE DEF unit
    <2> QED BY <1>0, <2>1, CellParts
  <1>2. EncodeCellCoord(v, n, parts) = e1 \o e2
    BY Zenon DEF EncodeCellCoord, Pow2
  <1>3. ReadBitCellCoord(r, n, integral, fracBits) = Returning(r2, x)
    BY Zenon DEF ReadBitCellCoord, Pow2
  <1>4. Fits(frac, parts)
    <2> HIDE DEF frac
    <2> QED BY <1>0, <1>1, SmallFits
  <1>5. e1 \in BitStrings /\ e2 \in BitStrings
    BY <1>1, <1>4, FitsBits
  <1>6. e2 = (IF p2 THEN Bits(frac, fracBits) ELSE <<>>)
    <2>1. CASE integral
      <3>1. Len(e2) = 0 /\ e2 \in Seq({0, 1})
        BY <1>4, <2>1, <1>5, FitsBits DEF BitStrings
      <3> HIDE DEF e2
      <3>2. e2 = <<>>
        BY <3>1, EmptySeq
      <3> QED BY <3>2, <2>1
    <2>2. CASE ~integral
      BY <2>2
    <2> QED BY <2>1, <2>2
  <1>7. ~p2 => frac = 0
    <2> HIDE DEF frac, unit
    <2> QED BY <1>0, <1>1
  <1>8. p2 => Fits(frac, fracBits)
    BY <1>4
  <1> HIDE DEF int, frac, unit, r1, r2
  <1>9. Carries(r, e1 \o e2) /\ Carries(r, e1)
    <2>1. Carries(r, e1 \o e2)
      BY <1>2
    <2> HIDE DEF e1, e2
    <2> QED BY <2>1, <1>5, CarriesFirst
  <1>10. Reads(r, r1, e1, int)
    BY <1>1, <1>9, FieldReads DEF r1
  <1> HIDE DEF e1, e2
  <1>11. Carries(r1, e2) /\ IsReader(r1)
    BY <1>5, <1>9, <1>10, CarriesOn
  <1>12. Reads(r1, r2, e2, frac)
    <2>1. p2 \in BOOLEAN
      OBVIOUS
    <2> HIDE DEF p2
    <2> QED BY <2>1, <1>6, <1>7, <1>8, <1>11, IfReads DEF r2
  <1>13. Reads(r, r2, e1 \o e2, frac)
    BY <1>5, <1>10, <1>12, ReadsOn
  <1>14. ~r2.threw => x = v
    <2>1. ASSUME ~r2.threw PROVE r1.value = int /\ r2.value = frac
      BY <2>1, <1>10, <1>12, ReadsValue
    <2>2. CASE integral
      <3>1. int = v
        BY <1>0, <1>1, <1>7, <2>2
      <3> QED BY <2>1, <2>2, <3>1
    <2>3. CASE ~integral
      BY <2>1, <2>3, <1>1 DEF unit
    <2> QED BY <2>2, <2>3
  <1> HIDE DEF x
  <1>15. Reads(r, Returning(r2, x), e1 \o e2, v)
    BY <1>13, <1>14, ReturningReads
  <1>16. e1 \o e2 \in BitStrings
    BY <1>5, Joined
  <1> QED BY <1>2, <1>3, <1>15, <1>16

LEMMA StepReads ==
  ASSUME NEW r, IsReader(r), NEW v, NEW prop, prop.numBits \in 1..30,
         \E step \in 0..Pow2(prop.numBits) - 1 : Quantized(prop, step) = v,
         NEW sends, sends = (CHOOSE step \in 0..Pow2(prop.numBits) - 1 : Quantized(prop, step) = v),
         Carries(r, Bits(sends, prop.numBits)), NEW read, read = ReadBits(r, prop.numBits)
  PROVE  /\ Bits(sends, prop.numBits) \in BitStrings
         /\ Reads(r, Returning(read, Quantized(prop, read.value)), Bits(sends, prop.numBits), v)
  <1> DEFINE n == prop.numBits
  <1>1. sends \in 0..Pow2(n) - 1 /\ Quantized(prop, sends) = v
    <2> DEFINE P(step) == Quantized(prop, step) = v
               S == 0..Pow2(n) - 1
    <2> HIDE DEF P, S
    <2>1. (\E step \in S : P(step)) => (CHOOSE step \in S : P(step)) \in S /\ P(CHOOSE step \in S : P(step))
      BY Zenon
    <2> QED BY <2>1, Zenon DEF P, S
  <1> HIDE DEF n
  <1>2. Fits(sends, n)
    <2>1. n \in 0..30 /\ Pow2(n) \in Nat
      BY PowerPositive DEF n
    <2>2. sends \in Nat /\ sends < Pow2(n)
      BY <1>1, <2>1
    <2> QED BY <2>1, <2>2, SmallFits
  <1>3. Bits(sends, n) \in BitStrings /\ Reads(r, read, Bits(sends, n), sends)
    BY <1>2, FieldReads DEF n
  <1>4. ~read.threw => Quantized(prop, read.value) = v
    BY <1>1, <1>3, ReadsValue
  <1> QED BY <1>3, <1>4, ReturningReads DEF n

-----------------------------------------------------------------------------
(* A float, in the encoding that its flags choose. *)

LEMMA EncodingOfFlags ==
  ASSUME NEW prop
  PROVE  FloatEncoding(prop) \in {FloatFlags[i] : i \in 1..9} \cup {"QUANTIZED"}
  <1> DEFINE chosen == {i \in DOMAIN FloatFlags : Has(prop, FloatFlags[i])}
             first == CHOOSE i \in chosen : \A j \in chosen : i <= j
  <1>1. DOMAIN FloatFlags = 1..9
    BY DEF FloatFlags
  <1>2. FloatEncoding(prop) = IF chosen = {} THEN "QUANTIZED" ELSE FloatFlags[first]
    BY Zenon DEF FloatEncoding
  <1>3. chosen \in SUBSET (1..9)
    BY <1>1
  <1> HIDE DEF chosen
  <1>4. ASSUME chosen # {} PROVE \E i \in chosen : \A j \in chosen : i <= j
    <2>1. CASE 1 \in chosen
      BY <2>1, <1>3
    <2>2. CASE 2 \in chosen /\ 1 \notin chosen
      BY <2>2, <1>3
    <2>3. CASE 3 \in chosen /\ 1 \notin chosen /\ 2 \notin chosen
      BY <2>3, <1>3
    <2>4. CASE 4 \in chosen /\ 1 \notin chosen /\ 2 \notin chosen /\ 3 \notin chosen
      BY <2>4, <1>3
    <2>5. CASE 5 \in chosen /\ 1 \notin chosen /\ 2 \notin chosen /\ 3 \notin chosen /\ 4 \notin chosen
      BY <2>5, <1>3
    <2>6. CASE 6 \in chosen /\ 1 \notin chosen /\ 2 \notin chosen /\ 3 \notin chosen /\ 4 \notin chosen /\ 5 \notin chosen
      BY <2>6, <1>3
    <2>7. CASE 7 \in chosen /\ 1 \notin chosen /\ 2 \notin chosen /\ 3 \notin chosen /\ 4 \notin chosen /\ 5 \notin chosen /\ 6 \notin chosen
      BY <2>7, <1>3
    <2>8. CASE 8 \in chosen /\ 1 \notin chosen /\ 2 \notin chosen /\ 3 \notin chosen /\ 4 \notin chosen /\ 5 \notin chosen /\ 6 \notin chosen /\ 7 \notin chosen
      BY <2>8, <1>3
    <2>9. CASE 9 \in chosen /\ 1 \notin chosen /\ 2 \notin chosen /\ 3 \notin chosen /\ 4 \notin chosen /\ 5 \notin chosen /\ 6 \notin chosen /\ 7 \notin chosen /\ 8 \notin chosen
      BY <2>9, <1>3
    <2>10. \/ 1 \in chosen \/ 2 \in chosen \/ 3 \in chosen \/ 4 \in chosen \/ 5 \in chosen
           \/ 6 \in chosen \/ 7 \in chosen \/ 8 \in chosen \/ 9 \in chosen
      <3>1. PICK i : i \in chosen
        BY <1>4, Zenon
      <3>2. i \in 1..9
        BY <3>1, <1>3
      <3>3. i = 1 \/ i = 2 \/ i = 3 \/ i = 4 \/ i = 5 \/ i = 6 \/ i = 7 \/ i = 8 \/ i = 9
        BY <3>2
      <3> QED BY <3>1, <3>3, Zenon
    <2> QED BY <2>1, <2>2, <2>3, <2>4, <2>5, <2>6, <2>7, <2>8, <2>9, <2>10, Zenon
  <1>5. CASE chosen # {}
    <2>1. first \in chosen
      BY <1>4, <1>5, Zenon
    <2> HIDE DEF first
    <2> QED BY <2>1, <1>2, <1>3, <1>5
  <1>6. CASE chosen = {}
    BY <1>2, <1>6
  <1> QED BY <1>5, <1>6

LEMMA EncodingCases ==
  ASSUME NEW prop
  PROVE  \/ FloatEncoding(prop) = "COORD" \/ FloatEncoding(prop) = "COORD_MP"
         \/ FloatEncoding(prop) = "COORD_MP_LP" \/ FloatEncoding(prop) = "COORD_MP_INT"
         \/ FloatEncoding(prop) = "NOSCALE" \/ FloatEncoding(prop) = "NORMAL"
         \/ FloatEncoding(prop) = "CELL_COORD" \/ FloatEncoding(prop) = "CELL_COORD_LP"
         \/ FloatEncoding(prop) = "CELL_COORD_INT" \/ FloatEncoding(prop) = "QUANTIZED"
  <1> DEFINE e == FloatEncoding(prop)
  <1>1. e \in {FloatFlags[i] : i \in 1..9} \cup {"QUANTIZED"}
    BY EncodingOfFlags
  <1> HIDE DEF e
  <1>2. \/ e = FloatFlags[1] \/ e = FloatFlags[2] \/ e = FloatFlags[3] \/ e = FloatFlags[4]
        \/ e = FloatFlags[5] \/ e = FloatFlags[6] \/ e = FloatFlags[7] \/ e = FloatFlags[8]
        \/ e = FloatFlags[9] \/ e = "QUANTIZED"
    BY <1>1
  <1>3. /\ FloatFlags[1] = "COORD" /\ FloatFlags[2] = "COORD_MP" /\ FloatFlags[3] = "COORD_MP_LP"
        /\ FloatFlags[4] = "COORD_MP_INT" /\ FloatFlags[5] = "NOSCALE" /\ FloatFlags[6] = "NORMAL"
        /\ FloatFlags[7] = "CELL_COORD" /\ FloatFlags[8] = "CELL_COORD_LP" /\ FloatFlags[9] = "CELL_COORD_INT"
    BY DEF FloatFlags
  <1> QED BY <1>2, <1>3 DEF e

\* Every float comes back as it was sent.
LEMMA FloatReads ==
  ASSUME NEW r, IsReader(r), NEW prop, NEW v, FitsFloat(prop, v), Carries(r, EncodeFloat(prop, v))
  PROVE  EncodeFloat(prop, v) \in BitStrings /\ Reads(r, DecodeFloat(r, prop), EncodeFloat(prop, v), v)
  <1> DEFINE enc == FloatEncoding(prop)
             e == EncodeFloat(prop, v)
             out == DecodeFloat(r, prop)
  <1>1. CASE enc = "COORD"
    <2>1. FitsCoord(v, 32) /\ e = EncodeCoord(v) /\ out = ReadBitCoord(r)
      BY <1>1 DEF FitsFloat, EncodeFloat, DecodeFloat
    <2>2. Carries(r, EncodeCoord(v))
      BY <2>1
    <2> HIDE DEF e, out, enc
    <2>3. EncodeCoord(v) \in BitStrings /\ Reads(r, ReadBitCoord(r), EncodeCoord(v), v)
      BY <2>1, <2>2, CoordReads
    <2> QED BY <2>1, <2>3 DEF e, out
  <1>2. CASE enc = "COORD_MP"
    <2>1. FitsCoord(v, 32) /\ e = EncodeCoordMP(v, FALSE, 5) /\ out = ReadBitCoordMP(r, FALSE, 5)
      BY <1>2 DEF FitsFloat, EncodeFloat, DecodeFloat
    <2>2. FitsCoord(v, IF FALSE THEN 1 ELSE Pow2(5))
      BY <2>1, PowerValues, SMT
    <2>3. Carries(r, EncodeCoordMP(v, FALSE, 5))
      BY <2>1
    <2> HIDE DEF e, out, enc
    <2>4. EncodeCoordMP(v, FALSE, 5) \in BitStrings /\ Reads(r, ReadBitCoordMP(r, FALSE, 5), EncodeCoordMP(v, FALSE, 5), v)
      BY <2>2, <2>3, CoordMPReads
    <2> QED BY <2>1, <2>4 DEF e, out
  <1>3. CASE enc = "COORD_MP_LP"
    <2>1. FitsCoord(v, 8) /\ e = EncodeCoordMP(v, FALSE, 3) /\ out = ReadBitCoordMP(r, FALSE, 3)
      BY <1>3 DEF FitsFloat, EncodeFloat, DecodeFloat
    <2>2. FitsCoord(v, IF FALSE THEN 1 ELSE Pow2(3))
      BY <2>1, PowerValues, SMT
    <2>3. Carries(r, EncodeCoordMP(v, FALSE, 3))
      BY <2>1
    <2> HIDE DEF e, out, enc
    <2>4. EncodeCoordMP(v, FALSE, 3) \in BitStrings /\ Reads(r, ReadBitCoordMP(r, FALSE, 3), EncodeCoordMP(v, FALSE, 3), v)
      BY <2>2, <2>3, CoordMPReads
    <2> QED BY <2>1, <2>4 DEF e, out
  <1>4. CASE enc = "COORD_MP_INT"
    <2>1. FitsCoord(v, 1) /\ e = EncodeCoordMP(v, TRUE, 5) /\ out = ReadBitCoordMP(r, TRUE, 5)
      BY <1>4 DEF FitsFloat, EncodeFloat, DecodeFloat
    <2>2. FitsCoord(v, IF TRUE THEN 1 ELSE Pow2(5))
      BY <2>1, PowerValues, SMT
    <2>3. Carries(r, EncodeCoordMP(v, TRUE, 5))
      BY <2>1
    <2> HIDE DEF e, out, enc
    <2>4. EncodeCoordMP(v, TRUE, 5) \in BitStrings /\ Reads(r, ReadBitCoordMP(r, TRUE, 5), EncodeCoordMP(v, TRUE, 5), v)
      BY <2>2, <2>3, CoordMPReads
    <2> QED BY <2>1, <2>4 DEF e, out
  <1>5. CASE enc = "NOSCALE"
    <2>1. Fits(v, 32) /\ e = Bits(v, 32) /\ out = ReadBits(r, 32)
      BY <1>5 DEF FitsFloat, EncodeFloat, DecodeFloat
    <2>2. Carries(r, Bits(v, 32))
      BY <2>1
    <2> HIDE DEF e, out, enc
    <2>3. Bits(v, 32) \in BitStrings /\ Reads(r, ReadBits(r, 32), Bits(v, 32), v)
      BY <2>1, <2>2, FieldReads
    <2> QED BY <2>1, <2>3 DEF e, out
  <1>6. CASE enc = "NORMAL"
    <2>1. FitsNormal(v) /\ e = EncodeNormal(v) /\ out = ReadBitNormal(r)
      BY <1>6 DEF FitsFloat, EncodeFloat, DecodeFloat, FitsNormal, EncodeNormal
    <2>2. Carries(r, EncodeNormal(v))
      BY <2>1
    <2> HIDE DEF e, out, enc
    <2>3. EncodeNormal(v) \in BitStrings /\ Reads(r, ReadBitNormal(r), EncodeNormal(v), v)
      BY <2>1, <2>2, NormalReads
    <2> QED BY <2>1, <2>3 DEF e, out
  <1>7. CASE enc = "CELL_COORD"
    <2>1. FitsCell(v, prop.numBits, 32) /\ e = EncodeCellCoord(v, prop.numBits, 5) /\ out = ReadBitCellCoord(r, prop.numBits, FALSE, 5)
      BY <1>7 DEF FitsFloat, EncodeFloat, DecodeFloat
    <2>2. FitsCell(v, prop.numBits, Pow2(5)) /\ 5 = (IF FALSE THEN 0 ELSE 5)
      BY <2>1, PowerValues, SMT
    <2>3. Carries(r, EncodeCellCoord(v, prop.numBits, 5))
      BY <2>1
    <2> HIDE DEF e, out, enc
    <2>4. EncodeCellCoord(v, prop.numBits, 5) \in BitStrings /\ Reads(r, ReadBitCellCoord(r, prop.numBits, FALSE, 5), EncodeCellCoord(v, prop.numBits, 5), v)
      BY <2>2, <2>3, CellReads
    <2> QED BY <2>1, <2>4 DEF e, out
  <1>8. CASE enc = "CELL_COORD_LP"
    <2>1. FitsCell(v, prop.numBits, 8) /\ e = EncodeCellCoord(v, prop.numBits, 3) /\ out = ReadBitCellCoord(r, prop.numBits, FALSE, 3)
      BY <1>8 DEF FitsFloat, EncodeFloat, DecodeFloat
    <2>2. FitsCell(v, prop.numBits, Pow2(3)) /\ 3 = (IF FALSE THEN 0 ELSE 3)
      BY <2>1, PowerValues, SMT
    <2>3. Carries(r, EncodeCellCoord(v, prop.numBits, 3))
      BY <2>1
    <2> HIDE DEF e, out, enc
    <2>4. EncodeCellCoord(v, prop.numBits, 3) \in BitStrings /\ Reads(r, ReadBitCellCoord(r, prop.numBits, FALSE, 3), EncodeCellCoord(v, prop.numBits, 3), v)
      BY <2>2, <2>3, CellReads
    <2> QED BY <2>1, <2>4 DEF e, out
  <1>9. CASE enc = "CELL_COORD_INT"
    <2>1. FitsCell(v, prop.numBits, 1) /\ e = EncodeCellCoord(v, prop.numBits, 0) /\ out = ReadBitCellCoord(r, prop.numBits, TRUE, 5)
      BY <1>9 DEF FitsFloat, EncodeFloat, DecodeFloat
    <2>2. FitsCell(v, prop.numBits, Pow2(0)) /\ 0 = (IF TRUE THEN 0 ELSE 5)
      BY <2>1, PowerValues, SMT
    <2>3. Carries(r, EncodeCellCoord(v, prop.numBits, 0))
      BY <2>1
    <2> HIDE DEF e, out, enc
    <2>4. EncodeCellCoord(v, prop.numBits, 0) \in BitStrings /\ Reads(r, ReadBitCellCoord(r, prop.numBits, TRUE, 5), EncodeCellCoord(v, prop.numBits, 0), v)
      BY <2>2, <2>3, CellReads
    <2> QED BY <2>1, <2>4 DEF e, out
  <1>10. CASE enc = "QUANTIZED"
    <2> DEFINE sends == CHOOSE step \in 0..Pow2(prop.numBits) - 1 : Quantized(prop, step) = v
               read == ReadBits(r, prop.numBits)
    <2>1. /\ prop.numBits \in 1..30 /\ \E step \in 0..Pow2(prop.numBits) - 1 : Quantized(prop, step) = v
          /\ e = Bits(sends, prop.numBits)
          /\ out = Returning(read, Quantized(prop, read.value))
      BY <1>10 DEF FitsFloat, EncodeFloat, DecodeFloat, Pow2
    <2>2. Carries(r, Bits(sends, prop.numBits))
      BY <2>1
    <2> HIDE DEF e, out, enc, sends, read
    <2>3. sends = (CHOOSE step \in 0..Pow2(prop.numBits) - 1 : Quantized(prop, step) = v)
          /\ read = ReadBits(r, prop.numBits)
      BY DEF sends, read
    <2>4. Bits(sends, prop.numBits) \in BitStrings
          /\ Reads(r, Returning(read, Quantized(prop, read.value)), Bits(sends, prop.numBits), v)
      BY <2>1, <2>2, <2>3, StepReads
    <2> QED BY <2>1, <2>4 DEF e, out
  <1> QED BY <1>1, <1>2, <1>3, <1>4, <1>5, <1>6, <1>7, <1>8, <1>9, <1>10, EncodingCases

-----------------------------------------------------------------------------
(* The encodings of a sequence, one behind the other. *)

\* What FlattenSeq computes, step by step.
Flattens(g, s, n) == g = [i \in 1..n |-> IF i = 1 THEN s[i] ELSE g[i - 1] \o s[i]]

LEMMA FlattensExists ==
  ASSUME NEW s, NEW n \in Nat
  PROVE  \E g : Flattens(g, s, n)
  <1> DEFINE G == {k \in 0..n : \E g : Flattens(g, s, k)}
  <1>1. 0 \in G
    <2> DEFINE g == [i \in 1..0 |-> 0]
    <2>1. g = [i \in 1..0 |-> IF i = 1 THEN s[i] ELSE g[i - 1] \o s[i]]
      OBVIOUS
    <2>2. Flattens(g, s, 0)
      BY <2>1, Zenon DEF Flattens
    <2> QED BY <2>2
  <1>2. ASSUME NEW k \in 0..n - 1, k \in G PROVE k + 1 \in G
    <2>1. PICK g : Flattens(g, s, k)
      BY <1>2
    <2> DEFINE last == IF k + 1 = 1 THEN s[k + 1] ELSE g[k] \o s[k + 1]
               h == [i \in 1..k + 1 |-> IF i = k + 1 THEN last ELSE g[i]]
    <2>2. ASSUME NEW i \in 1..k + 1
          PROVE  h[i] = IF i = 1 THEN s[i] ELSE h[i - 1] \o s[i]
      <3>1. CASE i = k + 1
        <4>1. h[i] = last
          BY <3>1
        <4>2. CASE k = 0
          BY <4>1, <4>2, <3>1
        <4>3. CASE k # 0
          <5>1. h[k] = g[k] /\ i # 1 /\ i - 1 = k
            BY <4>3, <3>1
          <5> HIDE DEF h
          <5> QED BY <5>1, <4>1, <3>1
        <4> QED BY <4>2, <4>3
      <3>2. CASE i # k + 1
        <4>1. i \in 1..k /\ h[i] = g[i]
          BY <3>2
        <4>2. g[i] = IF i = 1 THEN s[i] ELSE g[i - 1] \o s[i]
          BY <2>1, <4>1, Zenon DEF Flattens
        <4>3. i # 1 => h[i - 1] = g[i - 1]
          BY <4>1
        <4> HIDE DEF h
        <4> QED BY <4>1, <4>2, <4>3
      <3> QED BY <3>1, <3>2
    <2>3. Flattens(h, s, k + 1)
      <3>1. h = [i \in 1..k + 1 |-> h[i]]
        OBVIOUS
      <3> HIDE DEF h
      <3>2. h = [i \in 1..k + 1 |-> IF i = 1 THEN s[i] ELSE h[i - 1] \o s[i]]
        BY <2>2, <3>1
      <3> QED BY <3>2, Zenon DEF Flattens
    <2> QED BY <2>3
  <1> HIDE DEF G
  <1>3. \A k \in 0..n : k \in G
    BY <1>1, <1>2, IntervalInduction
  <1>4. n \in 0..n
    OBVIOUS
  <1> QED BY <1>3, <1>4 DEF G

LEMMA FlattensAgree ==
  ASSUME NEW s, NEW t, NEW n \in Nat, NEW m \in Nat, n <= m, \A i \in 1..n : s[i] = t[i],
         NEW g, NEW h, Flattens(g, s, n), Flattens(h, t, m)
  PROVE  \A i \in 1..n : g[i] = h[i]
  <1> DEFINE G == {k \in 0..n : k # 0 => g[k] = h[k]}
  <1>1. 0 \in G
    OBVIOUS
  <1>2. ASSUME NEW k \in 0..n - 1, k \in G PROVE k + 1 \in G
    <2>1. k + 1 \in 1..n /\ k + 1 \in 1..m /\ (k + 1) - 1 = k
      OBVIOUS
    <2>2. g[k + 1] = IF k + 1 = 1 THEN s[k + 1] ELSE g[(k + 1) - 1] \o s[k + 1]
      BY <2>1, Zenon DEF Flattens
    <2>3. h[k + 1] = IF k + 1 = 1 THEN t[k + 1] ELSE h[(k + 1) - 1] \o t[k + 1]
      BY <2>1, Zenon DEF Flattens
    <2>4. s[k + 1] = t[k + 1]
      BY <2>1
    <2>5. k = 0 \/ g[k] = h[k]
      BY <1>2
    <2>6. g[k + 1] = h[k + 1]
      BY <2>1, <2>2, <2>3, <2>4, <2>5
    <2> QED BY <2>6
  <1> HIDE DEF G
  <1>3. \A k \in 0..n : k \in G
    BY <1>1, <1>2, IntervalInduction
  <1> QED BY <1>3 DEF G

LEMMA FlattenSeqIs ==
  ASSUME NEW s, NEW n \in Nat, n > 0, Len(s) = n, NEW g, Flattens(g, s, n)
  PROVE  FlattenSeq(s) = g[n]
  <1> DEFINE h == CHOOSE f : Flattens(f, s, Len(s))
  <1>1. FlattenSeq(s) = h[Len(s)]
    <2>1. ~(Len(s) = 0)
      OBVIOUS
    <2> QED BY <2>1, Zenon DEF FlattenSeq, Flattens
  <1>2. Flattens(h, s, n)
    BY Zenon
  <1> HIDE DEF h
  <1>3. n \in 1..n /\ \A i \in 1..n : g[i] = h[i]
    BY <1>2, FlattensAgree
  <1> QED BY <1>1, <1>3

\* The first k encodings of a sequence.
FlatTo(s, k) == FlattenSeq([i \in 1..k |-> s[i]])

LEMMA FlatSteps ==
  ASSUME NEW S, NEW s, NEW n \in Nat, \A i \in 1..n : s[i] \in Seq(S)
  PROVE  /\ FlatTo(s, 0) = <<>>
         /\ \A k \in 0..n - 1 : FlatTo(s, k + 1) = FlatTo(s, k) \o s[k + 1]
         /\ \A k \in 0..n : FlatTo(s, k) \in Seq(S)
  <1>1. FlatTo(s, 0) = <<>>
    <2> DEFINE e == [i \in 1..0 |-> s[i]]
    <2>1. e = <<>>
      OBVIOUS
    <2> HIDE DEF e
    <2>2. FlattenSeq(e) = e
      BY <2>1 DEF FlattenSeq
    <2> QED BY <2>1, <2>2 DEF FlatTo, e
  <1>2. PICK g : Flattens(g, s, n)
    BY FlattensExists
  <1>3. ASSUME NEW k \in 1..n PROVE FlatTo(s, k) = g[k]
    <2> DEFINE t == [i \in 1..k |-> s[i]]
    <2>1. Len(t) = k /\ k \in Nat /\ k > 0 /\ k <= n /\ k \in 1..k /\ \A i \in 1..k : t[i] = s[i]
      OBVIOUS
    <2> HIDE DEF t
    <2>2. PICK h : Flattens(h, t, k)
      BY <2>1, FlattensExists
    <2>3. FlattenSeq(t) = h[k]
      BY <2>1, <2>2, FlattenSeqIs
    <2>4. \A i \in 1..k : h[i] = g[i]
      <3>1. k \in Nat /\ k <= n /\ \A i \in 1..k : t[i] = s[i]
        BY <2>1
      <3>2. Flattens(h, t, k) /\ Flattens(g, s, n) /\ k \in Nat /\ n \in Nat
        BY <1>2, <2>2, <3>1
      <3> QED BY <3>1, <3>2, FlattensAgree
    <2> QED BY <2>1, <2>3, <2>4 DEF FlatTo, t
  <1>4. ASSUME NEW k \in 1..n PROVE g[k] = IF k = 1 THEN s[k] ELSE g[k - 1] \o s[k]
    BY <1>2, Zenon DEF Flattens
  <1>5. ASSUME NEW k \in 0..n - 1 PROVE FlatTo(s, k + 1) = FlatTo(s, k) \o s[k + 1]
    <2>1. k + 1 \in 1..n /\ (k + 1) - 1 = k
      OBVIOUS
    <2>2. FlatTo(s, k + 1) = IF k + 1 = 1 THEN s[k + 1] ELSE g[(k + 1) - 1] \o s[k + 1]
      BY <2>1, <1>3, <1>4, Zenon
    <2>3. CASE k = 0
      <3>1. s[k + 1] \in Seq(S)
        BY <2>1
      <3>2. <<>> \o s[k + 1] = s[k + 1]
        BY <3>1
      <3>3. FlatTo(s, k + 1) = s[k + 1]
        BY <2>2, <2>3
      <3>4. FlatTo(s, k) = <<>>
        BY <1>1, <2>3
      <3> QED BY <3>2, <3>3, <3>4
    <2>4. CASE k # 0
      <3>1. k \in 1..n
        BY <2>4
      <3>2. FlatTo(s, k) = g[k]
        BY <3>1, <1>3
      <3>3. FlatTo(s, k + 1) = g[k] \o s[k + 1]
        <4>1. k + 1 # 1 /\ (k + 1) - 1 = k
          BY <2>4
        <4> QED BY <4>1, <2>2, Zenon
      <3> QED BY <3>2, <3>3
    <2> QED BY <2>3, <2>4
  <1> DEFINE G == {k \in 0..n : FlatTo(s, k) \in Seq(S)}
  <1>6. 0 \in G
    <2>1. <<>> \in Seq(S) /\ 0 \in 0..n
      OBVIOUS
    <2> QED BY <1>1, <2>1, Zenon
  <1>7. ASSUME NEW k \in 0..n - 1, k \in G PROVE k + 1 \in G
    <2>1. k + 1 \in 1..n /\ FlatTo(s, k) \in Seq(S)
      BY <1>7
    <2>2. FlatTo(s, k) \o s[k + 1] \in Seq(S)
      BY <2>1
    <2>3. FlatTo(s, k + 1) = FlatTo(s, k) \o s[k + 1]
      BY <1>5
    <2>4. k + 1 \in 0..n
      OBVIOUS
    <2> QED BY <2>2, <2>3, <2>4, Zenon
  <1> HIDE DEF G
  <1>8. \A k \in 0..n : k \in G
    BY <1>6, <1>7, IntervalInduction
  <1> QED BY <1>1, <1>5, <1>8 DEF G

LEMMA FlatToStep ==
  ASSUME NEW s, NEW n \in Nat, \A i \in 1..n : s[i] \in BitStrings
  PROVE  /\ FlatTo(s, 0) = <<>>
         /\ \A k \in 0..n - 1 : FlatTo(s, k + 1) = FlatTo(s, k) \o s[k + 1]
         /\ \A k \in 0..n : FlatTo(s, k) \in BitStrings
  BY FlatSteps DEF BitStrings

LEMMA FlatToAll ==
  ASSUME NEW s, NEW n \in Nat, s = [i \in 1..n |-> s[i]]
  PROVE  FlatTo(s, n) = FlattenSeq(s)
  BY DEF FlatTo

\* What a sequence of bits begins with.
Starts(d, w) == \E rest \in BitStrings : w = d \o rest

LEMMA JoinAssoc ==
  ASSUME NEW a \in BitStrings, NEW b \in BitStrings, NEW c \in BitStrings
  PROVE  (a \o b) \o c = a \o (b \o c)
  BY ConcatAssociative DEF BitStrings

LEMMA JoinEmpty ==
  ASSUME NEW a \in BitStrings
  PROVE  a \o <<>> = a /\ <<>> \o a = a
  BY DEF BitStrings

LEMMA StartsAtOnce ==
  ASSUME NEW d \in BitStrings
  PROVE  Starts(d, d)
  BY NoBits, JoinEmpty DEF Starts

LEMMA StartsOn ==
  ASSUME NEW d \in BitStrings, NEW w \in BitStrings, Starts(d, w), NEW e \in BitStrings
  PROVE  Starts(d, w \o e)
  <1>1. PICK rest \in BitStrings : w = d \o rest
    BY DEF Starts
  <1>2. w \o e = d \o (rest \o e) /\ rest \o e \in BitStrings
    <2>1. rest \o e \in BitStrings
      BY Joined
    <2>2. (d \o rest) \o e = d \o (rest \o e)
      BY JoinAssoc
    <2> QED BY <1>1, <2>1, <2>2
  <1> QED BY <1>2 DEF Starts

LEMMA StartsBehind ==
  ASSUME NEW d \in BitStrings, NEW w \in BitStrings, Starts(d, w), NEW a \in BitStrings
  PROVE  Starts(a \o d, a \o w)
  <1>1. PICK rest \in BitStrings : w = d \o rest
    BY DEF Starts
  <1>2. a \o w = (a \o d) \o rest
    BY <1>1, JoinAssoc
  <1> QED BY <1>2 DEF Starts

LEMMA StartsThen ==
  ASSUME NEW d \in BitStrings, NEW w \in BitStrings, NEW x \in BitStrings, Starts(d, w), Starts(w, x)
  PROVE  Starts(d, x)
  <1>1. PICK rest \in BitStrings : x = w \o rest
    BY DEF Starts
  <1> QED BY <1>1, StartsOn

LEMMA StartsLength ==
  ASSUME NEW d \in BitStrings, NEW w \in BitStrings, Starts(d, w)
  PROVE  /\ Len(d) \in Nat /\ Len(w) \in Nat /\ Len(d) <= Len(w)
         /\ \A k \in 1..Len(d) : w[k] = d[k]
  <1>1. PICK rest \in BitStrings : w = d \o rest
    BY DEF Starts
  <1>2. Len(d) \in Nat /\ Len(rest) \in Nat /\ Len(w) = Len(d) + Len(rest) /\ \A k \in 1..Len(d) : w[k] = d[k]
    BY <1>1, Joined
  <1> QED BY <1>2

LEMMA StartsFlat ==
  ASSUME NEW s, NEW n \in Nat, \A i \in 1..n : s[i] \in BitStrings, NEW k \in 0..n
  PROVE  Starts(FlatTo(s, k), FlatTo(s, n))
  <1> DEFINE G == {i \in 0..n : i >= k => Starts(FlatTo(s, k), FlatTo(s, i))}
  <1>0. /\ \A i \in 0..n - 1 : FlatTo(s, i + 1) = FlatTo(s, i) \o s[i + 1]
        /\ \A i \in 0..n : FlatTo(s, i) \in BitStrings
    BY FlatToStep
  <1>1. 0 \in G
    <2>1. 0 >= k => k = 0
      OBVIOUS
    <2> QED BY <2>1, <1>0, StartsAtOnce
  <1>2. ASSUME NEW i \in 0..n - 1, i \in G PROVE i + 1 \in G
    <2>1. i + 1 \in 1..n /\ i + 1 \in 0..n /\ i \in 0..n
      OBVIOUS
    <2>2. FlatTo(s, i + 1) = FlatTo(s, i) \o s[i + 1]
      BY <1>0
    <2>3. CASE i >= k
      <3>1. Starts(FlatTo(s, k), FlatTo(s, i) \o s[i + 1])
        BY <1>0, <1>2, <2>1, <2>3, StartsOn
      <3> QED BY <3>1, <2>1, <2>2
    <2>4. CASE ~(i >= k)
      <3>1. i + 1 >= k => i + 1 = k
        BY <2>4
      <3> QED BY <3>1, <2>1, <1>0, StartsAtOnce
    <2> QED BY <2>3, <2>4
  <1> HIDE DEF G
  <1>3. \A i \in 0..n : i \in G
    BY <1>1, <1>2, IntervalInduction
  <1>4. n \in 0..n /\ n >= k
    OBVIOUS
  <1> QED BY <1>3, <1>4 DEF G

\* The next encoding of a sequence, behind the first k.
LEMMA NextStarts ==
  ASSUME NEW s, NEW n \in Nat, \A i \in 1..n : s[i] \in BitStrings, NEW k \in 0..n - 1
  PROVE  /\ FlatTo(s, k + 1) = FlatTo(s, k) \o s[k + 1]
         /\ FlatTo(s, k) \in BitStrings /\ s[k + 1] \in BitStrings /\ FlatTo(s, n) \in BitStrings
         /\ Starts(FlatTo(s, k) \o s[k + 1], FlatTo(s, n))
  <1>1. k + 1 \in 1..n /\ k + 1 \in 0..n /\ k \in 0..n /\ n \in 0..n
    OBVIOUS
  <1>2. FlatTo(s, k + 1) = FlatTo(s, k) \o s[k + 1] /\ FlatTo(s, k) \in BitStrings /\ FlatTo(s, n) \in BitStrings
    BY <1>1, FlatToStep
  <1>3. Starts(FlatTo(s, k + 1), FlatTo(s, n))
    BY <1>1, StartsFlat
  <1> QED BY <1>1, <1>2, <1>3

\* What a reader carries goes on with what starts behind the part that was read.
LEMMA CarriesNext ==
  ASSUME NEW r, IsReader(r), NEW w \in BitStrings, Carries(r, w),
         NEW d \in BitStrings, NEW e \in BitStrings, Starts(d \o e, w), NEW out, NEW v, Reads(r, out, d, v)
  PROVE  Carries(out, e) /\ IsReader(out)
  <1>1. d \o e \in BitStrings
    BY Joined
  <1>2. PICK rest \in BitStrings : w = (d \o e) \o rest
    BY DEF Starts
  <1>3. Carries(r, d \o e)
    BY <1>1, <1>2, CarriesFirst
  <1> QED BY <1>3, CarriesOn

-----------------------------------------------------------------------------
(* Texts: the length, then the bytes. *)

LEMMA ByteFits ==
  ASSUME NEW v \in 0..255
  PROVE  Fits(v, 8) /\ Bits(v, 8) \in BitStrings /\ Len(Bits(v, 8)) = 8
         /\ v \in Nat /\ v < Pow2(8) /\ v <= MaxNumber
  <1>1. v \in Nat /\ v < Pow2(8) /\ v <= MaxNumber
    BY PowerValues, SMT DEF MaxNumber
  <1>2. Fits(v, 8)
    BY <1>1, SmallFits
  <1> QED BY <1>1, <1>2, FitsBits

\* The bytes of a text as bits.
ByteBits(v) == [i \in DOMAIN v |-> Bits(v[i], 8)]

LEMMA BytesLength ==
  ASSUME NEW v \in Seq(0..255)
  PROVE  /\ Len(v) \in Nat /\ DOMAIN v = 1..Len(v)
         /\ \A i \in 1..Len(v) : ByteBits(v)[i] = Bits(v[i], 8) /\ ByteBits(v)[i] \in BitStrings
         /\ \A k \in 0..Len(v) : FlatTo(ByteBits(v), k) \in BitStrings /\ Len(FlatTo(ByteBits(v), k)) = 8 * k
         /\ FlatTo(ByteBits(v), Len(v)) = FlattenSeq(ByteBits(v))
  <1> DEFINE n == Len(v)
             s == ByteBits(v)
             G == {k \in 0..n : Len(FlatTo(s, k)) = 8 * k}
  <1>0. n \in Nat /\ DOMAIN v = 1..n
    OBVIOUS
  <1>1. ASSUME NEW i \in 1..n
        PROVE  s[i] = Bits(v[i], 8) /\ s[i] \in BitStrings /\ Len(s[i]) = 8
    <2>1. v[i] \in 0..255
      BY ElementOfSeq
    <2>2. s[i] = Bits(v[i], 8)
      BY <1>0 DEF ByteBits
    <2> QED BY <2>1, <2>2, ByteFits
  <1>2. s = [i \in 1..n |-> s[i]]
    BY <1>0 DEF ByteBits
  <1> HIDE DEF s, n
  <1>3. /\ FlatTo(s, 0) = <<>>
        /\ \A k \in 0..n - 1 : FlatTo(s, k + 1) = FlatTo(s, k) \o s[k + 1]
        /\ \A k \in 0..n : FlatTo(s, k) \in BitStrings
    BY <1>0, <1>1, FlatToStep
  <1>4. 0 \in G
    BY <1>0, <1>3, NoBits
  <1>5. ASSUME NEW k \in 0..n - 1, k \in G PROVE k + 1 \in G
    <2>1. k + 1 \in 1..n /\ k + 1 \in 0..n /\ k \in 0..n
      BY <1>0
    <2>2. Len(FlatTo(s, k)) = 8 * k
      BY <1>5
    <2>3. FlatTo(s, k + 1) = FlatTo(s, k) \o s[k + 1]
      BY <1>3
    <2>4. Len(FlatTo(s, k) \o s[k + 1]) = Len(FlatTo(s, k)) + Len(s[k + 1])
      BY <1>1, <1>3, <2>1, Joined
    <2>5. Len(FlatTo(s, k + 1)) = 8 * k + 8
      BY <1>1, <2>1, <2>2, <2>3, <2>4
    <2>6. 8 * k + 8 = 8 * (k + 1)
      BY <1>0
    <2> QED BY <2>1, <2>5, <2>6
  <1> HIDE DEF G
  <1>6. \A k \in 0..n : k \in G
    BY <1>0, <1>4, <1>5, IntervalInduction
  <1>7. FlatTo(s, n) = FlattenSeq(s)
    BY <1>0, <1>2, FlatToAll
  <1>8. \A k \in 0..n : Len(FlatTo(s, k)) = 8 * k
    BY <1>6 DEF G
  <1> QED BY <1>0, <1>1, <1>3, <1>7, <1>8 DEF s, n

LEMMA WholeBytes ==
  ASSUME NEW c \in Nat, NEW j \in Nat
  PROVE  (c + 8 * j) \div 8 = c \div 8 + j /\ (c + 8 * j) % 8 = c % 8 /\ c % 8 \in 0..7 /\ c \div 8 \in Nat
  OBVIOUS

LEMMA BytesRead ==
  ASSUME NEW r, IsReader(r), NEW v \in Seq(0..255), NEW m, ~r.threw => m = Len(v),
         NEW e, e = FlattenSeq(ByteBits(v)), Carries(r, e)
  PROVE  e \in BitStrings /\ Reads(r, ReadBytes(r, m), e, v)
  <1> DEFINE n == Len(v)
             s == ByteBits(v)
             c == r.cursor
  <1>0. /\ n \in Nat /\ DOMAIN v = 1..n
        /\ \A i \in 1..n : s[i] = Bits(v[i], 8) /\ s[i] \in BitStrings
        /\ \A k \in 0..n : FlatTo(s, k) \in BitStrings /\ Len(FlatTo(s, k)) = 8 * k
        /\ FlatTo(s, n) = e
    BY BytesLength
  <1>1. e \in BitStrings /\ Len(e) = 8 * n /\ n \in 0..n
    BY <1>0
  <1>2. c \in Nat /\ Len(r.bits) \in Nat
    BY ReaderRange
  <1>3. CASE r.threw
    <2>1. ReadBytes(r, m) = Throwing(r)
      BY <1>3 DEF ReadBytes
    <2>2. Takes(r, Throwing(r), Len(e), v)
      BY <1>0, <1>1, <1>3, ThrowingThrows
    <2> QED BY <1>1, <2>1, <2>2 DEF Reads
  <1>4. CASE ~r.threw /\ c + 8 * n > Len(r.bits)
    <2>1. ReadBytes(r, m) = Throwing(r)
      BY <1>4 DEF ReadBytes
    <2>2. 8 * n \in Nat
      BY <1>0
    <2>3. Takes(r, Throwing(r), Len(e), v)
      BY <1>1, <2>2, <1>4, ThrowingThrows
    <2> QED BY <1>1, <2>1, <2>3 DEF Reads
  <1>5. CASE ~r.threw /\ ~(c + 8 * n > Len(r.bits))
    <2> DEFINE value == [i \in 1..n |-> Extract(Word(r, c \div 8 + i - 1, 2), c % 8, 8)]
    <2>1. ReadBytes(r, m) = Moving(r, 8 * n, value)
      BY <1>5 DEF ReadBytes
    <2>2. ASSUME NEW i \in 1..n PROVE Extract(Word(r, c \div 8 + i - 1, 2), c % 8, 8) = v[i]
      <3> DEFINE d == c + 8 * (i - 1)
      <3>1. d \in Nat /\ d \div 8 = c \div 8 + i - 1 /\ d % 8 = c % 8 /\ c % 8 \in 0..7 /\ d + 8 <= Len(r.bits)
        <4> DEFINE j == i - 1
        <4>1. j \in Nat /\ j + 1 <= n
          BY <1>0
        <4>2. d = c + 8 * j /\ c + 8 * n <= Len(r.bits)
          BY <1>0, <1>2, <1>5
        <4>3. c \div 8 + i - 1 = c \div 8 + j
          BY <1>2
        <4> HIDE DEF j, d, c, n
        <4>4. d \div 8 = c \div 8 + j /\ d % 8 = c % 8 /\ c % 8 \in 0..7
          BY <1>2, <4>1, <4>2, WholeBytes
        <4>5. d \in Nat /\ d + 8 <= Len(r.bits)
          BY <1>0, <1>2, <4>1, <4>2
        <4> QED BY <4>3, <4>4, <4>5
      <3>2. v[i] \in 0..255
        BY ElementOfSeq
      <3>3. ASSUME NEW k \in 0..7 PROVE r.bits[d + k + 1] = Digit(v[i], k)
        <4>1. i - 1 \in 0..n - 1 /\ (i - 1) + 1 = i /\ i - 1 \in 0..n
          BY <1>0
        <4>2. Starts(FlatTo(s, i - 1) \o s[i], e)
          BY <1>0, <4>1, NextStarts
        <4>3. FlatTo(s, i - 1) \in BitStrings /\ Len(FlatTo(s, i - 1)) = 8 * (i - 1)
              /\ s[i] = Bits(v[i], 8) /\ s[i] \in BitStrings /\ Len(s[i]) = 8
          <5>1. FlatTo(s, i - 1) \in BitStrings /\ Len(FlatTo(s, i - 1)) = 8 * (i - 1)
            BY <1>0, <4>1, Zenon
          <5>2. s[i] = Bits(v[i], 8) /\ s[i] \in BitStrings
            BY <1>0, Zenon
          <5>3. Len(Bits(v[i], 8)) = 8
            BY <3>2, ByteFits, Zenon
          <5> QED BY <5>1, <5>2, <5>3, Zenon
        <4> DEFINE w == FlatTo(s, i - 1) \o s[i]
        <4>4. w \in BitStrings /\ Len(w) = 8 * (i - 1) + 8 /\ w[8 * (i - 1) + (k + 1)] = s[i][k + 1]
          <5>1. k + 1 \in 1..8
            OBVIOUS
          <5> DEFINE a == FlatTo(s, i - 1)
                     b == s[i]
          <5>2. a \in BitStrings /\ b \in BitStrings /\ Len(a) = 8 * (i - 1) /\ Len(b) = 8
            BY <4>3
          <5> HIDE DEF a, b
          <5>3. a \o b \in BitStrings /\ Len(a \o b) = Len(a) + Len(b) /\ (a \o b)[Len(a) + (k + 1)] = b[k + 1]
            <6>1. /\ a \o b \in BitStrings /\ Len(a \o b) = Len(a) + Len(b)
                  /\ \A q \in 1..Len(b) : (a \o b)[Len(a) + q] = b[q]
              BY <5>2, Joined
            <6>2. k + 1 \in 1..Len(b)
              BY <5>1, <5>2
            <6> QED BY <6>1, <6>2
          <5> QED BY <5>2, <5>3 DEF a, b
        <4> HIDE DEF w
        <4>5. 8 * (i - 1) + (k + 1) \in 1..Len(w) /\ 8 * (i - 1) + (k + 1) \in 1..Len(e)
          BY <1>0, <1>1, <4>4
        <4>6. e[8 * (i - 1) + (k + 1)] = w[8 * (i - 1) + (k + 1)]
          <5>1. Starts(w, e)
            BY <4>2 DEF w
          <5> QED BY <5>1, <4>4, <4>5, <1>1, StartsLength
        <4>7. Bits(v[i], 8)[k + 1] = Digit(v[i], k)
          <5>1. v[i] \in Nat /\ v[i] <= MaxNumber
            BY <3>2, ByteFits
          <5>2. 8 \in 0..32 /\ k \in 0..8 - 1
            OBVIOUS
          <5> QED BY <5>1, <5>2, BitsAreDigits
        <4>8. r.bits[c + (8 * (i - 1) + (k + 1))] = e[8 * (i - 1) + (k + 1)]
          <5>1. c + (8 * (i - 1) + (k + 1)) <= Len(r.bits)
            <6>1. d = c + 8 * (i - 1) /\ d + 8 <= Len(r.bits) /\ i - 1 \in Nat
              BY <3>1, <4>1
            <6> DEFINE j == i - 1
                       l == Len(r.bits)
            <6>2. d = c + 8 * j /\ d + 8 <= l /\ j \in Nat /\ l \in Nat
              BY <6>1, <1>2
            <6> HIDE DEF d, c, j, l
            <6>3. c + (8 * j + (k + 1)) <= l
              BY <6>2, <1>2
            <6> QED BY <6>3 DEF j, l
          <5> QED BY <5>1, <4>5, <1>5 DEF Carries
        <4>9. d + k + 1 = c + (8 * (i - 1) + (k + 1))
          BY <1>2
        <4> QED BY <4>3, <4>4, <4>6, <4>7, <4>8, <4>9
      <3> HIDE DEF d, c
      <3>4. Lies(r, d, 8, v[i], 2)
        <4>1. v[i] \in Nat /\ v[i] < Pow2(8)
          BY <3>2, ByteFits
        <4>2. 8 \in Nat /\ 2 \in Nat /\ (d % 8) + 8 <= 8 * 2 /\ (d % 8) + 8 <= 32
          BY <3>1
        <4>3. \A k \in 0..8 - 1 : r.bits[d + k + 1] = Digit(v[i], k)
          BY <3>3
        <4> QED BY <4>1, <4>2, <4>3, <3>1, Zenon DEF Lies
      <3>5. Extract(Word(r, d \div 8, 2), d % 8, 8) = v[i]
        BY <3>4, FieldOfWord, Zenon
      <3> QED BY <3>1, <3>5
    <2>3. value = v
      <3>1. value = [i \in 1..n |-> v[i]]
        BY <2>2
      <3>2. v = [i \in 1..n |-> v[i]]
        BY <1>0
      <3> QED BY <3>1, <3>2
    <2> HIDE DEF value, n, c
    <2>4. Takes(r, Moving(r, 8 * n, v), 8 * n, v)
      <3>1. 8 * n \in Nat /\ r.cursor + 8 * n <= Len(r.bits)
        BY <1>0, <1>2, <1>5 DEF c
      <3> QED BY <3>1, <1>5, MovingTakes
    <2> QED BY <1>1, <2>1, <2>3, <2>4 DEF Reads
  <1> QED BY <1>3, <1>4, <1>5

LEMMA StringReads ==
  ASSUME NEW r, IsReader(r), NEW v, FitsString(v), Carries(r, EncodeString(v))
  PROVE  EncodeString(v) \in BitStrings /\ Reads(r, DecodeString(r), EncodeString(v), v)
  <1> DEFINE n == Len(v)
             e1 == Bits(n, 9)
             e2 == FlattenSeq(ByteBits(v))
             r1 == ReadBits(r, 9)
             r2 == ReadBytes(r1, r1.value)
  <1>1. v \in Seq(0..255) /\ n \in Nat /\ n < 512
    BY DEF FitsString
  <1>2. EncodeString(v) = e1 \o e2
    BY DEF EncodeString, ByteBits
  <1>3. DecodeString(r) = r2
    BY DEF DecodeString
  <1>4. Fits(n, 9)
    <2>1. n < Pow2(9)
      BY <1>1, PowerValues, SMT
    <2> HIDE DEF n
    <2> QED BY <1>1, <2>1, SmallFits
  <1>5. e2 \in BitStrings
    BY <1>1, BytesLength
  <1>6. e1 \in BitStrings
    BY <1>4, FitsBits
  <1>7. Carries(r, e1 \o e2) /\ Carries(r, e1)
    <2>1. Carries(r, e1 \o e2)
      BY <1>2
    <2> HIDE DEF e1, e2
    <2> QED BY <2>1, <1>5, <1>6, CarriesFirst
  <1> HIDE DEF r1, r2
  <1>8. Reads(r, r1, e1, n)
    BY <1>4, <1>7, FieldReads DEF r1
  <1>9. Carries(r1, e2) /\ IsReader(r1)
    <2> HIDE DEF e1, e2, n
    <2> QED BY <1>5, <1>6, <1>7, <1>8, CarriesOn
  <1>10. Reads(r1, r2, e2, v)
    <2>1. ~r1.threw => r1.value = Len(v)
      BY <1>8, ReadsValue
    <2> QED BY <1>1, <1>9, <2>1, BytesRead DEF r2
  <1> HIDE DEF e1, e2, n
  <1>11. Reads(r, r2, e1 \o e2, v)
    BY <1>5, <1>6, <1>8, <1>10, ReadsOn
  <1>12. e1 \o e2 \in BitStrings
    BY <1>5, <1>6, Joined
  <1> QED BY <1>2, <1>3, <1>11, <1>12

-----------------------------------------------------------------------------
(* Numbers in groups of seven bits. *)

\* A throw is a throw however much was still to be read.
LEMMA ThrewOn ==
  ASSUME NEW r, IsReader(r), NEW out, NEW d \in BitStrings, NEW w \in BitStrings, Starts(d, w),
         NEW v, Reads(r, out, d, v), out.threw, NEW x
  PROVE  Reads(r, out, w, x)
  <1>1. Len(d) \in Nat /\ Len(w) \in Nat /\ Len(d) <= Len(w)
    BY StartsLength
  <1>2. r.cursor \in Nat /\ Len(r.bits) \in Nat
    BY ReaderRange
  <1> QED BY <1>1, <1>2 DEF Reads, Takes

Pow128(k) == 128 ^ k

LEMMA Pow128Values ==
  /\ Pow128(0) = 1 /\ Pow128(1) = 128 /\ Pow128(2) = 16384 /\ Pow128(3) = 2097152
  /\ Pow128(4) = 268435456 /\ Pow128(5) = 34359738368
  BY DEF Pow128

LEMMA SevenBits == \A k \in 0..4 : Pow2(7 * k) = Pow128(k)
  <1> SUFFICES ASSUME NEW k \in 0..4 PROVE Pow2(7 * k) = Pow128(k)
    OBVIOUS
  <1>0. CASE k = 0
    BY <1>0, PowerValues, Pow128Values, SMT
  <1>1. CASE k = 1
    BY <1>1, PowerValues, Pow128Values, SMT
  <1>2. CASE k = 2
    BY <1>2, PowerValues, Pow128Values, SMT
  <1>3. CASE k = 3
    BY <1>3, PowerValues, Pow128Values, SMT
  <1>4. CASE k = 4
    BY <1>4, PowerValues, Pow128Values, SMT
  <1> QED BY <1>0, <1>1, <1>2, <1>3, <1>4

\* A group of a number, and the number without its first k groups.
LEMMA GroupOf ==
  ASSUME NEW v \in Nat, v <= MaxNumber, NEW k \in 0..4
  PROVE  /\ v \div Pow128(k) \in Nat /\ v \div Pow128(k + 1) \in Nat
         /\ (v \div Pow128(k)) % 128 \in 0..127
         /\ ((v \div Pow128(k)) % 128) * Pow128(k) + (v \div Pow128(k + 1)) * Pow128(k + 1)
            = (v \div Pow128(k)) * Pow128(k)
         /\ v \div Pow128(k) < 128 => v \div Pow128(k + 1) = 0
  <1> HIDE DEF MaxNumber
  <1>0. CASE k = 0
    <2>1. Pow128(k) = 1 /\ Pow128(k + 1) = 128
      BY <1>0, Pow128Values, SMT
    <2>2. v \div 1 = v /\ v \div 128 \in Nat /\ v % 128 \in 0..127
      OBVIOUS
    <2>3. (v % 128) * 1 + (v \div 128) * 128 = v * 1
      OBVIOUS
    <2>4. v < 128 => v \div 128 = 0
      OBVIOUS
    <2> QED BY <2>1, <2>2, <2>3, <2>4, Zenon
  <1>1. CASE k = 1
    BY <1>1, Pow128Values, SMT
  <1>2. CASE k = 2
    BY <1>2, Pow128Values, SMT
  <1>3. CASE k = 3
    BY <1>3, Pow128Values, SMT
  <1>4. CASE k = 4
    BY <1>4, Pow128Values, SMT
  <1> QED BY <1>0, <1>1, <1>2, <1>3, <1>4

LastGroup(v) == CHOOSE g \in 0..4 : v \div Pow128(g) < 128 /\ (g = 0 \/ v \div Pow128(g - 1) >= 128)

LEMMA LastGroupIs ==
  ASSUME NEW v \in Nat, v <= MaxNumber
  PROVE  /\ LastGroup(v) \in 0..4
         /\ v \div Pow128(LastGroup(v)) < 128
  <1> DEFINE P(g) == v \div Pow128(g) < 128 /\ (g = 0 \/ v \div Pow128(g - 1) >= 128)
  <1>1. v \div Pow128(4) < 128
    BY Pow128Values, SMT DEF MaxNumber
  <1>2. \A k \in 0..4 : v \div Pow128(k) \in Nat
    BY GroupOf
  <1>3. \E g \in 0..4 : P(g)
    <2>1. /\ 0 \in 0..4 /\ 1 \in 0..4 /\ 2 \in 0..4 /\ 3 \in 0..4 /\ 4 \in 0..4
          /\ 1 - 1 = 0 /\ 2 - 1 = 1 /\ 3 - 1 = 2 /\ 4 - 1 = 3
      OBVIOUS
    <2>2. CASE v \div Pow128(0) < 128
      BY <2>2, <2>1
    <2>3. CASE v \div Pow128(0) >= 128 /\ v \div Pow128(1) < 128
      BY <2>3, <2>1
    <2>4. CASE v \div Pow128(1) >= 128 /\ v \div Pow128(2) < 128
      BY <2>4, <2>1
    <2>5. CASE v \div Pow128(2) >= 128 /\ v \div Pow128(3) < 128
      BY <2>5, <2>1
    <2>6. CASE v \div Pow128(3) >= 128
      BY <2>6, <2>1, <1>1
    <2>7. /\ v \div Pow128(0) < 128 \/ v \div Pow128(0) >= 128
          /\ v \div Pow128(1) < 128 \/ v \div Pow128(1) >= 128
          /\ v \div Pow128(2) < 128 \/ v \div Pow128(2) >= 128
          /\ v \div Pow128(3) < 128 \/ v \div Pow128(3) >= 128
      BY <1>2, <2>1
    <2> QED BY <2>2, <2>3, <2>4, <2>5, <2>6, <2>7, Zenon
  <1> HIDE DEF P
  <1>4. (CHOOSE g \in 0..4 : P(g)) \in 0..4 /\ P(CHOOSE g \in 0..4 : P(g))
    BY <1>3, Zenon
  <1> QED BY <1>4, Zenon DEF P, LastGroup

\* The groups of a number, as they are sent.
GroupBits(v) ==
  [i \in 1..LastGroup(v) + 1 |-> Bits(((v \div Pow128(i - 1)) % 128) + (IF i <= LastGroup(v) THEN 128 ELSE 0), 8)]

LEMMA VarIntIs ==
  ASSUME NEW v
  PROVE  VarInt(v) = FlattenSeq(GroupBits(v))
  BY Zenon DEF VarInt, GroupBits, LastGroup, Pow128

LEMMA GroupBitsAre ==
  ASSUME NEW v \in Nat, v <= MaxNumber, NEW i \in 1..LastGroup(v) + 1
  PROVE  LET byte == ((v \div Pow128(i - 1)) % 128) + (IF i <= LastGroup(v) THEN 128 ELSE 0)
         IN /\ GroupBits(v)[i] = Bits(byte, 8) /\ GroupBits(v)[i] \in BitStrings /\ Fits(byte, 8)
            /\ byte % 128 = (v \div Pow128(i - 1)) % 128
            /\ byte >= 128 <=> i <= LastGroup(v)
  <1> DEFINE low == (v \div Pow128(i - 1)) % 128
             more == i <= LastGroup(v)
             byte == low + (IF more THEN 128 ELSE 0)
  <1>1. i - 1 \in 0..4
    BY LastGroupIs
  <1>2. low \in 0..127
    BY <1>1, GroupOf
  <1>3. GroupBits(v)[i] = Bits(byte, 8)
    BY Zenon DEF GroupBits
  <1> HIDE DEF low, more
  <1>4. byte \in 0..255 /\ byte % 128 = low /\ (byte >= 128 <=> more)
    BY <1>2, SMT
  <1> HIDE DEF byte
  <1>5. Fits(byte, 8) /\ Bits(byte, 8) \in BitStrings
    BY <1>4, ByteFits
  <1> QED BY <1>3, <1>4, <1>5, Zenon DEF byte, low, more

\* What ReadVarInt does with one group, and with the groups so far.
GroupRead(state, i) ==
  LET byte == ReadBits(state.r, 8)
  IN IF ~state.more THEN state
     ELSE [ r     |-> byte,
            total |-> state.total + (byte.value % 128) * Pow2(7 * i),
            more  |-> byte.value >= 128 /\ ~byte.threw ]

GroupsRead(g, r, n) ==
  g = [i \in 0..n |-> IF i = 0 THEN [r |-> r, total |-> 0, more |-> TRUE] ELSE GroupRead(g[i - 1], i - 1)]

LEMMA ReadVarIntIs ==
  ASSUME NEW r, NEW n \in Nat
  PROVE  \E g : GroupsRead(g, r, n) /\ ReadVarInt(r, n) = Returning(g[n].r, g[n].total)
  <1> DEFINE G == {k \in 0..n : \E g : GroupsRead(g, r, k)}
             begins == [r |-> r, total |-> 0, more |-> TRUE]
  <1>1. 0 \in G
    <2> DEFINE g == [i \in 0..0 |-> begins]
    <2> HIDE DEF begins
    <2>1. g = [i \in 0..0 |-> IF i = 0 THEN begins ELSE GroupRead(g[i - 1], i - 1)]
      OBVIOUS
    <2>2. GroupsRead(g, r, 0)
      BY <2>1, Zenon DEF GroupsRead, begins
    <2> QED BY <2>2
  <1>2. ASSUME NEW k \in 0..n - 1, k \in G PROVE k + 1 \in G
    <2>1. PICK g : GroupsRead(g, r, k)
      BY <1>2
    <2> DEFINE next == GroupRead(g[k], k)
               h == [i \in 0..k + 1 |-> IF i = k + 1 THEN next ELSE g[i]]
    <2> HIDE DEF next, begins
    <2>2. ASSUME NEW i \in 0..k + 1
          PROVE  h[i] = IF i = 0 THEN begins ELSE GroupRead(h[i - 1], i - 1)
      <3>1. CASE i = k + 1
        <4>1. h[i] = next /\ h[k] = g[k] /\ i # 0 /\ i - 1 = k
          BY <3>1
        <4> HIDE DEF h
        <4> QED BY <4>1, Zenon DEF next
      <3>2. CASE i # k + 1
        <4>1. i \in 0..k /\ h[i] = g[i]
          BY <3>2
        <4>2. g[i] = IF i = 0 THEN begins ELSE GroupRead(g[i - 1], i - 1)
          BY <2>1, <4>1, Zenon DEF GroupsRead, begins
        <4>3. i # 0 => h[i - 1] = g[i - 1]
          BY <4>1
        <4> HIDE DEF h
        <4> QED BY <4>1, <4>2, <4>3, Zenon
      <3> QED BY <3>1, <3>2
    <2>3. GroupsRead(h, r, k + 1)
      <3>1. h = [i \in 0..k + 1 |-> h[i]]
        OBVIOUS
      <3> HIDE DEF h
      <3>2. h = [i \in 0..k + 1 |-> IF i = 0 THEN begins ELSE GroupRead(h[i - 1], i - 1)]
        BY <2>2, <3>1
      <3> QED BY <3>2, Zenon DEF GroupsRead, begins
    <2> QED BY <2>3
  <1> HIDE DEF G
  <1>3. \A k \in 0..n : k \in G
    BY <1>1, <1>2, IntervalInduction
  <1>4. n \in 0..n
    OBVIOUS
  <1>5. \E g : GroupsRead(g, r, n)
    BY <1>3, <1>4 DEF G
  <1> DEFINE a == CHOOSE g : GroupsRead(g, r, n)
  <1>6. GroupsRead(a, r, n)
    BY <1>5, Zenon
  <1>7. ReadVarInt(r, n) = Returning(a[n].r, a[n].total)
    BY Zenon DEF ReadVarInt, GroupsRead, GroupRead, Pow2
  <1> HIDE DEF a
  <1> QED BY <1>6, <1>7

\* Where the reader of the number v is behind i groups: at a throw, or with the number
\* without the groups that it has read still to come.
Progress(r, v, a, i) ==
  LET last == LastGroup(v)
      j == IF i <= last + 1 THEN i ELSE last + 1
  IN \/ a.r.threw /\ Reads(r, a.r, VarInt(v), v) /\ (i = 0 \/ ~a.more)
     \/ /\ ~a.r.threw /\ Reads(r, a.r, FlatTo(GroupBits(v), j), a.r.value)
        /\ a.total \in Nat /\ a.total + (v \div Pow128(j)) * Pow128(j) = v
        /\ a.more <=> j <= last

LEMMA Product ==
  ASSUME NEW a \in Nat, NEW b \in Nat
  PROVE  a * b \in Nat
  OBVIOUS

LEMMA GroupsFlat ==
  ASSUME NEW v \in Nat, v <= MaxNumber
  PROVE  LET s == GroupBits(v)
             n == LastGroup(v) + 1
         IN /\ n \in Nat /\ FlatTo(s, 0) = <<>> /\ FlatTo(s, n) = VarInt(v) /\ VarInt(v) \in BitStrings
            /\ \A i \in 1..n : s[i] \in BitStrings
            /\ \A k \in 0..n : FlatTo(s, k) \in BitStrings
  <1> DEFINE s == GroupBits(v)
             n == LastGroup(v) + 1
  <1>1. n \in Nat
    BY LastGroupIs
  <1>2. \A i \in 1..n : s[i] \in BitStrings
    BY GroupBitsAre
  <1>3. s = [i \in 1..n |-> s[i]]
    BY DEF GroupBits
  <1> HIDE DEF s, n
  <1>4. FlatTo(s, 0) = <<>> /\ \A k \in 0..n : FlatTo(s, k) \in BitStrings
    BY <1>1, <1>2, FlatToStep
  <1>5. FlatTo(s, n) = FlattenSeq(s)
    BY <1>1, <1>3, FlatToAll
  <1>6. FlatTo(s, n) = VarInt(v)
    BY <1>5, VarIntIs DEF s
  <1>7. n \in 0..n
    BY <1>1
  <1> QED BY <1>1, <1>2, <1>4, <1>6, <1>7 DEF s, n

LEMMA ProgressStep ==
  ASSUME NEW r, IsReader(r), NEW v \in Nat, v <= MaxNumber, Carries(r, VarInt(v)),
         NEW i \in Nat, NEW a, Progress(r, v, a, i)
  PROVE  Progress(r, v, GroupRead(a, i), i + 1)
  <1> DEFINE last == LastGroup(v)
             s == GroupBits(v)
             e == VarInt(v)
             j == IF i <= last + 1 THEN i ELSE last + 1
             byte == ReadBits(a.r, 8)
             total == a.total + (byte.value % 128) * Pow2(7 * i)
             b == [r |-> byte, total |-> total, more |-> byte.value >= 128 /\ ~byte.threw]
  <1>0. /\ last \in 0..4 /\ FlatTo(s, last + 1) = e /\ e \in BitStrings /\ last + 1 \in Nat
        /\ \A k \in 1..last + 1 : s[k] \in BitStrings
        /\ \A k \in 0..last + 1 : FlatTo(s, k) \in BitStrings
    BY GroupsFlat, LastGroupIs
  <1>1. ~a.more => GroupRead(a, i) = a
    BY DEF GroupRead
  <1>2. a.more => GroupRead(a, i) = b
    BY DEF GroupRead
  <1>3. b.r = byte /\ b.total = total /\ (b.more <=> byte.value >= 128 /\ ~byte.threw)
    OBVIOUS
  <1> HIDE DEF b, byte, s, e, last
  <1>4. CASE a.r.threw /\ ~a.more
    BY <1>1, <1>4 DEF Progress, s, e, last
  <1>5. CASE a.r.threw /\ a.more
    <2>1. Reads(r, a.r, e, v) /\ IsReader(a.r)
      BY <1>5, ReadsValue DEF Progress, e
    <2>2. byte = Throwing(a.r)
      BY <1>5 DEF byte, ReadBits
    <2>3. Reads(a.r, byte, <<>>, v)
      BY <2>1, <2>2, <1>5, ThrowingThrows, NoBits DEF Reads
    <2>4. Reads(r, byte, e \o <<>>, v)
      BY <2>1, <2>3, <1>0, NoBits, ReadsOn
    <2>5. Reads(r, byte, e, v)
      BY <2>4, <1>0, JoinEmpty
    <2>6. byte.threw
      BY <2>2 DEF Throwing
    <2> QED BY <1>2, <1>3, <1>5, <2>5, <2>6 DEF Progress, e
  <1>6. CASE ~a.r.threw /\ ~a.more
    <2>1. j = last + 1 /\ ~(i + 1 <= last + 1)
      BY <1>0, <1>6 DEF Progress, last
    <2> QED BY <1>1, <1>6, <2>1 DEF Progress, last
  <1>7. CASE ~a.r.threw /\ a.more
    <2>1. /\ j = i /\ i <= last /\ i \in 0..4 /\ Reads(r, a.r, FlatTo(s, i), a.r.value)
          /\ a.total \in Nat /\ a.total + (v \div Pow128(i)) * Pow128(i) = v
      BY <1>0, <1>7 DEF Progress, last, s
    <2> DEFINE low == (v \div Pow128(i)) % 128
               num == low + (IF i + 1 <= last THEN 128 ELSE 0)
    <2>2. i + 1 \in 1..last + 1 /\ (i + 1) - 1 = i /\ i \in 0..last /\ i \in 0..(last + 1) - 1
      BY <2>1, <1>0
    <2>3. s[i + 1] = Bits(num, 8) /\ Fits(num, 8) /\ num % 128 = low /\ (num >= 128 <=> i + 1 <= last)
      <3> DEFINE other == ((v \div Pow128((i + 1) - 1)) % 128) + (IF i + 1 <= last THEN 128 ELSE 0)
      <3>1. /\ s[i + 1] = Bits(other, 8) /\ Fits(other, 8) /\ other % 128 = (v \div Pow128((i + 1) - 1)) % 128
            /\ other >= 128 <=> i + 1 <= last
        <4>1. i + 1 \in 1..LastGroup(v) + 1
          BY <2>2 DEF last
        <4>2. LET more == (i + 1) <= LastGroup(v)
                  byteSent == ((v \div Pow128((i + 1) - 1)) % 128) + (IF more THEN 128 ELSE 0)
              IN /\ GroupBits(v)[i + 1] = Bits(byteSent, 8) /\ Fits(byteSent, 8)
                 /\ byteSent % 128 = (v \div Pow128((i + 1) - 1)) % 128
                 /\ byteSent >= 128 <=> more
          BY <4>1, GroupBitsAre, ZenonT(60)
        <4> QED BY <4>2, ZenonT(60) DEF s, last
      <3> QED BY <3>1, <2>2, ZenonT(120)
    <2> HIDE DEF low, num
    <2>4. FlatTo(s, i + 1) = FlatTo(s, i) \o s[i + 1] /\ FlatTo(s, i) \in BitStrings
          /\ s[i + 1] \in BitStrings /\ Starts(FlatTo(s, i) \o s[i + 1], e)
      BY <1>0, <2>2, NextStarts
    <2>5. Carries(a.r, s[i + 1]) /\ IsReader(a.r)
      BY <1>0, <2>1, <2>4, CarriesNext DEF e
    <2>6. Reads(a.r, byte, s[i + 1], num)
      BY <2>3, <2>5, FieldReads DEF byte
    <2>7. Reads(r, byte, FlatTo(s, i + 1), num)
      BY <2>1, <2>4, <2>6, ReadsOn
    <2>8. CASE byte.threw
      <3>1. FlatTo(s, i + 1) \in BitStrings /\ Starts(FlatTo(s, i + 1), e)
        BY <2>4, Joined
      <3>2. Reads(r, byte, e, v)
        BY <3>1, <2>7, <2>8, <1>0, ThrewOn
      <3> QED BY <1>2, <1>3, <1>7, <2>8, <3>2 DEF Progress, e
    <2>9. CASE ~byte.threw
      <3>1. byte.value = num
        BY <2>6, <2>9, ReadsValue
      <3>2. b.more <=> i + 1 <= last
        BY <1>3, <2>3, <2>9, <3>1
      <3>3. total = a.total + low * Pow128(i)
        BY <2>1, <2>3, <3>1, SevenBits
      <3>4. /\ low \in 0..127 /\ v \div Pow128(i) \in Nat /\ v \div Pow128(i + 1) \in Nat
            /\ low * Pow128(i) + (v \div Pow128(i + 1)) * Pow128(i + 1) = (v \div Pow128(i)) * Pow128(i)
        BY <2>1, GroupOf DEF low
      <3>5. Pow128(i) \in Nat /\ Pow128(i + 1) \in Nat
        <4>1. i = 0 \/ i = 1 \/ i = 2 \/ i = 3 \/ i = 4
          BY <2>1
        <4> QED BY <4>1, Pow128Values, SMT
      <3>6. total \in Nat /\ total + (v \div Pow128(i + 1)) * Pow128(i + 1) = v
        <4> DEFINE x == low * Pow128(i)
                   y == (v \div Pow128(i + 1)) * Pow128(i + 1)
                   z == (v \div Pow128(i)) * Pow128(i)
        <4>1. x \in Nat /\ y \in Nat /\ z \in Nat
          <5>1. low \in Nat
            BY <3>4
          <5> QED BY <5>1, <3>4, <3>5, Product
        <4>2. x + y = z /\ total = a.total + x /\ a.total + z = v
          BY <3>3, <3>4, <2>1
        <4> HIDE DEF x, y, z, total
        <4>3. total \in Nat /\ total + y = v
          BY <4>1, <4>2, <2>1
        <4> QED BY <4>3 DEF y
      <3>7. Reads(r, byte, FlatTo(s, i + 1), byte.value)
        BY <2>7, <3>1
      <3>8. i + 1 <= last + 1
        BY <2>2
      <3> HIDE DEF total
      <3> QED BY <1>2, <1>3, <1>7, <2>9, <3>2, <3>6, <3>7, <3>8 DEF Progress, s, last
    <2> QED BY <2>8, <2>9
  <1> QED BY <1>4, <1>5, <1>6, <1>7

LEMMA VarIntReads ==
  ASSUME NEW r, IsReader(r), NEW v \in 0..MaxNumber, NEW n \in {5, 10}, Carries(r, VarInt(v))
  PROVE  VarInt(v) \in BitStrings /\ Reads(r, ReadVarInt(r, n), VarInt(v), v)
  <1>0. v \in Nat /\ v <= MaxNumber /\ n \in Nat
    BY MaxNumberIs
  <1>1. PICK g : GroupsRead(g, r, n) /\ ReadVarInt(r, n) = Returning(g[n].r, g[n].total)
    BY <1>0, ReadVarIntIs
  <1>2. /\ LastGroup(v) \in 0..4 /\ v \div Pow128(LastGroup(v)) < 128 /\ FlatTo(GroupBits(v), 0) = <<>>
        /\ FlatTo(GroupBits(v), LastGroup(v) + 1) = VarInt(v) /\ VarInt(v) \in BitStrings
    BY <1>0, GroupsFlat, LastGroupIs
  <1> DEFINE G == {i \in 0..n : Progress(r, v, g[i], i)}
  <1>3. 0 \in G
    <2> DEFINE begins == [r |-> r, total |-> 0, more |-> TRUE]
    <2>1. g[0] = begins
      BY <1>1, <1>0 DEF GroupsRead
    <2>2. begins.r = r /\ begins.total = 0 /\ begins.more
      OBVIOUS
    <2> HIDE DEF begins
    <2>3. CASE r.threw
      <3>1. Len(VarInt(v)) \in Nat
        BY <1>2 DEF BitStrings
      <3>2. Reads(r, r, VarInt(v), v)
        BY <2>3, <3>1 DEF Reads, Takes, IsReader
      <3> QED BY <2>1, <2>2, <2>3, <3>2 DEF Progress
    <2>4. CASE ~r.threw
      <3>1. Reads(r, r, <<>>, r.value)
        BY NothingTaken, NoBits DEF Reads
      <3>2. 0 + (v \div Pow128(0)) * Pow128(0) = v
        <4>1. v \div 1 = v /\ 0 + v * 1 = v
          BY <1>0
        <4> QED BY <4>1, Pow128Values, SMT
      <3>3. 0 <= LastGroup(v) /\ 0 <= LastGroup(v) + 1
        BY <1>2
      <3>4. /\ ~begins.r.threw /\ Reads(r, begins.r, FlatTo(GroupBits(v), 0), begins.r.value)
            /\ begins.total \in Nat /\ begins.total + (v \div Pow128(0)) * Pow128(0) = v
            /\ begins.more <=> 0 <= LastGroup(v)
        BY <1>2, <2>2, <2>4, <3>1, <3>2, <3>3
      <3> QED BY <2>1, <3>3, <3>4 DEF Progress
    <2> QED BY <2>3, <2>4
  <1>4. ASSUME NEW i \in 0..n - 1, i \in G PROVE i + 1 \in G
    <2>1. g[i + 1] = GroupRead(g[i], i)
      <3>1. i + 1 \in 0..n /\ i + 1 # 0 /\ (i + 1) - 1 = i
        BY <1>0
      <3> QED BY <3>1, <1>1, Zenon DEF GroupsRead
    <2>2. Progress(r, v, GroupRead(g[i], i), i + 1)
      BY <1>0, <1>4, ProgressStep
    <2> QED BY <2>1, <2>2
  <1> HIDE DEF G
  <1>5. \A i \in 0..n : i \in G
    BY <1>0, <1>3, <1>4, IntervalInduction
  <1>6. Progress(r, v, g[n], n)
    BY <1>0, <1>5 DEF G
  <1> DEFINE a == g[n]
  <1> HIDE DEF a
  <1>7. CASE a.r.threw
    <2>1. Reads(r, a.r, VarInt(v), v)
      BY <1>6, <1>7 DEF Progress, a
    <2>2. Reads(r, Returning(a.r, a.total), VarInt(v), v)
      BY <2>1, <1>7, ReturningReads
    <2> QED BY <1>1, <1>2, <2>2 DEF a
  <1>8. CASE ~a.r.threw
    <2> DEFINE last == LastGroup(v)
               q == v \div Pow128(last + 1)
               j == IF n <= last + 1 THEN n ELSE last + 1
    <2>0. j = last + 1
      BY <1>2
    <2>1. Reads(r, a.r, FlatTo(GroupBits(v), last + 1), a.r.value) /\ a.total \in Nat
          /\ a.total + q * Pow128(last + 1) = v
      BY <1>6, <1>8, <2>0 DEF Progress, a
    <2>2. q = 0
      BY <1>0, <1>2, GroupOf
    <2>3. last + 1 = 1 \/ last + 1 = 2 \/ last + 1 = 3 \/ last + 1 = 4 \/ last + 1 = 5
      BY <1>2
    <2> HIDE DEF last, q
    <2>4. Pow128(last + 1) \in Nat
      BY <2>3, Pow128Values, SMT
    <2>5. a.total = v
      BY <2>1, <2>2, <2>4
    <2>6. Reads(r, a.r, VarInt(v), a.r.value)
      BY <1>2, <2>1 DEF last
    <2>7. Reads(r, Returning(a.r, a.total), VarInt(v), v)
      BY <2>5, <2>6, ReturningReads
    <2> QED BY <1>1, <1>2, <2>7 DEF a
  <1> QED BY <1>7, <1>8

-----------------------------------------------------------------------------
(* Integers. *)

LEMMA ZigzagBack ==
  ASSUME NEW v \in -Pow2(30)..Pow2(30) - 1
  PROVE  ZigzagOf(v) \in 0..MaxNumber /\ Zigzag(ZigzagOf(v)) = v
  <1>1. v \in Int /\ v >= -1073741824 /\ v <= 1073741823
    <2>1. Pow2(30) \in Int /\ Pow2(30) = 1073741824
      BY PowerValues, SMT
    <2>2. v \in Int /\ v >= -Pow2(30) /\ v <= Pow2(30) - 1
      BY <2>1, SMT
    <2> QED BY <2>1, <2>2, SMT
  <1>2. ZigzagOf(v) = IF v < 0 THEN -2 * v - 1 ELSE 2 * v
    BY DEF ZigzagOf
  <1>3. ZigzagOf(v) \in Nat /\ ZigzagOf(v) <= 2147483647
    BY <1>1, <1>2, SMT
  <1>4. ZigzagOf(v) \in 0..MaxNumber
    <2>1. MaxNumber = 2147483647
      BY DEF MaxNumber
    <2> HIDE DEF ZigzagOf
    <2>2. ZigzagOf(v) <= MaxNumber
      BY <1>3, <2>1, SMT
    <2> QED BY <1>3, <2>2, MaxNumberIs
  <1>5. CASE v < 0
    <2> DEFINE u == -2 * v - 1
    <2>1. u % 2 = 1 /\ u \div 2 = -v - 1
      BY <1>1, <1>5, SMT
    <2>2. ZigzagOf(v) = u
      BY <1>2, <1>5, SMT
    <2> HIDE DEF u
    <2>3. Zigzag(u) = -(u \div 2) - 1
      BY <2>1, SMT DEF Zigzag
    <2>4. -(-v - 1) - 1 = v
      BY <1>1, SMT
    <2> QED BY <1>4, <2>1, <2>2, <2>3, <2>4, SMT
  <1>6. CASE ~(v < 0)
    <2>1. (2 * v) % 2 = 0 /\ (2 * v) \div 2 = v
      BY <1>1, <1>6, SMT
    <2>2. ZigzagOf(v) = 2 * v
      BY <1>2, <1>6, SMT
    <2>3. Zigzag(2 * v) = v
      BY <2>1, SMT DEF Zigzag
    <2> QED BY <1>4, <2>2, <2>3, SMT
  <1> QED BY <1>5, <1>6

LEMMA SignedVarIntReads ==
  ASSUME NEW r, IsReader(r), NEW v \in -Pow2(30)..Pow2(30) - 1, NEW n \in {5, 10}, Carries(r, VarInt(ZigzagOf(v)))
  PROVE  VarInt(ZigzagOf(v)) \in BitStrings /\ Reads(r, ReadSignedVarInt(r, n), VarInt(ZigzagOf(v)), v)
  <1> DEFINE u == ZigzagOf(v)
             read == ReadVarInt(r, n)
  <1>1. u \in 0..MaxNumber /\ Zigzag(u) = v
    BY ZigzagBack
  <1>2. ReadSignedVarInt(r, n) = Returning(read, Zigzag(read.value))
    BY DEF ReadSignedVarInt
  <1> HIDE DEF u, read
  <1>3. VarInt(u) \in BitStrings /\ Reads(r, read, VarInt(u), u)
    BY <1>1, VarIntReads DEF u, read
  <1>4. ~read.threw => Zigzag(read.value) = v
    BY <1>1, <1>3, ReadsValue
  <1>5. Reads(r, Returning(read, Zigzag(read.value)), VarInt(u), v)
    BY <1>3, <1>4, ReturningReads
  <1> QED BY <1>2, <1>3, <1>5 DEF u

\* An integer that is not sent in groups.
LEMMA PlainIntReads ==
  ASSUME NEW r, IsReader(r), NEW prop, NEW v, ~Has(prop, "VARINT"), FitsInt(prop, v), Carries(r, EncodeInt(prop, v))
  PROVE  EncodeInt(prop, v) \in BitStrings /\ Reads(r, DecodeInt(r, prop), EncodeInt(prop, v), v)
  <1> DEFINE n == prop.numBits
             u == Unsigned(v, n)
             e == EncodeInt(prop, v)
             out == DecodeInt(r, prop)
  <1>1. e = Bits(u, n)
    BY Zenon DEF EncodeInt, Unsigned, Pow2
  <1>2. CASE Has(prop, "UNSIGNED")
    <2>1. Fits(v, n)
      BY <1>2 DEF FitsInt
    <2>2. out = ReadBits(r, n)
      BY <1>2 DEF DecodeInt
    <2> HIDE DEF n, out
    <2>3. u = v
      <3>1. v \in Nat
        BY <2>1, FitsRange
      <3> QED BY <3>1 DEF Unsigned
    <2> HIDE DEF e, u
    <2>4. Bits(v, n) \in BitStrings /\ Reads(r, ReadBits(r, n), Bits(v, n), v)
      <3>1. Carries(r, Bits(v, n))
        BY <1>1, <2>3 DEF e
      <3> QED BY <3>1, <2>1, FieldReads
    <2> QED BY <1>1, <2>2, <2>3, <2>4 DEF e, out
  <1>3. CASE ~Has(prop, "UNSIGNED")
    <2>1. FitsSigned(v, n)
      BY <1>3 DEF FitsInt
    <2>2. out = ReadSignedBits(r, n)
      BY <1>3 DEF DecodeInt
    <2> HIDE DEF e, n, out
    <2>3. Bits(u, n) \in BitStrings /\ Reads(r, ReadSignedBits(r, n), Bits(u, n), v)
      <3>1. Carries(r, Bits(u, n))
        BY <1>1 DEF e
      <3> QED BY <3>1, <2>1, SignedReads
    <2> HIDE DEF u
    <2> QED BY <1>1, <2>2, <2>3 DEF e, out
  <1> QED BY <1>2, <1>3

\* An integer in groups, read with room for 32 or for 64 bits.
LEMMA VarIntPropReads ==
  ASSUME NEW r, IsReader(r), NEW prop, NEW v, Has(prop, "VARINT"), FitsInt(prop, v), NEW n \in {5, 10},
         Carries(r, EncodeInt(prop, v))
  PROVE  /\ EncodeInt(prop, v) \in BitStrings
         /\ Reads(r, IF Has(prop, "UNSIGNED") THEN ReadVarInt(r, n) ELSE ReadSignedVarInt(r, n), EncodeInt(prop, v), v)
  <1>1. CASE Has(prop, "UNSIGNED")
    <2>1. v \in 0..MaxNumber
      BY <1>1, Zenon DEF FitsInt
    <2>2. EncodeInt(prop, v) = VarInt(v)
      BY <1>1 DEF EncodeInt
    <2> QED BY <1>1, <2>1, <2>2, VarIntReads
  <1>2. CASE ~Has(prop, "UNSIGNED")
    <2>1. v \in -Pow2(30)..Pow2(30) - 1
      BY <1>2 DEF FitsInt, Pow2
    <2>2. EncodeInt(prop, v) = VarInt(ZigzagOf(v))
      BY <1>2 DEF EncodeInt
    <2> QED BY <1>2, <2>1, <2>2, SignedVarIntReads
  <1> QED BY <1>1, <1>2

LEMMA IntReads ==
  ASSUME NEW r, IsReader(r), NEW prop, NEW v, FitsInt(prop, v), Carries(r, EncodeInt(prop, v))
  PROVE  EncodeInt(prop, v) \in BitStrings /\ Reads(r, DecodeInt(r, prop), EncodeInt(prop, v), v)
  <1>1. CASE ~Has(prop, "VARINT")
    BY <1>1, PlainIntReads
  <1>2. CASE Has(prop, "VARINT")
    <2>1. DecodeInt(r, prop) = IF Has(prop, "UNSIGNED") THEN ReadVarInt(r, 5) ELSE ReadSignedVarInt(r, 5)
      BY <1>2 DEF DecodeInt
    <2>2. /\ EncodeInt(prop, v) \in BitStrings
          /\ Reads(r, IF Has(prop, "UNSIGNED") THEN ReadVarInt(r, 5) ELSE ReadSignedVarInt(r, 5), EncodeInt(prop, v), v)
      BY <1>2, VarIntPropReads
    <2> QED BY <2>1, <2>2, Zenon
  <1> QED BY <1>1, <1>2

LEMMA PairReads ==
  ASSUME NEW r, IsReader(r), NEW prop, NEW v, ~Has(prop, "VARINT"), prop.numBits > 32, FitsInt64(prop, v),
         prop.numBits \in 33..63, Carries(r, EncodeInt64(prop, v))
  PROVE  EncodeInt64(prop, v) \in BitStrings /\ Reads(r, DecodeInt64(r, prop), EncodeInt64(prop, v), v)
  <1> DEFINE n == prop.numBits - 32
             u == IF Has(prop, "UNSIGNED") THEN v[2] ELSE Unsigned(v[2], n)
             e1 == Bits(v[1], 32)
             e2 == Bits(u, n)
             r1 == ReadBits(r, 32)
             r2 == IF Has(prop, "UNSIGNED") THEN ReadBits(r1, n) ELSE ReadSignedBits(r1, n)
  <1>0. ~(prop.numBits <= 32)
    OBVIOUS
  <1>1. /\ v = <<v[1], v[2]>> /\ Fits(v[1], 32)
        /\ IF Has(prop, "UNSIGNED") THEN Fits(v[2], n) ELSE FitsSigned(v[2], n)
    BY <1>0, Zenon DEF FitsInt64
  <1>2. EncodeInt64(prop, v) = e1 \o e2
    <2>1. Has(prop, "UNSIGNED") => Unsigned(v[2], n) = v[2]
      <3> HIDE DEF n
      <3>1. ASSUME Has(prop, "UNSIGNED") PROVE v[2] \in Nat
        BY <3>1, <1>1, FitsRange
      <3> QED BY <3>1 DEF Unsigned
    <2>2. EncodeInt64(prop, v) = e1 \o Bits(Unsigned(v[2], n), n)
      BY <1>0, Zenon DEF EncodeInt64, Unsigned, Pow2
    <2> QED BY <2>1, <2>2, Zenon
  <1>3. DecodeInt64(r, prop) = Returning(r2, <<r1.value, r2.value>>)
    BY <1>0 DEF DecodeInt64
  <1> HIDE DEF n
  <1>4. e1 \in BitStrings
    BY <1>1, FitsBits
  <1>5. e2 \in BitStrings
    BY <1>1, FitsBits, SignedFits
  <1>6. Carries(r, e1 \o e2) /\ Carries(r, e1)
    <2>1. Carries(r, e1 \o e2)
      BY <1>2
    <2> HIDE DEF e1, e2
    <2> QED BY <2>1, <1>4, <1>5, CarriesFirst
  <1>7. Reads(r, r1, e1, v[1])
    BY <1>1, <1>6, FieldReads
  <1> HIDE DEF r1
  <1>8. Carries(r1, e2) /\ IsReader(r1)
    <2> HIDE DEF e1, e2
    <2> QED BY <1>4, <1>5, <1>6, <1>7, CarriesOn
  <1>9. Reads(r1, r2, e2, v[2])
    <2>1. CASE Has(prop, "UNSIGNED")
      BY <2>1, <1>1, <1>8, FieldReads
    <2>2. CASE ~Has(prop, "UNSIGNED")
      BY <2>2, <1>1, <1>8, SignedReads
    <2> QED BY <2>1, <2>2
  <1> HIDE DEF e1, e2, r2
  <1>10. Reads(r, r2, e1 \o e2, v[2])
    BY <1>4, <1>5, <1>7, <1>9, ReadsOn
  <1>11. ~r2.threw => <<r1.value, r2.value>> = v
    <2>1. ASSUME ~r2.threw PROVE r1.value = v[1] /\ r2.value = v[2]
      BY <2>1, <1>7, <1>9, ReadsValue
    <2> QED BY <2>1, <1>1, Zenon
  <1>12. Reads(r, Returning(r2, <<r1.value, r2.value>>), e1 \o e2, v)
    <2> DEFINE x == <<r1.value, r2.value>>
    <2>1. ~r2.threw => x = v
      BY <1>11
    <2> HIDE DEF x
    <2>2. Reads(r, Returning(r2, x), e1 \o e2, v)
      BY <1>10, <2>1, ReturningReads
    <2> QED BY <2>2 DEF x
  <1>13. e1 \o e2 \in BitStrings
    BY <1>4, <1>5, Joined
  <1> QED BY <1>2, <1>3, <1>12, <1>13, Zenon

LEMMA Int64Reads ==
  ASSUME NEW r, IsReader(r), NEW prop, NEW v, FitsInt64(prop, v), Carries(r, EncodeInt64(prop, v))
  PROVE  EncodeInt64(prop, v) \in BitStrings /\ Reads(r, DecodeInt64(r, prop), EncodeInt64(prop, v), v)
  <1>1. CASE Has(prop, "VARINT")
    <2>1. EncodeInt64(prop, v) = EncodeInt(prop, v) /\ FitsInt(prop, v)
      BY <1>1, Zenon DEF EncodeInt64, FitsInt64
    <2>2. DecodeInt64(r, prop) = IF Has(prop, "UNSIGNED") THEN ReadVarInt(r, 10) ELSE ReadSignedVarInt(r, 10)
      BY <1>1 DEF DecodeInt64
    <2>3. /\ EncodeInt(prop, v) \in BitStrings
          /\ Reads(r, IF Has(prop, "UNSIGNED") THEN ReadVarInt(r, 10) ELSE ReadSignedVarInt(r, 10), EncodeInt(prop, v), v)
      BY <1>1, <2>1, VarIntPropReads
    <2> QED BY <2>1, <2>2, <2>3, Zenon
  <1>2. CASE ~Has(prop, "VARINT") /\ prop.numBits <= 32
    <2>1. EncodeInt64(prop, v) = EncodeInt(prop, v) /\ FitsInt(prop, v)
      BY <1>2, Zenon DEF EncodeInt64, FitsInt64
    <2>2. prop.numBits \in 0..32
      <3>1. CASE Has(prop, "UNSIGNED")
        <4>1. Fits(v, prop.numBits)
          BY <3>1, <1>2, <2>1 DEF FitsInt
        <4> QED BY <4>1, FitsRange
      <3>2. CASE ~Has(prop, "UNSIGNED")
        <4>1. FitsSigned(v, prop.numBits)
          BY <3>2, <1>2, <2>1 DEF FitsInt
        <4>2. prop.numBits \in 1..31
          BY <4>1, Zenon DEF FitsSigned
        <4> QED BY <4>2
      <3> QED BY <3>1, <3>2
    <2>3. DecodeInt64(r, prop) = DecodeInt(r, prop)
      <3>1. ~(prop.numBits > 32)
        BY <2>2
      <3> QED BY <3>1, <1>2 DEF DecodeInt64
    <2> QED BY <2>1, <2>3, IntReads
  <1>3. CASE ~Has(prop, "VARINT") /\ ~(prop.numBits <= 32)
    <2>1. prop.numBits \in 33..63
      BY <1>3, Zenon DEF FitsInt64
    <2>2. prop.numBits > 32
      BY <2>1
    <2> QED BY <1>3, <2>1, <2>2, PairReads
  <1> QED BY <1>1, <1>2, <1>3

-----------------------------------------------------------------------------
(* Vectors. *)

LEMMA TwoLong == \A x, y : Len(<<x, y>>) = 2
  OBVIOUS

LEMMA ThreeLong == \A x, y, z : Len(<<x, y, z>>) = 3
  OBVIOUS

\* A reader that has thrown carries anything.
LEMMA SomeReader ==
  \E r : IsReader(r) /\ \A e : Carries(r, e)
  <1> DEFINE r == [bits |-> <<>>, cursor |-> 0, value |-> 0, threw |-> TRUE]
  <1>1. IsReader(r)
    BY DEF IsReader
  <1>2. \A e : Carries(r, e)
    BY DEF Carries
  <1> QED BY <1>1, <1>2, Zenon

LEMMA FloatBits ==
  ASSUME NEW prop, NEW v, FitsFloat(prop, v)
  PROVE  EncodeFloat(prop, v) \in BitStrings
  <1>1. PICK r : IsReader(r) /\ \A e : Carries(r, e)
    BY SomeReader, Zenon
  <1> QED BY <1>1, FloatReads

LEMMA VectorXYReads ==
  ASSUME NEW r, IsReader(r), NEW prop, NEW v, v = <<v[1], v[2]>>, FitsFloat(prop, v[1]), FitsFloat(prop, v[2]),
         Carries(r, EncodeFloat(prop, v[1]) \o EncodeFloat(prop, v[2]))
  PROVE  /\ EncodeFloat(prop, v[1]) \in BitStrings /\ EncodeFloat(prop, v[2]) \in BitStrings
         /\ EncodeFloat(prop, v[1]) \o EncodeFloat(prop, v[2]) \in BitStrings
         /\ Reads(r, DecodeVectorXY(r, prop), EncodeFloat(prop, v[1]) \o EncodeFloat(prop, v[2]), v)
  <1> DEFINE e1 == EncodeFloat(prop, v[1])
             e2 == EncodeFloat(prop, v[2])
             x == DecodeFloat(r, prop)
             y == DecodeFloat(x, prop)
             pair == <<x.value, y.value>>
  <1>1. DecodeVectorXY(r, prop) = Returning(y, pair)
    BY Zenon DEF DecodeVectorXY, DecodeSecond, Pair
  <1>2. e1 \in BitStrings /\ e2 \in BitStrings
    BY FloatBits
  <1>3. Carries(r, e1)
    <2> HIDE DEF e1, e2
    <2>1. Carries(r, e1 \o e2)
      BY DEF e1, e2
    <2> QED BY <1>2, <2>1, CarriesFirst
  <1>4. Reads(r, x, e1, v[1])
    BY <1>3, FloatReads
  <1> HIDE DEF x
  <1>5. Carries(x, e2) /\ IsReader(x)
    <2> HIDE DEF e1, e2
    <2>1. Carries(r, e1 \o e2)
      BY DEF e1, e2
    <2> QED BY <1>2, <2>1, <1>4, CarriesOn
  <1>6. Reads(x, y, e2, v[2])
    BY <1>5, FloatReads
  <1> HIDE DEF y, e1, e2
  <1>7. Reads(r, y, e1 \o e2, v[2])
    BY <1>2, <1>4, <1>6, ReadsOn
  <1>8. ~y.threw => pair = v
    <2>1. ASSUME ~y.threw PROVE x.value = v[1] /\ y.value = v[2]
      BY <2>1, <1>4, <1>6, ReadsValue
    <2> QED BY <2>1, Zenon
  <1> HIDE DEF pair
  <1>9. Reads(r, Returning(y, pair), e1 \o e2, v)
    BY <1>7, <1>8, ReturningReads
  <1>10. e1 \o e2 \in BitStrings
    BY <1>2, Joined
  <1> QED BY <1>1, <1>2, <1>9, <1>10 DEF e1, e2

\* The third component: a sign for a normal.
EncodeZ(prop, z) == IF Has(prop, "NORMAL") THEN <<z>> ELSE EncodeFloat(prop, z)
FitsZ(prop, z) == IF Has(prop, "NORMAL") THEN z \in {0, 1} ELSE FitsFloat(prop, z)

LEMMA ZReads ==
  ASSUME NEW r, IsReader(r), NEW prop, NEW z, FitsZ(prop, z), Carries(r, EncodeZ(prop, z))
  PROVE  /\ EncodeZ(prop, z) \in BitStrings
         /\ Reads(r, IF Has(prop, "NORMAL") THEN ReadBit(r) ELSE DecodeFloat(r, prop), EncodeZ(prop, z), z)
  <1>1. CASE Has(prop, "NORMAL")
    <2>1. EncodeZ(prop, z) = <<z>> /\ z \in {0, 1}
      BY <1>1, Zenon DEF EncodeZ, FitsZ
    <2> QED BY <1>1, <2>1, BitReads
  <1>2. CASE ~Has(prop, "NORMAL")
    <2>1. EncodeZ(prop, z) = EncodeFloat(prop, z) /\ FitsFloat(prop, z)
      BY <1>2, Zenon DEF EncodeZ, FitsZ
    <2> QED BY <1>2, <2>1, FloatReads
  <1> QED BY <1>1, <1>2

LEMMA ZBits ==
  ASSUME NEW prop, NEW z, FitsZ(prop, z)
  PROVE  EncodeZ(prop, z) \in BitStrings
  <1>1. CASE Has(prop, "NORMAL")
    BY <1>1, SingleBit DEF EncodeZ, FitsZ
  <1>2. CASE ~Has(prop, "NORMAL")
    BY <1>2, FloatBits DEF EncodeZ, FitsZ
  <1> QED BY <1>1, <1>2

LEMMA VectorReads ==
  ASSUME NEW r, IsReader(r), NEW prop, NEW v, v = <<v[1], v[2], v[3]>>,
         FitsFloat(prop, v[1]), FitsFloat(prop, v[2]), FitsZ(prop, v[3]), Carries(r, EncodeVector(prop, v))
  PROVE  EncodeVector(prop, v) \in BitStrings /\ Reads(r, DecodeVector(r, prop), EncodeVector(prop, v), v)
  <1> DEFINE xy == <<v[1], v[2]>>
             e1 == EncodeFloat(prop, v[1]) \o EncodeFloat(prop, v[2])
             e2 == EncodeZ(prop, v[3])
             r1 == DecodeVectorXY(r, prop)
             r2 == IF Has(prop, "NORMAL") THEN ReadBit(r1) ELSE DecodeFloat(r1, prop)
             triple == <<r1.value[1], r1.value[2], r2.value>>
  <1>1. DecodeVector(r, prop) = Returning(r2, triple)
    BY Zenon DEF DecodeVector, DecodeThird, Triple
  <1>2. EncodeVector(prop, v) = e1 \o e2
    <2>1. Len(v) = 3
      BY Zenon, ThreeLong
    <2>2. ~(Len(v) = 2)
      BY <2>1
    <2> QED BY <2>2, Zenon DEF EncodeVector, EncodeZ
  <1>3. xy[1] = v[1] /\ xy[2] = v[2] /\ xy = <<xy[1], xy[2]>>
    OBVIOUS
  <1>4. e1 \in BitStrings
    BY FloatBits, Joined
  <1>5. e2 \in BitStrings
    BY ZBits
  <1>6. Carries(r, e1 \o e2) /\ Carries(r, e1)
    <2>1. Carries(r, e1 \o e2)
      BY <1>2
    <2> HIDE DEF e1, e2
    <2> QED BY <2>1, <1>4, <1>5, CarriesFirst
  <1>7. Reads(r, r1, e1, xy)
    <2>1. Carries(r, EncodeFloat(prop, v[1]) \o EncodeFloat(prop, v[2]))
      BY <1>6
    <2> HIDE DEF e1, xy
    <2>2. FitsFloat(prop, xy[1]) /\ FitsFloat(prop, xy[2])
          /\ Carries(r, EncodeFloat(prop, xy[1]) \o EncodeFloat(prop, xy[2]))
      BY <1>3, <2>1
    <2>3. Reads(r, DecodeVectorXY(r, prop), EncodeFloat(prop, xy[1]) \o EncodeFloat(prop, xy[2]), xy)
      BY <1>3, <2>2, VectorXYReads
    <2> QED BY <2>3, <1>3 DEF e1
  <1> HIDE DEF r1
  <1>8. Carries(r1, e2) /\ IsReader(r1)
    <2> HIDE DEF e1, e2, xy
    <2> QED BY <1>4, <1>5, <1>6, <1>7, CarriesOn
  <1>9. Reads(r1, r2, e2, v[3])
    BY <1>8, ZReads
  <1> HIDE DEF r2, e1, e2
  <1>10. Reads(r, r2, e1 \o e2, v[3])
    <2> HIDE DEF xy
    <2> QED BY <1>4, <1>5, <1>7, <1>9, ReadsOn
  <1>11. ~r2.threw => triple = v
    <2> HIDE DEF xy
    <2>1. ASSUME ~r2.threw PROVE r1.value = xy /\ r2.value = v[3]
      BY <2>1, <1>7, <1>9, ReadsValue
    <2>2. ASSUME ~r2.threw PROVE triple = <<v[1], v[2], v[3]>>
      BY <2>1, <2>2, <1>3, Zenon
    <2> QED BY <2>2, Zenon
  <1> HIDE DEF triple
  <1>12. Reads(r, Returning(r2, triple), e1 \o e2, v)
    BY <1>10, <1>11, ReturningReads
  <1>13. e1 \o e2 \in BitStrings
    BY <1>4, <1>5, Joined
  <1> QED BY <1>1, <1>2, <1>12, <1>13, Zenon

-----------------------------------------------------------------------------
(* Props. *)

LEMMA ScalarReads ==
  ASSUME NEW r, IsReader(r), NEW leaf, NEW v, FitsScalar(leaf, v), Carries(r, EncodeScalar(leaf, v))
  PROVE  EncodeScalar(leaf, v) \in BitStrings /\ Reads(r, DecodeScalar(r, leaf), EncodeScalar(leaf, v), v)
  <1> DEFINE t == leaf.prop.type
             p == leaf.prop
             e == EncodeScalar(leaf, v)
             out == DecodeScalar(r, leaf)
  <1>0. t = "INT" \/ t = "INT64" \/ t = "FLOAT" \/ t = "VECTORXY" \/ t = "VECTOR" \/ t = "STRING"
    BY DEF FitsScalar
  <1>1. CASE t = "INT"
    <2>1. FitsInt(p, v) /\ e = EncodeInt(p, v) /\ out = DecodeInt(r, p)
      BY <1>1 DEF FitsScalar, EncodeScalar, DecodeScalar
    <2> QED BY <2>1, IntReads
  <1>2. CASE t = "INT64"
    <2>1. FitsInt64(p, v) /\ e = EncodeInt64(p, v) /\ out = DecodeInt64(r, p)
      BY <1>2 DEF FitsScalar, EncodeScalar, DecodeScalar
    <2> QED BY <2>1, Int64Reads
  <1>3. CASE t = "FLOAT"
    <2>1. FitsFloat(p, v) /\ e = EncodeFloat(p, v) /\ out = DecodeFloat(r, p)
      BY <1>3 DEF FitsScalar, EncodeScalar, DecodeScalar
    <2> QED BY <2>1, FloatReads
  <1>4. CASE t = "VECTORXY"
    <2>1. /\ v = <<v[1], v[2]>> /\ FitsFloat(p, v[1]) /\ FitsFloat(p, v[2])
          /\ e = EncodeVector(p, v) /\ out = DecodeVectorXY(r, p)
      BY <1>4 DEF FitsScalar, EncodeScalar, DecodeScalar
    <2>2. Len(v) = 2
      BY <2>1, TwoLong, Zenon
    <2> DEFINE d == EncodeFloat(p, v[1]) \o EncodeFloat(p, v[2])
    <2>3. EncodeVector(p, v) = d \o <<>>
      BY <2>2, Zenon DEF EncodeVector
    <2>4. d \in BitStrings
      BY <2>1, FloatBits, Joined
    <2> HIDE DEF d
    <2>5. e = d
      BY <2>1, <2>3, <2>4, JoinEmpty, Zenon
    <2> QED BY <2>1, <2>5, VectorXYReads DEF d
  <1>5. CASE t = "VECTOR"
    <2>1. /\ v = <<v[1], v[2], v[3]>> /\ FitsFloat(p, v[1]) /\ FitsFloat(p, v[2]) /\ FitsZ(p, v[3])
          /\ e = EncodeVector(p, v) /\ out = DecodeVector(r, p)
      BY <1>5 DEF FitsScalar, EncodeScalar, DecodeScalar, FitsZ
    <2> QED BY <2>1, VectorReads
  <1>6. CASE t = "STRING"
    <2>1. FitsString(v) /\ e = EncodeString(v) /\ out = DecodeString(r)
      BY <1>6 DEF FitsScalar, EncodeScalar, DecodeScalar
    <2> QED BY <2>1, StringReads
  <1> QED BY <1>0, <1>1, <1>2, <1>3, <1>4, <1>5, <1>6

LEMMA ScalarBits ==
  ASSUME NEW leaf, NEW v, FitsScalar(leaf, v)
  PROVE  EncodeScalar(leaf, v) \in BitStrings
  <1>1. PICK r : IsReader(r) /\ \A e : Carries(r, e)
    BY SomeReader, Zenon
  <1> QED BY <1>1, ScalarReads

LEMMA WordRange == \A n : Word16(n) => n \in Nat /\ n > 0
  BY SMT DEF Word16

LEMMA WordBefore == \A n : Word16(n) /\ ~(n <= 2) => Word16(n - 1)
  BY PowerValues, SMT DEF Word16

LEMMA PowersAround ==
  ASSUME NEW n, Word16(n)
  PROVE  \E w \in 1..31 : Pow2(w) > n /\ Pow2(w - 1) <= n
  <1> DEFINE Around(w) == Pow2(w) > n /\ Pow2(w - 1) <= n
             Found == \E w \in 1..31 : Around(w)
  <1>0. n \in Nat /\ n > 0 /\ n < 65536
    BY PowerValues, SMT DEF Word16
  <1>1. n < 2 => Found
    <2>1. n < 2 /\ n > 0 => Around(1)
      BY <1>0, PowerValues, SMT
    <2>2. Around(1) => Found
      <3>1. 1 \in 1..31
        OBVIOUS
      <3> HIDE DEF Around
      <3> QED BY <3>1, Zenon
    <2> HIDE DEF Around, Found
    <2> QED BY <1>0, <2>1, <2>2, SMT
  <1>2. n < 4 => Found
    <2>1. n < 4 /\ ~(n < 2) => Around(2)
      BY <1>0, PowerValues, SMT
    <2>2. Around(2) => Found
      <3>1. 2 \in 1..31
        OBVIOUS
      <3> HIDE DEF Around
      <3> QED BY <3>1, Zenon
    <2> HIDE DEF Around, Found
    <2> QED BY <1>1, <2>1, <2>2, SMT
  <1>3. n < 8 => Found
    <2>1. n < 8 /\ ~(n < 4) => Around(3)
      BY <1>0, PowerValues, SMT
    <2>2. Around(3) => Found
      <3>1. 3 \in 1..31
        OBVIOUS
      <3> HIDE DEF Around
      <3> QED BY <3>1, Zenon
    <2> HIDE DEF Around, Found
    <2> QED BY <1>2, <2>1, <2>2, SMT
  <1>4. n < 16 => Found
    <2>1. n < 16 /\ ~(n < 8) => Around(4)
      BY <1>0, PowerValues, SMT
    <2>2. Around(4) => Found
      <3>1. 4 \in 1..31
        OBVIOUS
      <3> HIDE DEF Around
      <3> QED BY <3>1, Zenon
    <2> HIDE DEF Around, Found
    <2> QED BY <1>3, <2>1, <2>2, SMT
  <1>5. n < 32 => Found
    <2>1. n < 32 /\ ~(n < 16) => Around(5)
      BY <1>0, PowerValues, SMT
    <2>2. Around(5) => Found
      <3>1. 5 \in 1..31
        OBVIOUS
      <3> HIDE DEF Around
      <3> QED BY <3>1, Zenon
    <2> HIDE DEF Around, Found
    <2> QED BY <1>4, <2>1, <2>2, SMT
  <1>6. n < 64 => Found
    <2>1. n < 64 /\ ~(n < 32) => Around(6)
      BY <1>0, PowerValues, SMT
    <2>2. Around(6) => Found
      <3>1. 6 \in 1..31
        OBVIOUS
      <3> HIDE DEF Around
      <3> QED BY <3>1, Zenon
    <2> HIDE DEF Around, Found
    <2> QED BY <1>5, <2>1, <2>2, SMT
  <1>7. n < 128 => Found
    <2>1. n < 128 /\ ~(n < 64) => Around(7)
      BY <1>0, PowerValues, SMT
    <2>2. Around(7) => Found
      <3>1. 7 \in 1..31
        OBVIOUS
      <3> HIDE DEF Around
      <3> QED BY <3>1, Zenon
    <2> HIDE DEF Around, Found
    <2> QED BY <1>6, <2>1, <2>2, SMT
  <1>8. n < 256 => Found
    <2>1. n < 256 /\ ~(n < 128) => Around(8)
      BY <1>0, PowerValues, SMT
    <2>2. Around(8) => Found
      <3>1. 8 \in 1..31
        OBVIOUS
      <3> HIDE DEF Around
      <3> QED BY <3>1, Zenon
    <2> HIDE DEF Around, Found
    <2> QED BY <1>7, <2>1, <2>2, SMT
  <1>9. n < 512 => Found
    <2>1. n < 512 /\ ~(n < 256) => Around(9)
      BY <1>0, PowerValues, SMT
    <2>2. Around(9) => Found
      <3>1. 9 \in 1..31
        OBVIOUS
      <3> HIDE DEF Around
      <3> QED BY <3>1, Zenon
    <2> HIDE DEF Around, Found
    <2> QED BY <1>8, <2>1, <2>2, SMT
  <1>10. n < 1024 => Found
    <2>1. n < 1024 /\ ~(n < 512) => Around(10)
      BY <1>0, PowerValues, SMT
    <2>2. Around(10) => Found
      <3>1. 10 \in 1..31
        OBVIOUS
      <3> HIDE DEF Around
      <3> QED BY <3>1, Zenon
    <2> HIDE DEF Around, Found
    <2> QED BY <1>9, <2>1, <2>2, SMT
  <1>11. n < 2048 => Found
    <2>1. n < 2048 /\ ~(n < 1024) => Around(11)
      BY <1>0, PowerValues, SMT
    <2>2. Around(11) => Found
      <3>1. 11 \in 1..31
        OBVIOUS
      <3> HIDE DEF Around
      <3> QED BY <3>1, Zenon
    <2> HIDE DEF Around, Found
    <2> QED BY <1>10, <2>1, <2>2, SMT
  <1>12. n < 4096 => Found
    <2>1. n < 4096 /\ ~(n < 2048) => Around(12)
      BY <1>0, PowerValues, SMT
    <2>2. Around(12) => Found
      <3>1. 12 \in 1..31
        OBVIOUS
      <3> HIDE DEF Around
      <3> QED BY <3>1, Zenon
    <2> HIDE DEF Around, Found
    <2> QED BY <1>11, <2>1, <2>2, SMT
  <1>13. n < 8192 => Found
    <2>1. n < 8192 /\ ~(n < 4096) => Around(13)
      BY <1>0, PowerValues, SMT
    <2>2. Around(13) => Found
      <3>1. 13 \in 1..31
        OBVIOUS
      <3> HIDE DEF Around
      <3> QED BY <3>1, Zenon
    <2> HIDE DEF Around, Found
    <2> QED BY <1>12, <2>1, <2>2, SMT
  <1>14. n < 16384 => Found
    <2>1. n < 16384 /\ ~(n < 8192) => Around(14)
      BY <1>0, PowerValues, SMT
    <2>2. Around(14) => Found
      <3>1. 14 \in 1..31
        OBVIOUS
      <3> HIDE DEF Around
      <3> QED BY <3>1, Zenon
    <2> HIDE DEF Around, Found
    <2> QED BY <1>13, <2>1, <2>2, SMT
  <1>15. n < 32768 => Found
    <2>1. n < 32768 /\ ~(n < 16384) => Around(15)
      BY <1>0, PowerValues, SMT
    <2>2. Around(15) => Found
      <3>1. 15 \in 1..31
        OBVIOUS
      <3> HIDE DEF Around
      <3> QED BY <3>1, Zenon
    <2> HIDE DEF Around, Found
    <2> QED BY <1>14, <2>1, <2>2, SMT
  <1>16. n < 65536 => Found
    <2>1. n < 65536 /\ ~(n < 32768) => Around(16)
      BY <1>0, PowerValues, SMT
    <2>2. Around(16) => Found
      <3>1. 16 \in 1..31
        OBVIOUS
      <3> HIDE DEF Around
      <3> QED BY <3>1, Zenon
    <2> HIDE DEF Around, Found
    <2> QED BY <1>15, <2>1, <2>2, SMT
  <1> HIDE DEF Found
  <1>17. Found
    BY <1>0, <1>16, SMT
  <1> QED BY <1>17, Zenon DEF Found

LEMMA CountBitsHolds ==
  ASSUME NEW n, Word16(n)
  PROVE  CountBits(n) \in 1..31 /\ n < Pow2(CountBits(n))
  <1> DEFINE P(w) == Pow2(w) > n /\ Pow2(w - 1) <= n
             S == 1..31
  <1>0. n \in Nat /\ ~(n <= 0)
    BY WordRange
  <1>1. \E w \in S : P(w)
    BY PowersAround, Zenon
  <1>3. CountBits(n) = CHOOSE w \in S : P(w)
    BY <1>0, Zenon DEF CountBits, Pow2
  <1> HIDE DEF P, S
  <1>4. (\E w \in S : P(w)) => (CHOOSE w \in S : P(w)) \in S /\ P(CHOOSE w \in S : P(w))
    BY Zenon
  <1>5. CountBits(n) \in S /\ P(CountBits(n))
    BY <1>1, <1>3, <1>4, Zenon
  <1>6. CountBits(n) \in 1..31 /\ Pow2(CountBits(n)) > n
    BY <1>5, Zenon DEF P, S
  <1>7. Pow2(CountBits(n)) \in Nat
    BY <1>6, PowerPositive
  <1> QED BY <1>0, <1>6, <1>7

-----------------------------------------------------------------------------
(* Arrays, element by element. *)

ElementsRead(g, r, leaf, n) ==
  g = [i \in 0..n |-> IF i = 0 THEN Returning(r, <<>>) ELSE DecodeElement(g[i - 1], leaf)]

LEMMA ElementsExist ==
  ASSUME NEW r, NEW leaf, NEW n \in Nat
  PROVE  \E g : ElementsRead(g, r, leaf, n)
  <1> DEFINE G == {k \in 0..n : \E g : ElementsRead(g, r, leaf, k)}
             begins == Returning(r, <<>>)
  <1>1. 0 \in G
    <2> DEFINE g == [i \in 0..0 |-> begins]
    <2> HIDE DEF begins
    <2>1. g = [i \in 0..0 |-> IF i = 0 THEN begins ELSE DecodeElement(g[i - 1], leaf)]
      OBVIOUS
    <2>2. ElementsRead(g, r, leaf, 0)
      BY <2>1, Zenon DEF ElementsRead, begins
    <2> QED BY <2>2
  <1>2. ASSUME NEW k \in 0..n - 1, k \in G PROVE k + 1 \in G
    <2>1. PICK g : ElementsRead(g, r, leaf, k)
      BY <1>2
    <2> DEFINE next == DecodeElement(g[k], leaf)
               h == [i \in 0..k + 1 |-> IF i = k + 1 THEN next ELSE g[i]]
    <2> HIDE DEF next, begins
    <2>2. ASSUME NEW i \in 0..k + 1
          PROVE  h[i] = IF i = 0 THEN begins ELSE DecodeElement(h[i - 1], leaf)
      <3>1. CASE i = k + 1
        <4>1. h[i] = next /\ h[k] = g[k] /\ i # 0 /\ i - 1 = k
          BY <3>1
        <4> HIDE DEF h
        <4> QED BY <4>1, Zenon DEF next
      <3>2. CASE i # k + 1
        <4>1. i \in 0..k /\ h[i] = g[i]
          BY <3>2
        <4>2. g[i] = IF i = 0 THEN begins ELSE DecodeElement(g[i - 1], leaf)
          BY <2>1, <4>1, Zenon DEF ElementsRead, begins
        <4>3. i # 0 => h[i - 1] = g[i - 1]
          BY <4>1
        <4> HIDE DEF h
        <4> QED BY <4>1, <4>2, <4>3, Zenon
      <3> QED BY <3>1, <3>2
    <2>3. ElementsRead(h, r, leaf, k + 1)
      <3>1. h = [i \in 0..k + 1 |-> h[i]]
        OBVIOUS
      <3> HIDE DEF h
      <3>2. h = [i \in 0..k + 1 |-> IF i = 0 THEN begins ELSE DecodeElement(h[i - 1], leaf)]
        BY <2>2, <3>1
      <3> QED BY <3>2, Zenon DEF ElementsRead, begins
    <2> QED BY <2>3
  <1> HIDE DEF G
  <1>3. \A k \in 0..n : k \in G
    BY <1>1, <1>2, IntervalInduction
  <1>4. n \in 0..n
    OBVIOUS
  <1> QED BY <1>3, <1>4 DEF G

LEMMA DecodeArrayIs ==
  ASSUME NEW r, NEW leaf, NEW count, count = ReadBits(r, CountBits(leaf.prop.numElements)),
         ~count.threw, leaf.element # <<>>, count.value \in Nat
  PROVE  \E g : ElementsRead(g, count, leaf.element[1], count.value) /\ DecodeArray(r, leaf) = g[count.value]
  <1> DEFINE a == CHOOSE g : ElementsRead(g, count, leaf.element[1], count.value)
  <1>1. ElementsRead(a, count, leaf.element[1], count.value)
    <2>1. \E g : ElementsRead(g, count, leaf.element[1], count.value)
      BY ElementsExist
    <2> QED BY <2>1, Zenon
  <1>2. DecodeArray(r, leaf) = a[count.value]
    BY Zenon DEF DecodeArray, ElementsRead
  <1> HIDE DEF a
  <1> QED BY <1>1, <1>2

LEMMA OneMore ==
  ASSUME NEW S, NEW v \in Seq(S), NEW i \in 0..Len(v) - 1
  PROVE  Append(SubSeq(v, 1, i), v[i + 1]) = SubSeq(v, 1, i + 1)
  <1> DEFINE a == SubSeq(v, 1, i)
             b == SubSeq(v, 1, i + 1)
  <1>0. Len(v) \in Nat /\ i + 1 \in 1..Len(v) /\ v[i + 1] \in S
    BY ElementOfSeq, LenProperties
  <1>1. a \in Seq(S) /\ Len(a) = i /\ \A k \in 1..i : a[k] = v[k]
    BY <1>0
  <1>2. b \in Seq(S) /\ Len(b) = i + 1 /\ \A k \in 1..i + 1 : b[k] = v[k]
    BY <1>0
  <1> HIDE DEF a, b
  <1>3. Append(a, v[i + 1]) \in Seq(S) /\ Len(Append(a, v[i + 1])) = i + 1
    BY <1>0, <1>1
  <1>4. \A k \in 1..i + 1 : Append(a, v[i + 1])[k] = b[k]
    BY <1>0, <1>1, <1>2
  <1>5. Append(a, v[i + 1]) = b
    BY <1>2, <1>3, <1>4, SeqEqual
  <1> QED BY <1>5 DEF a, b

ElementBits(leaf, v) == [i \in DOMAIN v |-> EncodeScalar(leaf, v[i])]

LEMMA ElementsFlat ==
  ASSUME NEW leaf, NEW S, NEW v \in Seq(S), \A i \in DOMAIN v : FitsScalar(leaf, v[i])
  PROVE  LET s == ElementBits(leaf, v)
             n == Len(v)
         IN /\ n \in Nat /\ DOMAIN v = 1..n /\ FlatTo(s, 0) = <<>> /\ FlatTo(s, n) = FlattenSeq(s)
            /\ \A i \in 1..n : s[i] = EncodeScalar(leaf, v[i]) /\ s[i] \in BitStrings
            /\ \A k \in 0..n : FlatTo(s, k) \in BitStrings
  <1> DEFINE s == ElementBits(leaf, v)
             n == Len(v)
  <1>1. n \in Nat /\ DOMAIN v = 1..n
    OBVIOUS
  <1>2. \A i \in 1..n : s[i] = EncodeScalar(leaf, v[i]) /\ s[i] \in BitStrings
    BY <1>1, ScalarBits DEF ElementBits
  <1>3. s = [i \in 1..n |-> s[i]]
    BY <1>1 DEF ElementBits
  <1> HIDE DEF s, n
  <1>4. FlatTo(s, 0) = <<>> /\ \A k \in 0..n : FlatTo(s, k) \in BitStrings
    BY <1>1, <1>2, FlatToStep
  <1>5. FlatTo(s, n) = FlattenSeq(s)
    BY <1>1, <1>3, FlatToAll
  <1> QED BY <1>1, <1>2, <1>4, <1>5 DEF s, n

LEMMA ElementsReads ==
  ASSUME NEW r, IsReader(r), NEW leaf, NEW S, NEW v \in Seq(S), \A i \in DOMAIN v : FitsScalar(leaf, v[i]),
         NEW e, e = FlattenSeq(ElementBits(leaf, v)), Carries(r, e),
         NEW g, ElementsRead(g, r, leaf, Len(v))
  PROVE  e \in BitStrings /\ Reads(r, g[Len(v)], e, v)
  <1> DEFINE s == ElementBits(leaf, v)
             n == Len(v)
  <1>0. /\ n \in Nat /\ DOMAIN v = 1..n /\ FlatTo(s, 0) = <<>> /\ FlatTo(s, n) = e
        /\ \A i \in 1..n : s[i] = EncodeScalar(leaf, v[i]) /\ s[i] \in BitStrings
        /\ \A k \in 0..n : FlatTo(s, k) \in BitStrings
    BY ElementsFlat
  <1> HIDE DEF s
  <1>1. e \in BitStrings
    <2>1. n \in 0..n
      BY <1>0
    <2> QED BY <1>0, <2>1
  <1> DEFINE G == {i \in 0..n : Reads(r, g[i], FlatTo(s, i), SubSeq(v, 1, i))}
  <1>2. 0 \in G
    <2>1. g[0] = Returning(r, <<>>)
      BY <1>0 DEF ElementsRead
    <2>2. Reads(r, r, <<>>, r.value)
      BY NothingTaken, NoBits DEF Reads
    <2>3. SubSeq(v, 1, 0) = <<>>
      OBVIOUS
    <2>4. Reads(r, Returning(r, <<>>), <<>>, <<>>)
      BY <2>2, ReturningReads
    <2>5. Reads(r, g[0], FlatTo(s, 0), SubSeq(v, 1, 0))
      BY <1>0, <2>1, <2>3, <2>4, Zenon
    <2>6. 0 \in 0..n
      BY <1>0
    <2> QED BY <2>5, <2>6
  <1>3. ASSUME NEW i \in 0..n - 1, i \in G PROVE i + 1 \in G
    <2> DEFINE a == g[i]
               read == DecodeScalar(a, leaf)
               x == v[i + 1]
    <2>1. i + 1 \in 0..n /\ i + 1 \in 1..n /\ i + 1 # 0 /\ (i + 1) - 1 = i
      BY <1>0
    <2>2. g[i + 1] = DecodeElement(a, leaf)
      <3> HIDE DEF n
      <3>1. g = [k \in 0..n |-> IF k = 0 THEN Returning(r, <<>>) ELSE DecodeElement(g[k - 1], leaf)]
        BY Zenon DEF ElementsRead, n
      <3> QED BY <2>1, <3>1, Zenon
    <2>3. Reads(r, a, FlatTo(s, i), SubSeq(v, 1, i))
      BY <1>3
    <2>4. /\ FlatTo(s, i + 1) = FlatTo(s, i) \o s[i + 1] /\ FlatTo(s, i) \in BitStrings
          /\ s[i + 1] \in BitStrings /\ Starts(FlatTo(s, i) \o s[i + 1], e)
      BY <1>0, NextStarts
    <2> HIDE DEF a, G
    <2>5. Carries(a, s[i + 1]) /\ IsReader(a)
      BY <1>1, <2>3, <2>4, CarriesNext
    <2>6. Reads(a, read, s[i + 1], x)
      BY <1>0, <2>1, <2>5, ScalarReads
    <2> HIDE DEF read
    <2>7. Reads(r, read, FlatTo(s, i + 1), x)
      BY <2>3, <2>4, <2>6, ReadsOn
    <2>8. ~read.threw => Append(a.value, read.value) = SubSeq(v, 1, i + 1)
      <3>1. Append(SubSeq(v, 1, i), x) = SubSeq(v, 1, i + 1)
        BY OneMore
      <3> DEFINE sofar == SubSeq(v, 1, i)
      <3> HIDE DEF sofar, x
      <3>2. Reads(r, a, FlatTo(s, i), sofar) /\ Append(sofar, x) = SubSeq(v, 1, i + 1)
        BY <2>3, <3>1 DEF sofar
      <3>3. ASSUME ~read.threw PROVE a.value = sofar /\ read.value = x
        BY <3>2, <3>3, <2>6, ReadsValue
      <3> QED BY <3>2, <3>3, Zenon
    <2>9. Reads(r, Returning(read, Append(a.value, read.value)), FlatTo(s, i + 1), SubSeq(v, 1, i + 1))
      BY <2>7, <2>8, ReturningReads
    <2>10. DecodeElement(a, leaf) = Returning(read, Append(a.value, read.value))
      BY Zenon DEF DecodeElement, Collected, read
    <2> QED BY <2>1, <2>2, <2>9, <2>10 DEF G
  <1> HIDE DEF G
  <1>4. \A i \in 0..n : i \in G
    BY <1>0, <1>2, <1>3, IntervalInduction
  <1>5. n \in 0..n
    BY <1>0
  <1>6. Reads(r, g[n], FlatTo(s, n), SubSeq(v, 1, n))
    BY <1>4, <1>5 DEF G
  <1>7. SubSeq(v, 1, n) = v
    OBVIOUS
  <1> QED BY <1>0, <1>1, <1>6, <1>7

LEMMA ArrayReads ==
  ASSUME NEW r, IsReader(r), NEW leaf, NEW v, FitsArray(leaf, v), Carries(r, EncodeArray(leaf, v))
  PROVE  EncodeArray(leaf, v) \in BitStrings /\ Reads(r, DecodeArray(r, leaf), EncodeArray(leaf, v), v)
  <1> DEFINE n == Len(v)
             w == CountBits(leaf.prop.numElements)
             e1 == Bits(n, w)
             e2 == FlattenSeq(ElementBits(leaf.element[1], v))
             count == ReadBits(r, w)
             out == DecodeArray(r, leaf)
  <1>1. /\ v \in Seq(Range(v)) /\ \A i \in DOMAIN v : FitsScalar(leaf.element[1], v[i])
        /\ Word16(leaf.prop.numElements) /\ n \in Nat /\ n <= leaf.prop.numElements /\ leaf.element # <<>>
    BY DEF FitsArray
  <1>2. w \in 1..31 /\ n < Pow2(w)
    <2>1. w \in 1..31 /\ leaf.prop.numElements < Pow2(w)
      BY <1>1, CountBitsHolds
    <2>2. leaf.prop.numElements \in Nat
      BY <1>1, WordRange, Zenon
    <2>3. w \in 0..32
      BY <2>1
    <2> HIDE DEF w, n
    <2>4. Pow2(w) \in Nat
      BY <2>3, PowerPositive
    <2> QED BY <1>1, <2>1, <2>2, <2>4
  <1>3. Fits(n, w)
    <2> HIDE DEF n, w
    <2>1. CASE w = 31
      <3>1. n \in 0..MaxNumber
        <4>1. n < 2147483648
          BY <1>2, <2>1, PowerValues, SMT
        <4>2. n \in Nat
          BY <1>1
        <4>3. n <= MaxNumber
          BY <4>1, <4>2, SMT DEF MaxNumber
        <4> QED BY <4>2, <4>3, MaxNumberIs
      <3>2. w \in 0..32 /\ ~(w < 31)
        BY <2>1
      <3> QED BY <3>1, <3>2, SMT DEF Fits
    <2>2. CASE w # 31
      <3>1. w \in 0..30
        BY <1>2, <2>2
      <3> QED BY <1>1, <1>2, <3>1, SmallFits
    <2> QED BY <2>1, <2>2
  <1>4. EncodeArray(leaf, v) = e1 \o e2
    BY Zenon DEF EncodeArray, ElementBits
  <1>5. e1 \in BitStrings
    BY <1>3, FitsBits
  <1>6. e2 \in BitStrings
    <2>1. PICK q : IsReader(q) /\ \A e : Carries(q, e)
      BY SomeReader, Zenon
    <2>2. PICK g : ElementsRead(g, q, leaf.element[1], n)
      BY <1>1, ElementsExist
    <2> QED BY <1>1, <2>1, <2>2, ElementsReads
  <1>7. Carries(r, e1 \o e2) /\ Carries(r, e1)
    <2>1. Carries(r, e1 \o e2)
      BY <1>4
    <2> HIDE DEF e1, e2
    <2> QED BY <2>1, <1>5, <1>6, CarriesFirst
  <1>8. Reads(r, count, e1, n)
    BY <1>3, <1>7, FieldReads
  <1>9. CASE ~count.threw
    <2>1. count.value = n
      BY <1>8, <1>9, ReadsValue
    <2>2. PICK g : ElementsRead(g, count, leaf.element[1], n) /\ out = g[n]
      BY <1>1, <1>9, <2>1, DecodeArrayIs
    <2> HIDE DEF count, out
    <2>3. Carries(count, e2) /\ IsReader(count)
      <3> HIDE DEF e1, e2, n
      <3> QED BY <1>5, <1>6, <1>7, <1>8, CarriesOn
    <2>4. Reads(count, out, e2, v)
      BY <1>1, <2>2, <2>3, ElementsReads
    <2> HIDE DEF e1, e2, n
    <2>5. Reads(r, out, e1 \o e2, v)
      BY <1>5, <1>6, <1>8, <2>4, ReadsOn
    <2> QED BY <1>4, <1>5, <1>6, <2>5, Joined DEF out
  <1>10. CASE count.threw
    <2>1. out = Throwing(r)
      BY <1>10 DEF DecodeArray
    <2> HIDE DEF e1, e2, n, count
    <2>2. e1 \o e2 \in BitStrings /\ Starts(e1, e1 \o e2)
      BY <1>5, <1>6, Joined DEF Starts
    <2>3. Reads(r, count, e1 \o e2, v)
      BY <1>5, <1>8, <1>10, <2>2, ThrewOn
    <2>4. Reads(r, Throwing(r), e1 \o e2, v)
      <3>1. r.threw \/ r.cursor + Len(e1 \o e2) > Len(r.bits)
        BY <1>10, <2>3 DEF Reads, Takes
      <3>2. Len(e1 \o e2) \in Nat
        BY <2>2 DEF BitStrings
      <3> QED BY <3>1, <3>2, ThrowingThrows DEF Reads
    <2> QED BY <1>4, <2>1, <2>2, <2>4
  <1> QED BY <1>9, <1>10

-----------------------------------------------------------------------------
(* The values of a message. *)

\* decodeProp (properties/index.ts, decodeInt, decodeFloat, decodeVector, decodeString,
\* decodeArray and decodeInt64): wherever the reader is, and wherever the bits end, a
\* value that its encoding has room for is decoded as the server wrote it, from its own
\* bits and no others; the decoder throws exactly when they are not all there.
THEOREM PropReads ==
  ASSUME NEW r, IsReader(r), NEW leaf, NEW v, FitsProp(leaf, v), Carries(r, EncodeProp(leaf, v))
  PROVE  EncodeProp(leaf, v) \in BitStrings /\ Reads(r, DecodeProp(r, leaf), EncodeProp(leaf, v), v)
  <1>1. CASE leaf.prop.type = "ARRAY"
    <2>1. /\ FitsArray(leaf, v) /\ EncodeProp(leaf, v) = EncodeArray(leaf, v)
          /\ DecodeProp(r, leaf) = DecodeArray(r, leaf)
      BY <1>1, Zenon DEF FitsProp, EncodeProp, DecodeProp
    <2> QED BY <2>1, ArrayReads
  <1>2. CASE leaf.prop.type # "ARRAY"
    <2>1. /\ FitsScalar(leaf, v) /\ EncodeProp(leaf, v) = EncodeScalar(leaf, v)
          /\ DecodeProp(r, leaf) = DecodeScalar(r, leaf)
      BY <1>2, Zenon DEF FitsProp, EncodeProp, DecodeProp
    <2> QED BY <2>1, ScalarReads
  <1> QED BY <1>1, <1>2

LEMMA PropBits ==
  ASSUME NEW leaf, NEW v, FitsProp(leaf, v)
  PROVE  EncodeProp(leaf, v) \in BitStrings
  <1>1. PICK r : IsReader(r) /\ \A e : Carries(r, e)
    BY SomeReader, Zenon
  <1> QED BY <1>1, PropReads

-----------------------------------------------------------------------------
(* The bits of a message, whole or cut short, and a reader inside them. *)

\* The bytes that hold the bits, less those that were cut off.
ByteCount(w, cut) == (Len(w) + 7) \div 8 - cut
Padded(w, cut) == [k \in 1..8 * ByteCount(w, cut) |-> IF k <= Len(w) THEN w[k] ELSE 0]

LEMMA PaddedHolds ==
  ASSUME NEW w \in BitStrings, NEW cut \in Nat, Padded(w, cut) # <<>>
  PROVE  /\ Padded(w, cut) \in BitStrings /\ ByteCount(w, cut) \in Nat
         /\ Len(Padded(w, cut)) = 8 * ByteCount(w, cut)
         /\ \A k \in 1..Len(w) : k <= Len(Padded(w, cut)) => Padded(w, cut)[k] = w[k]
  <1> DEFINE n == ByteCount(w, cut)
             x == Padded(w, cut)
  <1>1. Len(w) \in Nat /\ n \in Int
    <2>1. Len(w) \in Nat
      BY DEF BitStrings
    <2> QED BY <2>1 DEF ByteCount
  <1>2. x = [k \in 1..8 * n |-> IF k <= Len(w) THEN w[k] ELSE 0]
    BY Zenon DEF Padded
  <1> HIDE DEF n, x
  <1>3. n > 0
    <2> SUFFICES ASSUME ~(n > 0) PROVE FALSE
      OBVIOUS
    <2>1. 1..8 * n = {}
      BY <1>1
    <2>2. x = [k \in {} |-> IF k <= Len(w) THEN w[k] ELSE 0]
      BY <1>2, <2>1, Zenon
    <2>3. x = <<>>
      BY <2>2
    <2> QED BY <2>3 DEF x
  <1>4. 8 * n \in Nat /\ n \in Nat
    BY <1>1, <1>3
  <1>5. \A k \in 1..8 * n : x[k] = (IF k <= Len(w) THEN w[k] ELSE 0) /\ x[k] \in {0, 1}
    <2> TAKE k \in 1..8 * n
    <2>1. x[k] = (IF k <= Len(w) THEN w[k] ELSE 0)
      BY <1>2
    <2>2. k <= Len(w) => w[k] \in {0, 1}
      BY <1>1 DEF BitStrings
    <2> QED BY <2>1, <2>2
  <1>6. x \in Seq({0, 1}) /\ Len(x) = 8 * n
    <2>1. x = [k \in 1..8 * n |-> x[k]]
      BY <1>2
    <2> QED BY <1>4, <1>5, <2>1, IsASeq
  <1>7. \A k \in 1..Len(w) : k <= Len(x) => x[k] = w[k]
    BY <1>1, <1>4, <1>5, <1>6
  <1> QED BY <1>4, <1>6, <1>7 DEF n, x, BitStrings

\* A reader over the bits w, cut short, has read the bits d.
At(start, w, reads, d) ==
  /\ w \in BitStrings /\ d \in BitStrings /\ Starts(d, w)
  /\ IsReader(start) /\ Carries(start, w)
  /\ Reads(start, reads, d, reads.value)

\* The next read.
LEMMA AtNext ==
  ASSUME NEW start, NEW w, NEW rd, NEW d, At(start, w, rd, d), NEW e \in BitStrings, Starts(d \o e, w)
  PROVE  Carries(rd, e) /\ IsReader(rd)
  BY CarriesNext DEF At

LEMMA AtThen ==
  ASSUME NEW start, NEW w, NEW rd, NEW d, At(start, w, rd, d), NEW e \in BitStrings, Starts(d \o e, w),
         NEW out, NEW v, Reads(rd, out, e, v)
  PROVE  /\ At(start, w, out, d \o e)
         /\ ~out.threw => ~rd.threw /\ out.value = v
  <1>1. Reads(start, out, d \o e, v)
    BY ReadsOn DEF At
  <1>2. ~out.threw => ~rd.threw /\ out.value = v
    BY ReadsValue
  <1>3. Reads(start, out, d \o e, out.value)
    BY <1>1 DEF Reads, Takes
  <1>4. d \o e \in BitStrings
    BY Joined DEF At
  <1> QED BY <1>2, <1>3, <1>4 DEF At

LEMMA AtReturning ==
  ASSUME NEW start, NEW w, NEW rd, NEW d, At(start, w, rd, d), NEW v
  PROVE  /\ At(start, w, Returning(rd, v), d)
         /\ Returning(rd, v).threw = rd.threw
  <1>1. Reads(start, rd, d, rd.value)
    BY DEF At
  <1>2. Reads(start, Returning(rd, v), d, v)
    <2> DEFINE x == rd.value
    <2>1. ~rd.threw => v = v
      OBVIOUS
    <2>2. Reads(start, rd, d, x)
      BY <1>1
    <2> HIDE DEF x
    <2> QED BY <2>1, <2>2, ReturningReads
  <1>3. IsReader(rd)
    BY <1>1, ReadsValue
  <1>4. Returning(rd, v).threw = rd.threw /\ Returning(rd, v).value = v
    BY <1>3 DEF Returning, IsReader
  <1> QED BY <1>2, <1>4 DEF At

\* A read throws only in a message that was cut short.
LEMMA CutShort ==
  ASSUME NEW w, NEW cut \in Nat, NEW rd, NEW d, Padded(w, cut) # <<>>,
         At(Reader(Padded(w, cut)), w, rd, d), rd.threw
  PROVE  cut > 0
  <1> DEFINE n == ByteCount(w, cut)
             x == Padded(w, cut)
  <1>1. w \in BitStrings /\ d \in BitStrings /\ Starts(d, w)
    BY DEF At
  <1>2. Len(d) \in Nat /\ Len(w) \in Nat /\ Len(d) <= Len(w)
    BY <1>1, StartsLength
  <1>3. Len(x) = 8 * n /\ n = (Len(w) + 7) \div 8 - cut
    BY <1>1, PaddedHolds DEF ByteCount
  <1>4. Len(d) > Len(x)
    <2>1. Takes(Reader(x), rd, Len(d), rd.value)
      BY DEF At, Reads
    <2>2. Reader(x).cursor = 0 /\ Reader(x).bits = x /\ Reader(x).threw = FALSE
      BY DEF Reader
    <2>3. 0 + Len(d) > Len(x)
      BY <2>1, <2>2 DEF Takes
    <2> QED BY <2>3, <1>2
  <1> HIDE DEF n, x
  <1>5. 8 * ((Len(w) + 7) \div 8) >= Len(w)
    BY <1>2
  <1> QED BY <1>2, <1>3, <1>4, <1>5

\* All of the bits are there only when nothing was cut off.
LEMMA ReadWhole ==
  ASSUME NEW w, NEW cut \in Nat, NEW rd, Padded(w, cut) # <<>>,
         At(Reader(Padded(w, cut)), w, rd, w), ~rd.threw
  PROVE  cut = 0
  <1> DEFINE n == ByteCount(w, cut)
             x == Padded(w, cut)
  <1>1. w \in BitStrings
    BY DEF At
  <1>2. Len(w) \in Nat
    BY <1>1 DEF BitStrings
  <1>3. Len(x) = 8 * n /\ n = (Len(w) + 7) \div 8 - cut
    BY <1>1, PaddedHolds DEF ByteCount
  <1>4. Len(w) <= Len(x)
    <2>1. Takes(Reader(x), rd, Len(w), rd.value)
      BY DEF At, Reads
    <2>2. Reader(x).cursor = 0 /\ Reader(x).bits = x /\ Reader(x).threw = FALSE
      BY DEF Reader
    <2>3. ~(0 + Len(w) > Len(x))
      BY <2>1, <2>2 DEF Takes
    <2>4. Len(x) \in Nat
      BY <1>1, <1>3, PaddedHolds
    <2> QED BY <2>3, <2>4, <1>2
  <1> HIDE DEF n, x
  <1>5. 8 * ((Len(w) + 7) \div 8) < Len(w) + 8
    BY <1>2
  <1> QED BY <1>2, <1>3, <1>4, <1>5

LEMMA AtStart ==
  ASSUME NEW w \in BitStrings, NEW cut \in Nat, Padded(w, cut) # <<>>
  PROVE  At(Reader(Padded(w, cut)), w, Reader(Padded(w, cut)), <<>>) /\ ~Reader(Padded(w, cut)).threw
  <1> DEFINE x == Padded(w, cut)
             r == [bits |-> x, cursor |-> 0, value |-> 0, threw |-> FALSE]
  <1>1. Reader(x) = r
    BY DEF Reader
  <1>2. x \in BitStrings /\ Len(x) \in Nat /\ \A k \in 1..Len(w) : k <= Len(x) => x[k] = w[k]
    <2>1. x \in BitStrings /\ \A k \in 1..Len(w) : k <= Len(x) => x[k] = w[k]
      BY PaddedHolds
    <2> HIDE DEF x
    <2> QED BY <2>1 DEF BitStrings
  <1> HIDE DEF x
  <1>3. IsReader(r)
    BY <1>2 DEF IsReader, BitStrings
  <1>4. Carries(r, w)
    BY <1>2 DEF Carries
  <1>5. Starts(<<>>, w)
    BY JoinEmpty DEF Starts
  <1>6. Reads(r, r, <<>>, r.value)
    <2>1. Takes(r, r, 0, r.value)
      BY <1>3, NothingTaken
    <2> HIDE DEF r
    <2> QED BY <2>1, NoBits DEF Reads
  <1>7. At(r, w, r, <<>>)
    <2> HIDE DEF r
    <2> QED BY <1>3, <1>4, <1>5, <1>6, NoBits DEF At
  <1> QED BY <1>1, <1>7 DEF x
=============================================================================
