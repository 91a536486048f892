-------------------------- MODULE PacketEntitiesProofs --------------------------
(***************************************************************************)
(* Theorems about the way of a prop from the tables of the server to a     *)
(* getter, for every list of props, every set of classes and every message *)
(* that the server's encodings have room for.                              *)
(*                                                                         *)
(* PrioritySort: the bucket sweep permutes the list and leaves the         *)
(* effective priorities ascending.  Its invariant is the state of the      *)
(* array during a sweep of bucket b with the write head w and the read     *)
(* head r: what is before w is in order and not above b, what lies from w  *)
(* to r - 1 was read and is above b, and what is not read yet is not below *)
(* b.                                                                      *)
(*                                                                         *)
(* EntityDeltas: what is decoded is what was sent.  BitStreamProofs has    *)
(* what the reads take.  The invariant says where the reader stands: in    *)
(* the bits of the message, behind those of the entries decoded, the       *)
(* indices read and the values read (Underway); so that what is left to    *)
(* read is what is left to decode.                                         *)
(*                                                                         *)
(* EntityViews: a getter finds its prop by name, and shows the value that  *)
(* was sent under the prop's index.                                        *)
(***************************************************************************)
EXTENDS PrioritySort, EntityViews, BitStreamProofs

-----------------------------------------------------------------------------
(* The bucket sweep. *)

Heads ==
  /\ props \in Seq(FlatProps)
  /\ bucket \in PrioritiesOf(props)
  /\ writeIndex \in 1..(Len(props) + 1)
  /\ readIndex \in writeIndex..(Len(props) + 1)

InOrder ==
  \A i, j \in DOMAIN props :
    i < j /\ i < writeIndex => PriorityAt(i) <= PriorityAt(j)

Below == \A i \in DOMAIN props : i < writeIndex => PriorityAt(i) <= bucket

PassedOver ==
  \A i \in DOMAIN props :
    writeIndex <= i /\ i < readIndex => PriorityAt(i) > bucket

NotRead == \A i \in DOMAIN props : readIndex <= i => PriorityAt(i) >= bucket

Sweep == Heads /\ Rearranged /\ InOrder /\ Below /\ PassedOver /\ NotRead

-----------------------------------------------------------------------------

\* Effective priorities are numbers: flags and priority come from the SendTable.
LEMMA PriorityIsInt ==
  ASSUME NEW fp \in FlatProps
  PROVE  EffectivePriority(fp.prop) \in Int
  BY FlatPropsAssumption DEF EffectivePriority, OftenBucket

LEMMA PriorityAtIsInt ==
  ASSUME Heads, Rearranged
  PROVE  \A i \in DOMAIN props :
           PriorityAt(i) \in Int /\ PriorityAt(i) \in PrioritiesOf(props)
<1> SUFFICES ASSUME NEW i \in DOMAIN props
             PROVE  PriorityAt(i) \in Int /\ PriorityAt(i) \in PrioritiesOf(props)
  OBVIOUS
<1>1. order[i] \in DOMAIN props
  BY DEF Rearranged
<1>2. props[order[i]] \in FlatProps
  BY <1>1 DEF Heads
<1>3. PriorityAt(i) \in Int
  BY <1>2, PriorityIsInt DEF PriorityAt
<1> QED
  BY <1>1, <1>3 DEF PrioritiesOf, PriorityAt

LEMMA PrioritiesAreInts ==
  ASSUME props \in Seq(FlatProps)
  PROVE  PrioritiesOf(props) \subseteq Int
<1>1. \A i \in DOMAIN props : props[i] \in FlatProps
  OBVIOUS
<1> QED
  BY <1>1, PriorityIsInt DEF PrioritiesOf, OftenBucket

LEMMA SortStarts == SortInit => Sweep
<1> SUFFICES ASSUME SortInit PROVE Sweep
  OBVIOUS
<1>1. props \in Seq(FlatProps) /\ Len(props) \in Nat /\ DOMAIN props = 1..Len(props)
  BY DEF SortInit
<1>2. Heads
  BY <1>1 DEF SortInit, StartsSorting, Least, Heads
<1>3. order = [i \in DOMAIN props |-> i] /\ writeIndex = 1 /\ readIndex = 1
  BY DEF SortInit, StartsSorting
<1>4. Rearranged
  BY <1>3 DEF Rearranged
<1>5. NotRead
  BY <1>2, <1>4, PriorityAtIsInt DEF SortInit, StartsSorting, Least, NotRead
<1> QED
  BY <1>1, <1>2, <1>3, <1>4, <1>5 DEF Sweep, InOrder, Below, PassedOver

\* Reading a prop of the bucket: the swap puts it at the write head, and the
\* passed-over prop that stood there to the read head.
LEMMA ReadPropKeeps == Sweep /\ ReadProp => Sweep'
<1> SUFFICES ASSUME Sweep, ReadProp PROVE Sweep'
  OBVIOUS
<1> DEFINE n == Len(props)
<1>1. n \in Nat /\ DOMAIN props = 1..n /\ props' = props /\ bucket' = bucket
  BY DEF Sweep, Heads, ReadProp
<1>2. writeIndex \in 1..n /\ readIndex \in writeIndex..n /\ readIndex' = readIndex + 1
  BY <1>1 DEF Sweep, Heads, ReadProp
<1>3. order \in [1..n -> 1..n] /\ \A i, j \in 1..n : order[i] = order[j] => i = j
  BY <1>1 DEF Sweep, Rearranged
<1>4. bucket \in Int
  BY PrioritiesAreInts DEF Sweep, Heads
<1>5. \A i \in 1..n : PriorityAt(i) \in Int
  BY <1>1, PriorityAtIsInt DEF Sweep
<1>6. CASE PriorityAt(readIndex) # bucket
  <2>1. order' = order /\ writeIndex' = writeIndex
    BY <1>6 DEF ReadProp
  <2>2. \A i \in 1..n : PriorityAt(i)' = PriorityAt(i)
    BY <1>1, <2>1 DEF PriorityAt
  <2>3. PriorityAt(readIndex) > bucket
    BY <1>1, <1>2, <1>4, <1>5, <1>6 DEF Sweep, NotRead
  <2>4. Heads'
    BY <1>1, <1>2, <2>1 DEF Sweep, Heads
  <2>5. Rearranged'
    BY <1>1, <2>1 DEF Sweep, Rearranged
  <2>6. InOrder' /\ Below'
    BY <1>1, <2>1, <2>2 DEF Sweep, InOrder, Below
  <2>7. PassedOver' /\ NotRead'
    BY <1>1, <1>2, <2>1, <2>2, <2>3 DEF Sweep, PassedOver, NotRead
  <2> QED
    BY <2>4, <2>5, <2>6, <2>7 DEF Sweep
<1>7. CASE PriorityAt(readIndex) = bucket
  <2>1. order' = Swapped /\ writeIndex' = writeIndex + 1
    BY <1>7 DEF ReadProp
  <2>2. PICK w \in 1..n, r \in 1..n : w = writeIndex /\ r = readIndex /\ w <= r
    BY <1>1, <1>2
  <2> DEFINE from(i) == IF i = w THEN r ELSE IF i = r THEN w ELSE i
  <2>3. \A i \in 1..n : from(i) \in 1..n
    OBVIOUS
  <2>4. \A i, j \in 1..n : from(i) = from(j) => i = j
    OBVIOUS
  <2>5. order' = [i \in 1..n |-> order[from(i)]]
    BY <1>3, <2>1, <2>2 DEF Swapped
  <2>6. \A i \in 1..n : order'[i] = order[from(i)] /\ PriorityAt(i)' = PriorityAt(from(i))
    BY <1>1, <2>5 DEF PriorityAt
  <2>7. /\ PriorityAt(w)' = bucket
        /\ PriorityAt(r)' = PriorityAt(w)
        /\ \A i \in 1..n : i # w /\ i # r => PriorityAt(i)' = PriorityAt(i)
    <3>1. PriorityAt(r) = bucket
      BY <1>7, <2>2
    <3> QED
      BY <2>6, <3>1
  <2> HIDE DEF from
  <2>8. Rearranged'
    <3>1. order' \in [1..n -> 1..n]
      BY <1>3, <2>3, <2>5
    <3>2. \A i, j \in 1..n : order'[i] = order'[j] => from(i) = from(j)
      BY <1>3, <2>3, <2>6
    <3> QED
      BY <1>1, <2>4, <3>1, <3>2 DEF Rearranged
  <2>9. Heads'
    BY <1>1, <1>2, <2>1 DEF Sweep, Heads
  <2>10. writeIndex' = w + 1 /\ readIndex' = r + 1
    BY <1>2, <2>1, <2>2
  <2>11. \A i \in 1..n : i < w => PriorityAt(i) <= bucket
    BY <1>1, <2>2 DEF Sweep, Below
  <2>12. \A i \in 1..n : w <= i => PriorityAt(i) >= bucket
    BY <1>1, <1>4, <1>5, <2>2 DEF Sweep, PassedOver, NotRead
  <2>13. \A i \in 1..n : i <= w => PriorityAt(i)' <= bucket
    BY <1>4, <1>5, <2>2, <2>7, <2>11
  <2>14. \A i \in 1..n : w <= i => PriorityAt(i)' >= bucket
    BY <1>4, <1>5, <2>2, <2>7, <2>12
  <2>15. Below'
    BY <1>1, <2>10, <2>13 DEF Below
  <2>16. NotRead'
    BY <1>1, <2>2, <2>10, <2>14 DEF NotRead
  <2>17. PassedOver'
    <3>1. \A i \in 1..n : w <= i /\ i < r => PriorityAt(i) > bucket
      BY <1>1, <2>2 DEF Sweep, PassedOver
    <3>2. \A i \in 1..n : w < i /\ i <= r => PriorityAt(i)' > bucket
      BY <2>2, <2>7, <3>1
    <3> QED
      BY <1>1, <2>2, <2>10, <3>2 DEF PassedOver
  <2>18. InOrder'
    <3>1. \A i, j \in 1..n : i < j /\ i < w => PriorityAt(i) <= PriorityAt(j)
      BY <1>1, <2>2 DEF Sweep, InOrder
    <3>2. ASSUME NEW i \in 1..n, NEW j \in 1..n, i < j, i < w
          PROVE  PriorityAt(i)' <= PriorityAt(j)'
      <4>1. PriorityAt(i)' = PriorityAt(i)
        BY <2>2, <2>7, <3>2
      <4>2. CASE j # w /\ j # r
        BY <2>7, <3>1, <3>2, <4>1, <4>2
      <4>3. CASE j = w
        BY <2>7, <2>11, <3>2, <4>1, <4>3
      <4>4. CASE j = r
        BY <2>2, <2>7, <3>1, <3>2, <4>1, <4>4
      <4> QED
        BY <4>2, <4>3, <4>4
    <3>3. \A j \in 1..n : w < j => PriorityAt(w)' <= PriorityAt(j)'
      BY <1>4, <2>2, <2>7, <2>14
    <3>4. ASSUME NEW i \in 1..n, NEW j \in 1..n, i < j, i < w + 1
          PROVE  PriorityAt(i)' <= PriorityAt(j)'
      BY <2>2, <3>2, <3>3, <3>4
    <3> QED
      BY <1>1, <2>10, <3>4 DEF InOrder
  <2> QED
    BY <2>8, <2>9, <2>15, <2>16, <2>17, <2>18 DEF Sweep
<1> QED
  BY <1>6, <1>7

\* A new bucket starts at the write head: all that is not written was passed
\* over, and no priority lies between the old bucket and the new one.
LEMMA NextBucketKeeps == Sweep /\ NextBucket => Sweep'
<1> SUFFICES ASSUME Sweep, NextBucket PROVE Sweep'
  OBVIOUS
<1> DEFINE n == Len(props)
<1>1. n \in Nat /\ DOMAIN props = 1..n /\ props' = props /\ order' = order
  BY DEF Sweep, Heads, NextBucket
<1>2. writeIndex' = writeIndex /\ readIndex' = writeIndex /\ readIndex = n + 1
  BY <1>1 DEF Sweep, Heads, NextBucket
<1>3. bucket \in Int /\ PrioritiesOf(props) \subseteq Int
  BY PrioritiesAreInts DEF Sweep, Heads
<1>4. /\ bucket' \in PrioritiesOf(props)
      /\ bucket' > bucket
      /\ \A p \in PrioritiesOf(props) : p > bucket => bucket' <= p
  BY DEF NextBucket, Later, Least
<1>5. \A i \in 1..n : /\ PriorityAt(i)' = PriorityAt(i)
                     /\ PriorityAt(i) \in PrioritiesOf(props)
  BY <1>1, PriorityAtIsInt DEF PriorityAt, Sweep
<1>6. Heads'
  BY <1>1, <1>2, <1>4 DEF Sweep, Heads
<1>7. Rearranged'
  BY <1>1 DEF Sweep, Rearranged
<1>8. InOrder'
  BY <1>1, <1>2, <1>5 DEF Sweep, InOrder
<1>9. Below'
  BY <1>1, <1>2, <1>3, <1>4, <1>5 DEF Sweep, Below
<1>10. PassedOver'
  BY <1>1, <1>2 DEF Sweep, Heads, PassedOver
<1>11. \A i \in 1..n : writeIndex <= i => PriorityAt(i) > bucket
  BY <1>1, <1>2 DEF Sweep, PassedOver
<1>12. NotRead'
  BY <1>1, <1>2, <1>4, <1>5, <1>11 DEF NotRead
<1> QED
  BY <1>6, <1>7, <1>8, <1>9, <1>10, <1>12 DEF Sweep

LEMMA SortStutters == Sweep /\ UNCHANGED sortVars => Sweep'
  BY DEF Sweep, sortVars, Heads, Rearranged, InOrder, Below, PassedOver, NotRead, PriorityAt

LEMMA SweepHolds == SortSpec => []Sweep
<1>1. Sweep /\ [SortNext]_sortVars => Sweep'
  BY ReadPropKeeps, NextBucketKeeps, SortStutters DEF SortNext
<1> QED
  BY SortStarts, <1>1, PTL DEF SortSpec

\* A sweep that has ended has written every prop: a prop left over was passed
\* over in the last bucket, so that its own bucket was still to come.
LEMMA EndedSweepWroteAll == Sweep /\ Sorted => writeIndex = Len(props) + 1
<1> SUFFICES ASSUME Sweep, Sorted, writeIndex # Len(props) + 1
             PROVE  FALSE
  OBVIOUS
<1>1. Len(props) \in Nat /\ DOMAIN props = 1..Len(props)
  BY DEF Sweep, Heads
<1>2. writeIndex \in DOMAIN props /\ readIndex = Len(props) + 1
  BY <1>1 DEF Sweep, Heads, Sorted
<1>3. PriorityAt(writeIndex) > bucket
  BY <1>1, <1>2 DEF Sweep, PassedOver
<1>4. PriorityAt(writeIndex) \in PrioritiesOf(props)
  BY <1>2, PriorityAtIsInt DEF Sweep
<1> QED
  BY <1>3, <1>4 DEF Sorted, Later

-----------------------------------------------------------------------------

\* No prop is lost or repeated by the sweep (Flattener.ts:225-239), for every
\* list of props.
THEOREM SortPermutes == SortSpec => []Rearranged
<1>1. Sweep => Rearranged
  BY DEF Sweep
<1> QED
  BY SweepHolds, <1>1, PTL

\* The sorted list ascends in effective priority, for every list of props.
THEOREM SortOrders == SortSpec => []SortedByPriority
<1>1. Sweep => SortedByPriority
  <2> SUFFICES ASSUME Sweep, Sorted PROVE SortedByPriority
    BY DEF SortedByPriority
  <2>1. writeIndex = Len(props) + 1 /\ Len(props) \in Nat /\ DOMAIN props = 1..Len(props)
    BY EndedSweepWroteAll DEF Sweep, Heads
  <2> QED
    BY <2>1 DEF Sweep, InOrder, SortedByPriority
<1> QED
  BY SweepHolds, <1>1, PTL

-----------------------------------------------------------------------------
(* The head of an entry. *)

LEMMA ClassIdBitsHolds ==
  ASSUME NEW n, Word16(n)
  PROVE  ClassIdBits(n) \in 1..31 /\ n <= Pow2(ClassIdBits(n))
  <1>0. n \in Nat /\ n > 0
    BY WordRange
  <1>1. CASE n <= 2
    <2>1. ClassIdBits(n) = 1
      BY <1>1 DEF ClassIdBits
    <2> QED BY <1>0, <1>1, <2>1, PowerValues, SMT
  <1>2. CASE ~(n <= 2)
    <2> DEFINE P(w) == Pow2(w) >= n /\ Pow2(w - 1) < n
               S == 1..31
               m == n - 1
    <2>1. Word16(m)
      BY <1>2, WordBefore
    <2> HIDE DEF m
    <2>2. PICK w \in 1..31 : Pow2(w) > m /\ Pow2(w - 1) <= m
      BY <2>1, PowersAround, Zenon
    <2>3. Pow2(w) \in Nat /\ Pow2(w - 1) \in Nat
      <3>1. w \in 0..32 /\ w - 1 \in 0..32
        BY <2>2
      <3> QED BY <3>1, PowerPositive
    <2>4. Pow2(w) >= n /\ Pow2(w - 1) < n
      BY <1>0, <2>2, <2>3 DEF m
    <2>5. \E x \in S : P(x)
      BY <2>2, <2>4, Zenon
    <2>6. ClassIdBits(n) = CHOOSE x \in S : P(x)
      BY <1>2, Zenon DEF ClassIdBits, Pow2
    <2> HIDE DEF P, S
    <2>7. (\E x \in S : P(x)) => (CHOOSE x \in S : P(x)) \in S /\ P(CHOOSE x \in S : P(x))
      BY Zenon
    <2>8. ClassIdBits(n) \in S /\ P(ClassIdBits(n))
      BY <2>5, <2>6, <2>7, Zenon
    <2>9. ClassIdBits(n) \in 1..31 /\ Pow2(ClassIdBits(n)) >= n
      BY <2>8, Zenon DEF P, S
    <2>10. Pow2(ClassIdBits(n)) \in Nat
      <3>1. ClassIdBits(n) \in 0..32
        BY <2>9
      <3> QED BY <3>1, PowerPositive
    <2> QED BY <1>0, <2>9, <2>10
  <1> QED BY <1>1, <1>2

LEMMA TwoBits ==
  ASSUME NEW a \in {0, 1}, NEW b \in {0, 1}
  PROVE  <<a, b>> = <<a>> \o <<b>> /\ <<a, b>> \in BitStrings /\ <<a>> \in BitStrings /\ <<b>> \in BitStrings
  <1>1. <<a, b>> \in Seq({0, 1}) /\ <<a>> \in Seq({0, 1}) /\ <<b>> \in Seq({0, 1})
    OBVIOUS
  <1>2. <<a, b>> = <<a>> \o <<b>>
    <2> DEFINE c == <<a>>
               d == <<b>>
               e == <<a, b>>
    <2>1. Len(c) = 1 /\ Len(d) = 1 /\ Len(e) = 2 /\ c[1] = a /\ d[1] = b /\ e[1] = a /\ e[2] = b
      OBVIOUS
    <2>2. c \in BitStrings /\ d \in BitStrings /\ e \in BitStrings
      BY <1>1, Zenon DEF BitStrings
    <2> HIDE DEF c, d, e
    <2>3. c \o d \in BitStrings /\ Len(c \o d) = 2 /\ (c \o d)[1] = c[1] /\ (c \o d)[2] = d[1]
      <3>1. /\ c \o d \in BitStrings /\ Len(c \o d) = Len(c) + Len(d)
            /\ \A k \in 1..Len(c) : (c \o d)[k] = c[k]
            /\ \A k \in 1..Len(d) : (c \o d)[Len(c) + k] = d[k]
        BY <2>2, Joined
      <3> QED BY <2>1, <3>1
    <2>4. ASSUME NEW k \in 1..2 PROVE (c \o d)[k] = e[k]
      <3>1. k = 1 \/ k = 2
        OBVIOUS
      <3> QED BY <3>1, <2>1, <2>3
    <2>5. c \o d = e
      BY <2>1, <2>2, <2>3, <2>4, SeqEqual DEF BitStrings
    <2> QED BY <2>5 DEF c, d, e
  <1> QED BY <1>1, <1>2, Zenon DEF BitStrings

\* The two bits that follow the low bits of a number are those of its tag.
Tagged(size, low, a, b, x) ==
  low \in 0..size - 1 /\ a \in {0, 1} /\ b \in {0, 1} /\ x = low + size * (a + 2 * b)

TagJoins(n, size, low, a, b, x) ==
  /\ Bits(low, n) \o <<a, b>> = Bits(x, n + 2) /\ Fits(x, n + 2) /\ Bits(low, n) \in BitStrings
  /\ x % size = low /\ x \div size = a + 2 * b
LEMMA TagFour ==
  ASSUME NEW low, NEW a, NEW b, NEW x, Tagged(16, low, a, b, x)
  PROVE  TagJoins(4, 16, low, a, b, x)
  <1>0. low \in 0..15 /\ a \in {0, 1} /\ b \in {0, 1} /\ x = low + 16 * (a + 2 * b)
    BY DEF Tagged
  <1>1. x < 64 /\ x \in Nat /\ low < 16 /\ low \in Nat
    BY <1>0
  <1>2. x % 16 = low /\ x \div 16 = a + 2 * b
    BY <1>0, <1>1, SMT
  <1>3. /\ (x \div 1) % 2 = (low \div 1) % 2
        /\ (x \div 2) % 2 = (low \div 2) % 2
        /\ (x \div 4) % 2 = (low \div 4) % 2
        /\ (x \div 8) % 2 = (low \div 8) % 2
        /\ (x \div 16) % 2 = a /\ (x \div 32) % 2 = b
    BY <1>0, <1>1, SMT
  <1>4. /\ Digit(x, 0) = Digit(low, 0)
        /\ Digit(x, 1) = Digit(low, 1)
        /\ Digit(x, 2) = Digit(low, 2)
        /\ Digit(x, 3) = Digit(low, 3)
        /\ Digit(x, 4) = a /\ Digit(x, 5) = b
    BY <1>3, PowerValues, SMT DEF Digit
  <1>5. low <= MaxNumber /\ x <= MaxNumber
    BY <1>1, MaxNumberIs
  <1> DEFINE c == Bits(low, 4)
             d == Bits(x, 6)
  <1>6. c \in Seq({0, 1}) /\ Len(c) = 4 /\ \A k \in 0..4 - 1 : c[k + 1] = Digit(low, k)
    BY <1>1, <1>5, BitsAreDigits
  <1>7. d \in Seq({0, 1}) /\ Len(d) = 6 /\ \A k \in 0..6 - 1 : d[k + 1] = Digit(x, k)
    <2>1. 6 \in 0..32
      OBVIOUS
    <2> QED BY <1>1, <1>5, <2>1, BitsAreDigits, Zenon
  <1> HIDE DEF c, d
  <1>8. c[1] = Digit(low, 0) /\ c[2] = Digit(low, 1) /\ c[3] = Digit(low, 2) /\ c[4] = Digit(low, 3)
    BY <1>6
  <1>9. /\ d[1] = Digit(x, 0) /\ d[2] = Digit(x, 1) /\ d[3] = Digit(x, 2) /\ d[4] = Digit(x, 3)
        /\ d[5] = Digit(x, 4) /\ d[6] = Digit(x, 5)
    BY <1>7
  <1> DEFINE e == c \o <<a, b>>
  <1>10. c \in BitStrings /\ <<a, b>> \in BitStrings /\ Len(<<a, b>>) = 2 /\ <<a, b>>[1] = a /\ <<a, b>>[2] = b
    BY <1>0, <1>6, TwoBits DEF BitStrings
  <1> DEFINE f == <<a, b>>
  <1> HIDE DEF f
  <1>11. /\ c \o f \in BitStrings /\ Len(c \o f) = Len(c) + Len(f)
         /\ \A k \in 1..Len(c) : (c \o f)[k] = c[k]
         /\ \A k \in 1..Len(f) : (c \o f)[Len(c) + k] = f[k]
    BY <1>10, Joined, ZenonT(60) DEF f
  <1>12. Len(f) = 2 /\ f[1] = a /\ f[2] = b /\ e = c \o f
    BY <1>10, Zenon DEF f
  <1> HIDE DEF e
  <1>13. e \in Seq({0, 1}) /\ Len(e) = 6
    BY <1>6, <1>11, <1>12 DEF BitStrings
  <1>14. e[1] = c[1] /\ e[2] = c[2] /\ e[3] = c[3] /\ e[4] = c[4] /\ e[5] = a /\ e[6] = b
    BY <1>6, <1>11, <1>12
  <1>15. ASSUME NEW k \in 1..6 PROVE e[k] = d[k]
    <2>1. k = 1 \/ k = 2 \/ k = 3 \/ k = 4 \/ k = 5 \/ k = 6
      OBVIOUS
    <2> QED BY <2>1, <1>4, <1>8, <1>9, <1>14
  <1>16. e = d
    BY <1>7, <1>13, <1>15, SeqEqual
  <1>17. Fits(x, 6)
    <2>1. x < Pow2(6)
      BY <1>1, PowerValues, SMT
    <2> QED BY <1>1, <2>1, SmallFits
  <1>18. c \in BitStrings
    BY <1>6 DEF BitStrings
  <1>19. 4 + 2 = 6
    OBVIOUS
  <1> QED BY <1>2, <1>16, <1>17, <1>18, <1>19, Zenon DEF TagJoins, c, d, e

LEMMA TagFive ==
  ASSUME NEW low, NEW a, NEW b, NEW x, Tagged(32, low, a, b, x)
  PROVE  TagJoins(5, 32, low, a, b, x)
  <1>0. low \in 0..31 /\ a \in {0, 1} /\ b \in {0, 1} /\ x = low + 32 * (a + 2 * b)
    BY DEF Tagged
  <1>1. x < 128 /\ x \in Nat /\ low < 32 /\ low \in Nat
    BY <1>0
  <1>2. x % 32 = low /\ x \div 32 = a + 2 * b
    BY <1>0, <1>1, SMT
  <1>3. /\ (x \div 1) % 2 = (low \div 1) % 2
        /\ (x \div 2) % 2 = (low \div 2) % 2
        /\ (x \div 4) % 2 = (low \div 4) % 2
        /\ (x \div 8) % 2 = (low \div 8) % 2
        /\ (x \div 16) % 2 = (low \div 16) % 2
        /\ (x \div 32) % 2 = a /\ (x \div 64) % 2 = b
    BY <1>0, <1>1, SMT
  <1>4. /\ Digit(x, 0) = Digit(low, 0)
        /\ Digit(x, 1) = Digit(low, 1)
        /\ Digit(x, 2) = Digit(low, 2)
        /\ Digit(x, 3) = Digit(low, 3)
        /\ Digit(x, 4) = Digit(low, 4)
        /\ Digit(x, 5) = a /\ Digit(x, 6) = b
    BY <1>3, PowerValues, SMT DEF Digit
  <1>5. low <= MaxNumber /\ x <= MaxNumber
    BY <1>1, MaxNumberIs
  <1> DEFINE c == Bits(low, 5)
             d == Bits(x, 7)
  <1>6. c \in Seq({0, 1}) /\ Len(c) = 5 /\ \A k \in 0..5 - 1 : c[k + 1] = Digit(low, k)
    BY <1>1, <1>5, BitsAreDigits
  <1>7. d \in Seq({0, 1}) /\ Len(d) = 7 /\ \A k \in 0..7 - 1 : d[k + 1] = Digit(x, k)
    <2>1. 7 \in 0..32
      OBVIOUS
    <2> QED BY <1>1, <1>5, <2>1, BitsAreDigits, Zenon
  <1> HIDE DEF c, d
  <1>8. c[1] = Digit(low, 0) /\ c[2] = Digit(low, 1) /\ c[3] = Digit(low, 2) /\ c[4] = Digit(low, 3) /\ c[5] = Digit(low, 4)
    BY <1>6
  <1>9. /\ d[1] = Digit(x, 0) /\ d[2] = Digit(x, 1) /\ d[3] = Digit(x, 2) /\ d[4] = Digit(x, 3)
        /\ d[5] = Digit(x, 4) /\ d[6] = Digit(x, 5) /\ d[7] = Digit(x, 6)
    BY <1>7
  <1> DEFINE e == c \o <<a, b>>
  <1>10. c \in BitStrings /\ <<a, b>> \in BitStrings /\ Len(<<a, b>>) = 2 /\ <<a, b>>[1] = a /\ <<a, b>>[2] = b
    BY <1>0, <1>6, TwoBits DEF BitStrings
  <1> DEFINE f == <<a, b>>
  <1> HIDE DEF f
  <1>11. /\ c \o f \in BitStrings /\ Len(c \o f) = Len(c) + Len(f)
         /\ \A k \in 1..Len(c) : (c \o f)[k] = c[k]
         /\ \A k \in 1..Len(f) : (c \o f)[Len(c) + k] = f[k]
    BY <1>10, Joined, ZenonT(60) DEF f
  <1>12. Len(f) = 2 /\ f[1] = a /\ f[2] = b /\ e = c \o f
    BY <1>10, Zenon DEF f
  <1> HIDE DEF e
  <1>13. e \in Seq({0, 1}) /\ Len(e) = 7
    BY <1>6, <1>11, <1>12 DEF BitStrings
  <1>14. e[1] = c[1] /\ e[2] = c[2] /\ e[3] = c[3] /\ e[4] = c[4] /\ e[5] = c[5] /\ e[6] = a /\ e[7] = b
    BY <1>6, <1>11, <1>12
  <1>15. ASSUME NEW k \in 1..7 PROVE e[k] = d[k]
    <2>1. k = 1 \/ k = 2 \/ k = 3 \/ k = 4 \/ k = 5 \/ k = 6 \/ k = 7
      OBVIOUS
    <2> QED BY <2>1, <1>4, <1>8, <1>9, <1>14
  <1>16. e = d
    BY <1>7, <1>13, <1>15, SeqEqual
  <1>17. Fits(x, 7)
    <2>1. x < Pow2(7)
      BY <1>1, PowerValues, SMT
    <2> QED BY <1>1, <2>1, SmallFits
  <1>18. c \in BitStrings
    BY <1>6 DEF BitStrings
  <1>19. 5 + 2 = 7
    OBVIOUS
  <1> QED BY <1>2, <1>16, <1>17, <1>18, <1>19, Zenon DEF TagJoins, c, d, e

LEMMA ZeroBits == Fits(0, 0) /\ Bits(0, 0) = <<>>
  <1>1. Fits(0, 0)
    <2>1. 0 < Pow2(0)
      BY PowerValues, SMT
    <2>2. 0 \in 0..30 /\ 0 \in Nat
      OBVIOUS
    <2> QED BY <2>1, <2>2, SmallFits
  <1>2. Bits(0, 0) \in BitStrings /\ Len(Bits(0, 0)) = 0
    BY <1>1, FitsBits
  <1> QED BY <1>1, <1>2, EmptySeq DEF BitStrings

\* A number of an entry: six bits x of which two are the tag, and as many as the tag says.
UBitWidth(tag) == CASE tag = 0 -> 0 [] tag = 1 -> 4 [] tag = 2 -> 8 [] tag = 3 -> 28

IndexParts(n, x, high, w) ==
  /\ x \in Nat /\ Fits(x, 6) /\ high \in Nat /\ Fits(high, w) /\ w = UBitWidth(x \div 16)
  /\ EntryIndex(n) = Bits(x, 6) \o Bits(high, w)
  /\ (x % 16) + 16 * high = n

LEMMA IndexHasParts ==
  ASSUME NEW n \in Nat, n <= MaxNumber
  PROVE  \E x, high, w : IndexParts(n, x, high, w)
  <1> DEFINE low == n % 16
             high == n \div 16
  <1>1. low \in 0..15 /\ high \in Nat /\ low + 16 * high = n
    OBVIOUS
  <1>2. n <= 2147483647
    BY SMT DEF MaxNumber
  <1> HIDE DEF low, high
  <1>3. CASE n < 16
    <2>1. Fits(n, 6)
      <3>1. n < Pow2(6)
        BY <1>3, PowerValues, SMT
      <3> QED BY <3>1, SmallFits
    <2>2. EntryIndex(n) = Bits(n, 6)
      BY <1>3 DEF EntryIndex
    <2>3. Bits(n, 6) \o Bits(0, 0) = Bits(n, 6)
      <3>1. Bits(n, 6) \in BitStrings
        BY <2>1, FitsBits
      <3> QED BY <3>1, ZeroBits, JoinEmpty
    <2>4. n \div 16 = 0 /\ (n % 16) + 16 * 0 = n
      BY <1>3
    <2>5. UBitWidth(n \div 16) = 0
      <3>1. UBitWidth(0) = 0
        BY DEF UBitWidth
      <3> QED BY <2>4, <3>1, Zenon
    <2>6. IndexParts(n, n, 0, 0)
      BY <2>1, <2>2, <2>3, <2>4, <2>5, ZeroBits, Zenon DEF IndexParts
    <2> QED BY <2>6, Zenon
  <1>4. ASSUME NEW a \in {0, 1}, NEW b \in {0, 1}, NEW w \in {4, 8, 28}, a + 2 * b # 0,
               w = UBitWidth(a + 2 * b), high < Pow2(w),
               EntryIndex(n) = Bits(low, 4) \o <<a, b>> \o Bits(high, w)
        PROVE  \E x, h, v : IndexParts(n, x, h, v)
    <2> DEFINE x == low + 16 * (a + 2 * b)
    <2>1. x \in Nat /\ x = low + 16 * (a + 2 * b)
      BY <1>1
    <2> HIDE DEF x
    <2>2. /\ Bits(low, 4) \o <<a, b>> = Bits(x, 6) /\ Fits(x, 6)
          /\ x % 16 = low /\ x \div 16 = a + 2 * b
      <3>1. Tagged(16, low, a, b, x)
        BY <1>1, <2>1 DEF Tagged
      <3>2. TagJoins(4, 16, low, a, b, x) /\ 4 + 2 = 6
        BY <3>1, TagFour
      <3> QED BY <3>2, Zenon DEF TagJoins
    <2>3. Fits(high, w)
      <3>1. w \in 0..30
        OBVIOUS
      <3> QED BY <1>1, <1>4, <3>1, SmallFits
    <2>4. w = UBitWidth(x \div 16) /\ EntryIndex(n) = Bits(x, 6) \o Bits(high, w)
      BY <1>4, <2>2, Zenon
    <2>5. (x % 16) + 16 * high = n
      BY <1>1, <2>2
    <2>6. IndexParts(n, x, high, w)
      BY <1>1, <2>1, <2>2, <2>3, <2>4, <2>5, Zenon DEF IndexParts
    <2> QED BY <2>6, Zenon
  <1>5. CASE ~(n < 16) /\ n < 256
    <2>1. EntryIndex(n) = Bits(low, 4) \o <<1, 0>> \o Bits(high, 4)
      BY <1>5 DEF EntryIndex, low, high
    <2>2. high < Pow2(4)
      BY <1>1, <1>5, PowerValues, SMT
    <2>3. 4 = UBitWidth(1 + 2 * 0)
      BY DEF UBitWidth
    <2> QED BY <1>4, <2>1, <2>2, <2>3
  <1>6. CASE ~(n < 16) /\ ~(n < 256) /\ n < 4096
    <2>1. EntryIndex(n) = Bits(low, 4) \o <<0, 1>> \o Bits(high, 8)
      BY <1>6 DEF EntryIndex, low, high
    <2>2. high < Pow2(8)
      BY <1>1, <1>6, PowerValues, SMT
    <2>3. 8 = UBitWidth(0 + 2 * 1)
      BY DEF UBitWidth
    <2> QED BY <1>4, <2>1, <2>2, <2>3
  <1>7. CASE ~(n < 16) /\ ~(n < 256) /\ ~(n < 4096)
    <2>1. EntryIndex(n) = Bits(low, 4) \o <<1, 1>> \o Bits(high, 28)
      BY <1>7 DEF EntryIndex, low, high
    <2>2. high < Pow2(28)
      BY <1>1, <1>2, PowerValues, SMT
    <2>3. 28 = UBitWidth(1 + 2 * 1)
      BY DEF UBitWidth
    <2> QED BY <1>4, <2>1, <2>2, <2>3
  <1> QED BY <1>3, <1>5, <1>6, <1>7

LEMMA EntryIndexReads ==
  ASSUME NEW r, IsReader(r), NEW n \in Nat, n <= MaxNumber, Carries(r, EntryIndex(n))
  PROVE  EntryIndex(n) \in BitStrings /\ Reads(r, ReadUBitInt(r), EntryIndex(n), n)
  <1>1. PICK x, high, w : IndexParts(n, x, high, w)
    BY IndexHasParts, Zenon
  <1>2. /\ x \in Nat /\ Fits(x, 6) /\ high \in Nat /\ Fits(high, w) /\ w = UBitWidth(x \div 16)
        /\ EntryIndex(n) = Bits(x, 6) \o Bits(high, w)
        /\ (x % 16) + 16 * high = n
    BY <1>1, Zenon DEF IndexParts
  <1> DEFINE e1 == Bits(x, 6)
             e2 == Bits(high, w)
             ret == ReadBits(r, 6)
             more == ReadBits(ret, UBitWidth(ret.value \div 16))
  <1>3. ReadUBitInt(r) = Returning(more, (ret.value % 16) + 16 * more.value)
    BY Zenon DEF ReadUBitInt, UBitWidth
  <1>4. e1 \in BitStrings /\ e2 \in BitStrings
    BY <1>2, FitsBits
  <1>5. Carries(r, e1 \o e2) /\ Carries(r, e1)
    <2>1. Carries(r, e1 \o e2)
      BY <1>2
    <2> HIDE DEF e1, e2
    <2> QED BY <2>1, <1>4, CarriesFirst
  <1>6. Reads(r, ret, e1, x)
    BY <1>2, <1>5, FieldReads
  <1> HIDE DEF ret
  <1>7. Carries(ret, e2) /\ IsReader(ret)
    <2> HIDE DEF e1, e2
    <2> QED BY <1>4, <1>5, <1>6, CarriesOn
  <1>8. Reads(ret, more, e2, high)
    <2>1. ~ret.threw => UBitWidth(ret.value \div 16) = w
      <3>1. ~ret.threw => ret.value = x
        BY <1>6, ReadsValue
      <3> QED BY <3>1, <1>2, Zenon
    <2> QED BY <1>2, <1>7, <2>1, FieldReads
  <1> HIDE DEF more, e1, e2
  <1>9. Reads(r, more, e1 \o e2, high)
    BY <1>4, <1>6, <1>8, ReadsOn
  <1>10. ~more.threw => (ret.value % 16) + 16 * more.value = n
    <2>1. ASSUME ~more.threw PROVE ret.value = x /\ more.value = high
      BY <2>1, <1>6, <1>8, ReadsValue
    <2> QED BY <2>1, <1>2, Zenon
  <1>11. Reads(r, Returning(more, (ret.value % 16) + 16 * more.value), e1 \o e2, n)
    BY <1>9, <1>10, ReturningReads
  <1>12. e1 \o e2 \in BitStrings
    BY <1>4, Joined
  <1> QED BY <1>2, <1>3, <1>11, <1>12 DEF e1, e2

-----------------------------------------------------------------------------
(* The gaps between the indices of a list. *)

GapWidth(tag) == CASE tag = 0 -> 0 [] tag = 1 -> 2 [] tag = 2 -> 4 [] tag = 3 -> 7

Flag(newWay) == IF newWay THEN <<0>> ELSE <<>>

\* The long form: seven bits x of which two are the tag, and as many as the tag says.
GapParts(n, newWay, form, x, high, w) ==
  /\ x \in Nat /\ Fits(x, 7) /\ high \in Nat /\ Fits(high, w) /\ w = GapWidth(x \div 32)
  /\ Gap(n, newWay, form) = (Flag(newWay) \o Flag(newWay)) \o (Bits(x, 7) \o Bits(high, w))
  /\ (x % 32) + 32 * high = n

IsNext(n, newWay, form) == form = "next" /\ newWay /\ n = 0
IsShort(n, newWay, form) == form = "short" /\ newWay /\ n < 8

\* A gap that is sent, or the end of the list.
Sends(n, newWay, form) == FitsGap(n, newWay, form) \/ (n = 4095 /\ form = "seven")

LEMMA SendsRange ==
  ASSUME NEW n, NEW newWay, NEW form, Sends(n, newWay, form), ~IsNext(n, newWay, form), ~IsShort(n, newWay, form)
  PROVE  /\ n \in Nat
         /\ form = "two" => n < 128
         /\ form = "four" => n < 512
         /\ form = "seven" => n < 4096
         /\ form \notin {"two", "four", "seven"} => n < 32
  <1>1. n \in Nat
    BY DEF Sends, FitsGap
  <1>2. CASE form = "two"
    BY <1>1, <1>2 DEF Sends, FitsGap
  <1>3. CASE form = "four"
    BY <1>1, <1>3 DEF Sends, FitsGap
  <1>4. CASE form = "seven"
    BY <1>1, <1>4 DEF Sends, FitsGap
  <1>5. CASE form \notin {"two", "four", "seven"}
    BY <1>1, <1>5 DEF Sends, FitsGap, IsNext, IsShort
  <1> QED BY <1>1, <1>2, <1>3, <1>4, <1>5

LEMMA FlagBits ==
  ASSUME NEW newWay \in BOOLEAN
  PROVE  /\ Flag(newWay) \in BitStrings /\ Flag(newWay) \o Flag(newWay) \in BitStrings
         /\ (IF newWay THEN <<0, 0>> ELSE <<>>) = Flag(newWay) \o Flag(newWay)
  <1>1. CASE newWay
    BY <1>1, TwoBits, Zenon DEF Flag
  <1>2. CASE ~newWay
    BY <1>2, NoBits, JoinEmpty DEF Flag
  <1> QED BY <1>1, <1>2

LEMMA GapHasParts ==
  ASSUME NEW n, NEW newWay \in BOOLEAN, NEW form, Sends(n, newWay, form),
         ~IsNext(n, newWay, form), ~IsShort(n, newWay, form)
  PROVE  \E x, high, w : GapParts(n, newWay, form, x, high, w)
  <1> DEFINE low == n % 32
             high == n \div 32
             pre == Flag(newWay) \o Flag(newWay)
             before == IF newWay THEN <<0, 0>> ELSE <<>>
  <1>0. n \in Nat
    BY SendsRange
  <1>1. low \in 0..31 /\ high \in Nat /\ low + 32 * high = n
    BY <1>0
  <1>2. before = pre /\ pre \in BitStrings
    BY FlagBits
  <1> HIDE DEF low, high, pre, before
  <1>3. ASSUME NEW a \in {0, 1}, NEW b \in {0, 1}, NEW w \in {0, 2, 4, 7}, NEW rest,
               w = GapWidth(a + 2 * b), high < Pow2(w), rest = Bits(high, w),
               Gap(n, newWay, form) = ((pre \o Bits(low, 5)) \o <<a, b>>) \o rest
        PROVE  \E x, h, v : GapParts(n, newWay, form, x, h, v)
    <2> DEFINE x == low + 32 * (a + 2 * b)
    <2>1. x \in Nat /\ x = low + 32 * (a + 2 * b)
      BY <1>1
    <2> HIDE DEF x
    <2>2. /\ Bits(low, 5) \o <<a, b>> = Bits(x, 7) /\ Fits(x, 7) /\ Bits(low, 5) \in BitStrings
          /\ x % 32 = low /\ x \div 32 = a + 2 * b
      <3>1. Tagged(32, low, a, b, x)
        BY <1>1, <2>1 DEF Tagged
      <3>2. TagJoins(5, 32, low, a, b, x) /\ 5 + 2 = 7
        BY <3>1, TagFive
      <3> QED BY <3>2, Zenon DEF TagJoins
    <2>3. Fits(high, w)
      <3>1. w \in 0..30
        OBVIOUS
      <3> QED BY <1>1, <1>3, <3>1, SmallFits
    <2>4. Gap(n, newWay, form) = pre \o (Bits(x, 7) \o rest)
      <3> DEFINE e1 == Bits(low, 5)
                 e2 == <<a, b>>
                 e3 == Bits(x, 7)
      <3>1. e1 \in BitStrings /\ e2 \in BitStrings /\ e3 \in BitStrings /\ rest \in BitStrings
        BY <1>3, <2>2, <2>3, TwoBits, FitsBits
      <3>2. e1 \o e2 = e3 /\ Gap(n, newWay, form) = ((pre \o e1) \o e2) \o rest
        BY <1>3, <2>2
      <3> HIDE DEF e1, e2, e3
      <3>3. (pre \o e1) \o e2 = pre \o e3
        BY <1>2, <3>1, <3>2, JoinAssoc
      <3>4. (pre \o e3) \o rest = pre \o (e3 \o rest)
        BY <1>2, <3>1, JoinAssoc
      <3> QED BY <3>2, <3>3, <3>4 DEF e3
    <2>5. w = GapWidth(x \div 32)
      BY <1>3, <2>2, Zenon
    <2>6. (x % 32) + 32 * high = n
      BY <1>1, <2>2
    <2>7. GapParts(n, newWay, form, x, high, w)
      BY <1>1, <1>3, <2>1, <2>2, <2>3, <2>4, <2>5, <2>6, Zenon DEF GapParts, pre
    <2> QED BY <2>7, Zenon
  <1>4. CASE form = "two"
    <2>1. Gap(n, newWay, form) = ((before \o Bits(low, 5)) \o <<1, 0>>) \o Bits(high, 2)
      BY <1>4 DEF Gap, low, high, before
    <2>2. high < Pow2(2)
      <3>1. n < 128
        BY <1>4, SendsRange
      <3> QED BY <1>1, <3>1, PowerValues, SMT
    <2>3. 2 = GapWidth(1 + 2 * 0)
      BY DEF GapWidth
    <2> QED BY <1>2, <1>3, <2>1, <2>2, <2>3
  <1>5. CASE form = "four"
    <2>1. Gap(n, newWay, form) = ((before \o Bits(low, 5)) \o <<0, 1>>) \o Bits(high, 4)
      BY <1>5 DEF Gap, low, high, before
    <2>2. high < Pow2(4)
      <3>1. n < 512
        BY <1>5, SendsRange
      <3> QED BY <1>1, <3>1, PowerValues, SMT
    <2>3. 4 = GapWidth(0 + 2 * 1)
      BY DEF GapWidth
    <2> QED BY <1>2, <1>3, <2>1, <2>2, <2>3
  <1>6. CASE form = "seven"
    <2>1. Gap(n, newWay, form) = ((before \o Bits(low, 5)) \o <<1, 1>>) \o Bits(high, 7)
      BY <1>6 DEF Gap, low, high, before
    <2>2. high < Pow2(7)
      <3>1. n < 4096
        BY <1>6, SendsRange
      <3> QED BY <1>1, <3>1, PowerValues, SMT
    <2>3. 7 = GapWidth(1 + 2 * 1)
      BY DEF GapWidth
    <2> QED BY <1>2, <1>3, <2>1, <2>2, <2>3
  <1>7. CASE form \notin {"two", "four", "seven"}
    <2>1. Gap(n, newWay, form) = (before \o Bits(low, 5)) \o <<0, 0>>
      BY <1>7 DEF Gap, low, before, IsNext, IsShort
    <2>2. high = 0 /\ high < Pow2(0)
      <3>1. n < 32
        BY <1>7, SendsRange
      <3>2. high = 0
        BY <1>0, <3>1 DEF high
      <3> QED BY <3>2, PowerValues, SMT
    <2>3. 0 = GapWidth(0 + 2 * 0)
      BY DEF GapWidth
    <2>4. (pre \o Bits(low, 5)) \o <<0, 0>> = ((pre \o Bits(low, 5)) \o <<0, 0>>) \o Bits(high, 0)
      <3>1. low \in Nat /\ low < 32
        BY <1>1
      <3>2. Fits(low, 5)
        <4>1. low < Pow2(5) /\ 5 \in 0..30
          BY <3>1, PowerValues, SMT
        <4> QED BY <3>1, <4>1, SmallFits
      <3> DEFINE e1 == Bits(low, 5)
                 e2 == <<0, 0>>
      <3>3. e1 \in BitStrings /\ e2 \in BitStrings
        BY <3>2, FitsBits, TwoBits
      <3> HIDE DEF e1, e2
      <3>4. (pre \o e1) \o e2 \in BitStrings
        BY <1>2, <3>3, Joined
      <3>5. Bits(high, 0) = <<>>
        BY <2>2, ZeroBits
      <3> QED BY <3>4, <3>5, JoinEmpty DEF e1, e2
    <2> QED BY <1>2, <1>3, <2>1, <2>2, <2>3, <2>4
  <1> QED BY <1>4, <1>5, <1>6, <1>7

\* A reader that threw throws on, whatever is read next.
LEMMA ThrowsAgain ==
  ASSUME NEW r, NEW mid, NEW e, NEW u, Reads(r, mid, e, u), mid.threw, NEW n, NEW x, NEW w
  PROVE  /\ Reads(r, ReadBits(mid, n), e, x) /\ ReadBits(mid, n).threw
         /\ Reads(r, Returning(mid, w), e, x) /\ Returning(mid, w).threw
  <1>1. IsReader(mid) /\ IsReader(Throwing(mid)) /\ Throwing(mid).bits = mid.bits /\ Throwing(mid).threw
    <2>1. IsReader(mid)
      BY ReadsValue
    <2>2. 0 \in Nat
      OBVIOUS
    <2>3. Takes(mid, Throwing(mid), 0, 0)
      BY <2>1, <2>2, ThrowingThrows
    <2> QED BY <2>1, <2>3 DEF Takes, Throwing
  <1>2. ReadBits(mid, n) = Throwing(mid)
    BY DEF ReadBits
  <1>3. Reads(r, Throwing(mid), e, x)
    BY <1>1 DEF Reads, Takes
  <1>4. Reads(r, Returning(mid, w), e, x)
    BY ReturningReads
  <1>5. Returning(mid, w).threw
    BY <1>1 DEF Returning, IsReader
  <1> QED BY <1>1, <1>2, <1>3, <1>4, <1>5

\* The flags that ReadGap has read, and what it makes of them.
NextFlag(r, newWay) == ReadBitIf(r, newWay)
ShortFlag(r, newWay) == ReadBitIf(NextFlag(r, newWay), newWay /\ NextFlag(r, newWay).value = 0)
LongGap(q) ==
  LET seven == ReadBits(q, 7)
      more  == ReadBits(seven, GapWidth(seven.value \div 32))
  IN Returning(more, (seven.value % 32) + 32 * more.value)

LEMMA ReadGapIs ==
  ASSUME NEW r, NEW newWay
  PROVE  LET next == NextFlag(r, newWay)
             short == ShortFlag(r, newWay)
         IN /\ newWay /\ next.value = 1 => ReadGap(r, newWay) = Returning(next, 0)
            /\ ~(newWay /\ next.value = 1) /\ newWay /\ short.value = 1 => ReadGap(r, newWay) = ReadBits(short, 3)
            /\ ~(newWay /\ next.value = 1) /\ ~(newWay /\ short.value = 1) => ReadGap(r, newWay) = LongGap(short)
  BY Zenon DEF ReadGap, NextFlag, ShortFlag, LongGap, GapWidth

LEMMA GapThrows ==
  ASSUME NEW r, NEW newWay, NEW e, NEW u, Reads(r, ShortFlag(r, newWay), e, u), ShortFlag(r, newWay).threw,
         ~(newWay /\ NextFlag(r, newWay).value = 1), NEW x
  PROVE  Reads(r, ReadGap(r, newWay), e, x)
  <1> DEFINE short == ShortFlag(r, newWay)
             seven == ReadBits(short, 7)
             more == ReadBits(seven, GapWidth(seven.value \div 32))
  <1> HIDE DEF short
  <1>1. Reads(r, short, e, u) /\ short.threw
    BY DEF short
  <1>2. Reads(r, seven, e, x) /\ seven.threw /\ Reads(r, ReadBits(short, 3), e, x)
    BY <1>1, ThrowsAgain
  <1> HIDE DEF seven
  <1>3. Reads(r, more, e, x) /\ more.threw
    BY <1>2, ThrowsAgain
  <1>4. Reads(r, LongGap(short), e, x)
    <2>1. LongGap(short) = Returning(more, (seven.value % 32) + 32 * more.value)
      BY Zenon DEF LongGap, seven
    <2> HIDE DEF more
    <2> QED BY <1>3, <2>1, ThrowsAgain
  <1> QED BY <1>2, <1>4, ReadGapIs DEF short

LEMMA GapThrowsAtOnce ==
  ASSUME NEW r, NEW newWay, NEW e, NEW u, Reads(r, NextFlag(r, newWay), e, u), NextFlag(r, newWay).threw, NEW x
  PROVE  Reads(r, ReadGap(r, newWay), e, x)
  <1> DEFINE next == NextFlag(r, newWay)
             short == ShortFlag(r, newWay)
  <1>0. Reads(r, next, e, u) /\ next.threw
    OBVIOUS
  <1>1. short = ReadBits(next, 1) \/ short = Returning(next, 0)
    BY Zenon DEF ShortFlag, ReadBitIf, ReadBit
  <1> HIDE DEF next, short
  <1>2. Reads(r, ReadBits(next, 1), e, u) /\ ReadBits(next, 1).threw
    BY <1>0, ThrowsAgain
  <1>3. Reads(r, Returning(next, 0), e, u) /\ Returning(next, 0).threw /\ Reads(r, Returning(next, 0), e, x)
    BY <1>0, ThrowsAgain
  <1>4. Reads(r, short, e, u) /\ short.threw
    BY <1>1, <1>2, <1>3
  <1>5. CASE newWay /\ next.value = 1
    BY <1>3, <1>5, ReadGapIs DEF next
  <1>6. CASE ~(newWay /\ next.value = 1)
    BY <1>4, <1>6, GapThrows DEF next, short
  <1> QED BY <1>5, <1>6

LEMMA LongGapReads ==
  ASSUME NEW q, IsReader(q), NEW x \in Nat, NEW high \in Nat, NEW w, NEW n, Fits(x, 7), Fits(high, w),
         w = GapWidth(x \div 32), (x % 32) + 32 * high = n, Carries(q, Bits(x, 7) \o Bits(high, w))
  PROVE  Reads(q, LongGap(q), Bits(x, 7) \o Bits(high, w), n)
  <1> DEFINE e1 == Bits(x, 7)
             e2 == Bits(high, w)
             seven == ReadBits(q, 7)
             more == ReadBits(seven, GapWidth(seven.value \div 32))
  <1>1. LongGap(q) = Returning(more, (seven.value % 32) + 32 * more.value)
    BY Zenon DEF LongGap
  <1>2. e1 \in BitStrings /\ e2 \in BitStrings
    BY FitsBits
  <1>3. Carries(q, e1)
    <2>1. Carries(q, e1 \o e2)
      OBVIOUS
    <2> HIDE DEF e1, e2
    <2> QED BY <2>1, <1>2, CarriesFirst
  <1>4. Reads(q, seven, e1, x)
    BY <1>3, FieldReads
  <1> HIDE DEF seven
  <1>5. Carries(seven, e2) /\ IsReader(seven)
    <2>1. Carries(q, e1 \o e2)
      OBVIOUS
    <2> HIDE DEF e1, e2
    <2> QED BY <2>1, <1>2, <1>4, CarriesOn
  <1>6. Reads(seven, more, e2, high)
    <2>1. ~seven.threw => GapWidth(seven.value \div 32) = w
      <3>1. ~seven.threw => seven.value = x
        BY <1>4, ReadsValue
      <3> QED BY <3>1, Zenon
    <2> QED BY <1>5, <2>1, FieldReads
  <1> HIDE DEF more, e1, e2
  <1>7. Reads(q, more, e1 \o e2, high)
    BY <1>2, <1>4, <1>6, ReadsOn
  <1>8. ~more.threw => (seven.value % 32) + 32 * more.value = n
    <2>1. ASSUME ~more.threw PROVE seven.value = x /\ more.value = high
      BY <2>1, <1>4, <1>6, ReadsValue
    <2> QED BY <2>1, Zenon
  <1>9. Reads(q, Returning(more, (seven.value % 32) + 32 * more.value), e1 \o e2, n)
    BY <1>7, <1>8, ReturningReads
  <1> QED BY <1>1, <1>9 DEF e1, e2

LEMMA NextGapReads ==
  ASSUME NEW r, IsReader(r), NEW n, NEW newWay \in BOOLEAN, NEW form, IsNext(n, newWay, form),
         Carries(r, Gap(n, newWay, form))
  PROVE  Gap(n, newWay, form) \in BitStrings /\ Reads(r, ReadGap(r, newWay), Gap(n, newWay, form), n)
  <1> DEFINE next == NextFlag(r, newWay)
  <1>1. newWay /\ n = 0 /\ Gap(n, newWay, form) = <<1>>
    BY DEF IsNext, Gap
  <1>2. next = ReadBit(r)
    BY <1>1 DEF NextFlag, ReadBitIf
  <1>3. <<1>> \in BitStrings /\ Reads(r, next, <<1>>, 1)
    BY <1>1, <1>2, BitReads
  <1> HIDE DEF next
  <1>4. CASE next.threw
    BY <1>1, <1>3, <1>4, GapThrowsAtOnce DEF next
  <1>5. CASE ~next.threw
    <2>1. next.value = 1
      BY <1>3, <1>5, ReadsValue
    <2>2. ReadGap(r, newWay) = Returning(next, 0)
      BY <1>1, <2>1, ReadGapIs DEF next
    <2>3. Reads(r, Returning(next, 0), <<1>>, n)
      BY <1>1, <1>3, ReturningReads
    <2> QED BY <1>1, <1>3, <2>2, <2>3
  <1> QED BY <1>4, <1>5

LEMMA ShortGapReads ==
  ASSUME NEW r, IsReader(r), NEW n, NEW newWay \in BOOLEAN, NEW form, FitsGap(n, newWay, form),
         ~IsNext(n, newWay, form), IsShort(n, newWay, form), Carries(r, Gap(n, newWay, form))
  PROVE  Gap(n, newWay, form) \in BitStrings /\ Reads(r, ReadGap(r, newWay), Gap(n, newWay, form), n)
  <1> DEFINE next == NextFlag(r, newWay)
             short == ShortFlag(r, newWay)
             three == ReadBits(short, 3)
             zero == <<0>>
             one == <<1>>
             e3 == Bits(n, 3)
             e == Gap(n, newWay, form)
  <1>1. newWay /\ n \in Nat /\ n < 8 /\ e = <<0, 1>> \o e3
    BY DEF IsShort, IsNext, Gap, FitsGap
  <1>2. Fits(n, 3)
    <2>1. n < Pow2(3) /\ 3 \in 0..30
      BY <1>1, PowerValues, SMT
    <2> QED BY <1>1, <2>1, SmallFits
  <1>3. zero \in BitStrings /\ one \in BitStrings /\ e3 \in BitStrings /\ <<0, 1>> = zero \o one
    BY <1>2, TwoBits, FitsBits
  <1> HIDE DEF e3, e, zero, one
  <1>4. e = (zero \o one) \o e3 /\ zero \o one \in BitStrings /\ e \in BitStrings
    BY <1>1, <1>3, Joined
  <1>5. Carries(r, (zero \o one) \o e3) /\ Carries(r, zero \o one) /\ Carries(r, zero)
    <2>1. Carries(r, (zero \o one) \o e3)
      BY <1>4 DEF e
    <2>2. Carries(r, zero \o one)
      BY <2>1, <1>3, <1>4, CarriesFirst
    <2> QED BY <2>1, <2>2, <1>3, CarriesFirst
  <1>6. Reads(r, next, zero, 0)
    <2>1. next = ReadBit(r)
      BY <1>1 DEF NextFlag, ReadBitIf
    <2> QED BY <2>1, <1>5, BitReads DEF zero
  <1> HIDE DEF next
  <1>7. Carries(next, one) /\ IsReader(next)
    BY <1>3, <1>5, <1>6, CarriesOn
  <1>8. Reads(next, short, one, 1)
    <2> DEFINE wanted == newWay /\ next.value = 0
    <2>1. short = ReadBitIf(next, wanted)
      BY Zenon DEF ShortFlag, next
    <2>2. ~next.threw => (wanted <=> TRUE)
      <3>1. ~next.threw => next.value = 0
        BY <1>6, ReadsValue
      <3> QED BY <1>1, <3>1
    <2>3. wanted \in BOOLEAN
      OBVIOUS
    <2> HIDE DEF wanted
    <2>4. one = IF TRUE THEN <<1>> ELSE <<>>
      BY DEF one
    <2> QED BY <1>7, <2>1, <2>2, <2>3, <2>4, BitIfReads
  <1> HIDE DEF short
  <1>9. Reads(r, short, zero \o one, 1) /\ Carries(short, e3) /\ IsReader(short)
    BY <1>3, <1>5, <1>6, <1>8, Onward
  <1>10. Reads(short, three, e3, n)
    BY <1>2, <1>9, FieldReads DEF e3
  <1> HIDE DEF three
  <1>11. Reads(r, three, e, n)
    BY <1>3, <1>4, <1>9, <1>10, ReadsOn
  <1>12. CASE next.threw
    <2>1. Starts(zero, e)
      <3>1. Starts(zero, zero \o one)
        BY <1>3 DEF Starts
      <3> QED BY <3>1, <1>3, <1>4, StartsOn
    <2>2. Reads(r, next, e, n)
      BY <2>1, <1>3, <1>4, <1>6, <1>12, ThrewOn
    <2>3. Reads(r, ReadGap(r, newWay), e, n)
      BY <2>2, <1>12, GapThrowsAtOnce DEF next
    <2> QED BY <2>3, <1>4 DEF e
  <1>13. CASE ~next.threw /\ short.threw
    <2>1. next.value = 0
      BY <1>6, <1>13, ReadsValue
    <2>2. Starts(zero \o one, e)
      BY <1>3, <1>4 DEF Starts
    <2>3. Reads(r, short, e, n)
      BY <2>2, <1>4, <1>9, <1>13, ThrewOn
    <2>4. ~(newWay /\ next.value = 1)
      BY <2>1
    <2>5. Reads(r, ReadGap(r, newWay), e, n)
      BY <2>3, <2>4, <1>13, GapThrows DEF next, short
    <2> QED BY <2>5, <1>4 DEF e
  <1>14. CASE ~next.threw /\ ~short.threw
    <2>1. next.value = 0 /\ short.value = 1
      BY <1>6, <1>9, <1>14, ReadsValue
    <2>2. ~(newWay /\ next.value = 1) /\ newWay /\ short.value = 1
      BY <1>1, <2>1
    <2>3. ReadGap(r, newWay) = three
      BY <2>2, ReadGapIs DEF next, short, three
    <2> QED BY <2>3, <1>4, <1>11 DEF e
  <1> QED BY <1>12, <1>13, <1>14

LEMMA LongFormReads ==
  ASSUME NEW r, IsReader(r), NEW n, NEW newWay \in BOOLEAN, NEW form, Sends(n, newWay, form),
         ~IsNext(n, newWay, form), ~IsShort(n, newWay, form), Carries(r, Gap(n, newWay, form))
  PROVE  Gap(n, newWay, form) \in BitStrings /\ Reads(r, ReadGap(r, newWay), Gap(n, newWay, form), n)
  <1>1. PICK x, high, w : GapParts(n, newWay, form, x, high, w)
    BY GapHasParts, Zenon
  <1> DEFINE next == NextFlag(r, newWay)
             short == ShortFlag(r, newWay)
             flag == Flag(newWay)
             e3 == Bits(x, 7) \o Bits(high, w)
             e == Gap(n, newWay, form)
  <1>2. /\ x \in Nat /\ Fits(x, 7) /\ high \in Nat /\ Fits(high, w) /\ w = GapWidth(x \div 32)
        /\ e = (flag \o flag) \o e3
        /\ (x % 32) + 32 * high = n
    BY <1>1, Zenon DEF GapParts
  <1>3. flag \in BitStrings /\ flag \o flag \in BitStrings
    BY FlagBits
  <1>4. e3 \in BitStrings
    BY <1>2, FitsBits, Joined
  <1> HIDE DEF e, flag
  <1>5. Carries(r, (flag \o flag) \o e3) /\ Carries(r, flag \o flag) /\ Carries(r, flag) /\ e \in BitStrings
    <2> HIDE DEF e3
    <2>1. Carries(r, (flag \o flag) \o e3) /\ e \in BitStrings
      BY <1>2, <1>3, <1>4, Joined DEF e
    <2>2. Carries(r, flag \o flag)
      BY <2>1, <1>3, <1>4, CarriesFirst
    <2> QED BY <2>1, <2>2, <1>3, CarriesFirst
  <1>6. Reads(r, next, flag, 0)
    <2>1. next = ReadBitIf(r, newWay)
      BY Zenon DEF NextFlag
    <2>2. flag = IF newWay THEN <<0>> ELSE <<>>
      BY Zenon DEF flag, Flag
    <2> QED BY <2>1, <2>2, <1>5, BitIfReads
  <1> HIDE DEF next
  <1>7. Carries(next, flag) /\ IsReader(next)
    BY <1>3, <1>5, <1>6, CarriesOn
  <1>8. Reads(next, short, flag, 0)
    <2> DEFINE wanted == newWay /\ next.value = 0
    <2>1. short = ReadBitIf(next, wanted)
      BY Zenon DEF ShortFlag, next
    <2>2. ~next.threw => (wanted <=> newWay)
      <3>1. ~next.threw => next.value = 0
        BY <1>6, ReadsValue
      <3> QED BY <3>1
    <2>3. wanted \in BOOLEAN
      OBVIOUS
    <2> HIDE DEF wanted
    <2>4. flag = IF newWay THEN <<0>> ELSE <<>>
      BY Zenon DEF flag, Flag
    <2> QED BY <1>7, <2>1, <2>2, <2>3, <2>4, BitIfReads
  <1> HIDE DEF short
  <1>9. Reads(r, short, flag \o flag, 0) /\ Carries(short, e3) /\ IsReader(short)
    <2> HIDE DEF e3
    <2> QED BY <1>3, <1>4, <1>5, <1>6, <1>8, Onward
  <1>10. Reads(short, LongGap(short), e3, n)
    BY <1>2, <1>9, LongGapReads
  <1> HIDE DEF e3
  <1>11. Reads(r, LongGap(short), e, n)
    BY <1>2, <1>3, <1>4, <1>9, <1>10, ReadsOn
  <1>12. CASE next.threw
    <2>1. Starts(flag, e)
      <3>1. Starts(flag, flag \o flag)
        BY <1>3 DEF Starts
      <3>2. Starts(flag, (flag \o flag) \o e3)
        BY <3>1, <1>3, <1>4, StartsOn
      <3> QED BY <3>2, <1>2
    <2>2. Reads(r, next, e, n)
      BY <2>1, <1>3, <1>5, <1>6, <1>12, ThrewOn
    <2>3. Reads(r, ReadGap(r, newWay), e, n)
      BY <2>2, <1>12, GapThrowsAtOnce DEF next
    <2> QED BY <2>3, <1>5 DEF e
  <1>13. CASE ~next.threw /\ short.threw
    <2>1. next.value = 0
      BY <1>6, <1>13, ReadsValue
    <2>2. Starts(flag \o flag, e)
      BY <1>2, <1>3, <1>4 DEF Starts
    <2>3. Reads(r, short, e, n)
      BY <2>2, <1>3, <1>5, <1>9, <1>13, ThrewOn
    <2>4. ~(newWay /\ next.value = 1)
      BY <2>1
    <2>5. Reads(r, ReadGap(r, newWay), e, n)
      BY <2>3, <2>4, <1>13, GapThrows DEF next, short
    <2> QED BY <2>5, <1>5 DEF e
  <1>14. CASE ~next.threw /\ ~short.threw
    <2>1. next.value = 0 /\ short.value = 0
      BY <1>6, <1>9, <1>14, ReadsValue
    <2>2. ~(newWay /\ next.value = 1) /\ ~(newWay /\ short.value = 1)
      BY <2>1
    <2>3. ReadGap(r, newWay) = LongGap(short)
      BY <2>2, ReadGapIs DEF next, short
    <2> QED BY <2>3, <1>5, <1>11 DEF e
  <1> QED BY <1>12, <1>13, <1>14

LEMMA GapReads ==
  ASSUME NEW r, IsReader(r), NEW n, NEW newWay \in BOOLEAN, NEW form, Sends(n, newWay, form),
         Carries(r, Gap(n, newWay, form))
  PROVE  Gap(n, newWay, form) \in BitStrings /\ Reads(r, ReadGap(r, newWay), Gap(n, newWay, form), n)
  <1>1. CASE IsNext(n, newWay, form)
    BY <1>1, NextGapReads
  <1>2. CASE ~IsNext(n, newWay, form) /\ IsShort(n, newWay, form)
    <2>1. FitsGap(n, newWay, form)
      <3>1. form = "short"
        BY <1>2, Zenon DEF IsShort
      <3>2. form # "seven"
        BY <3>1
      <3>3. Sends(n, newWay, form) <=> FitsGap(n, newWay, form) \/ (n = 4095 /\ form = "seven")
        BY DEF Sends
      <3> QED BY <3>2, <3>3, SMT
    <2> QED BY <1>2, <2>1, ShortGapReads
  <1>3. CASE ~IsNext(n, newWay, form) /\ ~IsShort(n, newWay, form)
    BY <1>3, LongFormReads
  <1> QED BY <1>1, <1>2, <1>3

LEMMA GapBits ==
  ASSUME NEW n, NEW newWay \in BOOLEAN, NEW form, Sends(n, newWay, form)
  PROVE  Gap(n, newWay, form) \in BitStrings
  <1>1. PICK r : IsReader(r) /\ \A e : Carries(r, e)
    BY SomeReader, Zenon
  <1> QED BY <1>1, GapReads

-----------------------------------------------------------------------------
(* A message that the server may send. *)

GapBefore(m, k) == m.entries[k].id - (IF k = 1 THEN 0 ELSE m.entries[k - 1].id + 1)

\* The id before the k-th entry, -1 before the first.
IdBefore(m, k) == IF k = 1 THEN -1 ELSE m.entries[k - 1].id

LEMMA MessageShape ==
  ASSUME NEW L, NEW m, SoundMessage(L, m)
  PROVE  /\ Len(m.entries) \in Nat /\ DOMAIN m.entries = 1..Len(m.entries)
         /\ m.newWay \in BOOLEAN /\ m.cut \in Nat
         /\ \A k \in 1..Len(m.entries) : SoundEntry(L, m.entries[k], m.newWay, m.form)
  <1>1. m.entries \in Seq(Range(m.entries)) /\ m.newWay \in BOOLEAN /\ m.cut \in Nat
    BY Zenon DEF SoundMessage
  <1>2. Len(m.entries) \in Nat /\ DOMAIN m.entries = 1..Len(m.entries)
    BY <1>1, LenProperties, Zenon
  <1>3. \A k \in 1..Len(m.entries) : SoundEntry(L, m.entries[k], m.newWay, m.form)
    BY <1>2, Zenon DEF SoundMessage
  <1> QED BY <1>1, <1>2, <1>3

LEMMA EntryShape ==
  ASSUME NEW L, NEW e, NEW newWay, NEW form, SoundEntry(L, e, newWay, form)
  PROVE  /\ e.id \in Nat /\ e.id <= MaxNumber
         /\ e.op \in {"delete", "leave", "enter", "update"}
         /\ e = [op |-> e.op, id |-> e.id, class |-> e.class, serial |-> e.serial, changes |-> e.changes]
  <1>1. e.id \in 0..MaxNumber /\ e.op \in {"delete", "leave", "enter", "update"}
    BY Zenon DEF SoundEntry
  <1>2. e = [op |-> e.op, id |-> e.id, class |-> e.class, serial |-> e.serial, changes |-> e.changes]
    BY Zenon DEF SoundEntry
  <1>3. e.id \in Nat /\ e.id <= MaxNumber
    BY <1>1, MaxNumberIs
  <1> QED BY <1>1, <1>2, <1>3

LEMMA IdsAscend ==
  ASSUME NEW L, NEW m, SoundMessage(L, m), NEW k \in 1..Len(m.entries)
  PROVE  /\ GapBefore(m, k) \in Nat /\ GapBefore(m, k) <= MaxNumber
         /\ IdBefore(m, k) \in Int /\ IdBefore(m, k) + 1 + GapBefore(m, k) = m.entries[k].id
         /\ IdBefore(m, k) < m.entries[k].id
  <1>1. Len(m.entries) \in Nat /\ m.entries[k].id \in Nat /\ m.entries[k].id <= MaxNumber
    BY MessageShape, EntryShape
  <1>2. CASE k = 1
    BY <1>1, <1>2, MaxNumberIs DEF GapBefore, IdBefore
  <1>3. CASE k # 1
    <2>1. k - 1 \in 1..Len(m.entries) /\ k > 1
      BY <1>1, <1>3
    <2>2. m.entries[k - 1].id \in Nat
      BY <2>1, MessageShape, EntryShape
    <2>3. m.entries[k - 1].id < m.entries[k].id
      <3>1. k \in DOMAIN m.entries
        BY MessageShape
      <3> QED BY <2>1, <3>1, Zenon DEF SoundMessage
    <2>4. GapBefore(m, k) = m.entries[k].id - (m.entries[k - 1].id + 1) /\ IdBefore(m, k) = m.entries[k - 1].id
      BY <1>3, Zenon DEF GapBefore, IdBefore
    <2> DEFINE x == m.entries[k].id
               y == m.entries[k - 1].id
    <2>5. x \in Nat /\ y \in Nat /\ y < x /\ x <= MaxNumber /\ GapBefore(m, k) = x - (y + 1) /\ IdBefore(m, k) = y
      BY <1>1, <2>2, <2>3, <2>4
    <2>6. MaxNumber \in Nat
      BY MaxNumberIs
    <2> HIDE DEF x, y
    <2>7. GapBefore(m, k) \in Nat /\ GapBefore(m, k) <= MaxNumber
      BY <2>5, <2>6
    <2>8. IdBefore(m, k) \in Int /\ IdBefore(m, k) + 1 + GapBefore(m, k) = x /\ IdBefore(m, k) < x
      BY <2>5
    <2> QED BY <2>7, <2>8 DEF x
  <1> QED BY <1>2, <1>3

\* Classes and messages as the decoder's module assumes them.
Setting(cl, m) == cl \in ParsedClasses /\ m \in Messages(ClassLists(cl))

LEMMA SettingHolds ==
  ASSUME NEW cl, NEW m, Setting(cl, m)
  PROVE  /\ SoundMessage(ClassLists(cl), m) /\ SoundClasses(cl)
         /\ Word16(Len(cl)) /\ DOMAIN cl = 1..Len(cl) /\ Len(cl) \in Nat
  <1>1. SoundMessage(ClassLists(cl), m) /\ SoundClasses(cl)
    BY MessagesAssumption, Zenon DEF Setting
  <1>2. Word16(Len(cl)) /\ cl \in Seq(Range(cl))
    BY <1>1, Zenon DEF SoundClasses
  <1> QED BY <1>1, <1>2, LenProperties

LEMMA ClassFits ==
  ASSUME NEW cl, SoundClasses(cl), NEW c \in DOMAIN ClassLists(cl)
  PROVE  /\ c \in Nat /\ c + 1 \in DOMAIN cl /\ Fits(c, ClassIdBits(Len(cl)))
         /\ ClassLists(cl)[c] = cl[c + 1].flattenedProps
         /\ ClassLists(cl)[c] \in Seq(Range(ClassLists(cl)[c]))
  <1>1. cl \in Seq(Range(cl)) /\ Word16(Len(cl))
    BY Zenon DEF SoundClasses
  <1>2. DOMAIN cl = 1..Len(cl) /\ Len(cl) \in Nat
    BY <1>1, LenProperties
  <1>3. PICK i \in DOMAIN cl : c = i - 1
    BY DEF ClassLists
  <1>4. c \in Nat /\ c + 1 = i /\ c < Len(cl)
    BY <1>2, <1>3
  <1>5. ClassLists(cl)[c] = cl[c + 1].flattenedProps
    BY DEF ClassLists
  <1>6. ClassLists(cl)[c] \in Seq(Range(ClassLists(cl)[c]))
    BY <1>3, <1>4, <1>5, Zenon DEF SoundClasses
  <1>7. Fits(c, ClassIdBits(Len(cl)))
    <2> DEFINE n == Len(cl)
               w == ClassIdBits(n)
    <2>1. w \in 1..31 /\ n <= Pow2(w)
      BY <1>1, ClassIdBitsHolds
    <2> HIDE DEF w
    <2>2. Pow2(w) \in Nat
      <3>1. w \in 0..32
        BY <2>1
      <3> QED BY <3>1, PowerPositive
    <2>7. Word16(n)
      BY <1>1
    <2> HIDE DEF n
    <2>3. n <= MaxNumber /\ n \in Nat
      BY <2>7, PowerValues, SMT DEF MaxNumber, Word16
    <2>4. c < Pow2(w) /\ c <= MaxNumber
      BY <1>4, <2>1, <2>2, <2>3, MaxNumberIs DEF n
    <2>5. c \in 0..MaxNumber /\ w \in 0..32
      BY <1>4, <2>1, <2>4, MaxNumberIs
    <2>6. Fits(c, w)
      BY <2>4, <2>5, Zenon DEF Fits, Pow2
    <2> QED BY <2>6 DEF w, n
  <1> QED BY <1>3, <1>4, <1>5, <1>6, <1>7

\* The op bits of an entry, and what follows them.
FirstOp(op) == IF op \in {"delete", "leave"} THEN 1 ELSE 0
SecondOp(op) == IF op \in {"delete", "enter"} THEN 1 ELSE 0
EnterBits(e, w) == IF e.op = "enter" THEN Bits(e.class, w) \o Bits(e.serial, 10) ELSE <<>>
HeadBits(cl, m, k) == EncodeHead(m.entries[k], GapBefore(m, k), ClassIdBits(Len(cl)))

LEMMA OpHasBits ==
  ASSUME NEW op \in {"delete", "leave", "enter", "update"}
  PROVE  /\ FirstOp(op) \in {0, 1} /\ SecondOp(op) \in {0, 1}
         /\ <<FirstOp(op)>> \in BitStrings /\ <<SecondOp(op)>> \in BitStrings
         /\ OpBits(op) = <<FirstOp(op)>> \o <<SecondOp(op)>>
  <1>1. FirstOp(op) \in {0, 1} /\ SecondOp(op) \in {0, 1}
    BY DEF FirstOp, SecondOp
  <1>2. <<FirstOp(op)>> \in BitStrings /\ <<SecondOp(op)>> \in BitStrings
    BY <1>1, SingleBit
  <1>3. OpBits(op) = <<FirstOp(op), SecondOp(op)>>
    BY DEF OpBits, FirstOp, SecondOp
  <1>4. <<FirstOp(op), SecondOp(op)>> = <<FirstOp(op)>> \o <<SecondOp(op)>>
    BY <1>1, TwoBits
  <1> QED BY <1>1, <1>2, <1>3, <1>4

LEMMA EnterHasBits ==
  ASSUME NEW cl, NEW m, Setting(cl, m), NEW k \in 1..Len(m.entries)
  PROVE  LET e == m.entries[k]
             w == ClassIdBits(Len(cl))
         IN /\ EnterBits(e, w) \in BitStrings
            /\ e.op = "enter" => /\ e.class \in DOMAIN ClassLists(cl) /\ Fits(e.class, w) /\ Fits(e.serial, 10)
                                 /\ Bits(e.class, w) \in BitStrings /\ Bits(e.serial, 10) \in BitStrings
  <1> DEFINE L == ClassLists(cl)
             e == m.entries[k]
             w == ClassIdBits(Len(cl))
  <1>1. SoundEntry(L, e, m.newWay, m.form) /\ SoundClasses(cl)
    BY SettingHolds, MessageShape
  <1> HIDE DEF L, e, w
  <1>2. ASSUME e.op = "enter"
        PROVE  /\ e.class \in DOMAIN ClassLists(cl) /\ Fits(e.class, w) /\ Fits(e.serial, 10)
               /\ Bits(e.class, w) \in BitStrings /\ Bits(e.serial, 10) \in BitStrings
    <2>1. e.class \in DOMAIN L /\ e.serial \in 0..1023
      BY <1>1, <1>2 DEF SoundEntry
    <2>2. Fits(e.class, w)
      BY <1>1, <2>1, ClassFits DEF L, w
    <2>3. Fits(e.serial, 10)
      <3> DEFINE s == e.serial
      <3>1. s \in 0..1023
        BY <2>1
      <3> HIDE DEF s
      <3>2. s \in Nat /\ s < 1024
        BY <3>1
      <3>3. Pow2(10) = 1024 /\ 10 \in 0..30
        BY SMT DEF Pow2
      <3>4. s < Pow2(10)
        BY <3>2, <3>3
      <3>5. Fits(s, 10)
        BY <3>2, <3>3, <3>4, SmallFits
      <3> QED BY <3>5 DEF s
    <2> QED BY <2>1, <2>2, <2>3, FitsBits DEF L
  <1>3. EnterBits(e, w) \in BitStrings
    <2>1. CASE e.op = "enter"
      <3>1. EnterBits(e, w) = Bits(e.class, w) \o Bits(e.serial, 10)
        BY <2>1, Zenon DEF EnterBits
      <3> QED BY <3>1, <2>1, <1>2, Joined
    <2>2. CASE e.op # "enter"
      BY <2>2, NoBits, Zenon DEF EnterBits
    <2> QED BY <2>1, <2>2
  <1> QED BY <1>2, <1>3 DEF e, w

LEMMA IndexBits ==
  ASSUME NEW n \in Nat, n <= MaxNumber
  PROVE  EntryIndex(n) \in BitStrings
  <1>1. PICK r : IsReader(r) /\ \A e : Carries(r, e)
    BY SomeReader, Zenon
  <1> QED BY <1>1, EntryIndexReads

\* The head of an entry, part by part.
LEMMA HeadParts ==
  ASSUME NEW cl, NEW m, Setting(cl, m), NEW k \in 1..Len(m.entries)
  PROVE  LET e == m.entries[k]
             index == EntryIndex(GapBefore(m, k))
             b1 == <<FirstOp(e.op)>>
             b2 == <<SecondOp(e.op)>>
             enters == EnterBits(e, ClassIdBits(Len(cl)))
         IN /\ index \in BitStrings /\ b1 \in BitStrings /\ b2 \in BitStrings /\ enters \in BitStrings
            /\ HeadBits(cl, m, k) = ((index \o b1) \o b2) \o enters
            /\ HeadBits(cl, m, k) \in BitStrings
  <1> DEFINE e == m.entries[k]
             index == EntryIndex(GapBefore(m, k))
             b1 == <<FirstOp(e.op)>>
             b2 == <<SecondOp(e.op)>>
             enters == EnterBits(e, ClassIdBits(Len(cl)))
  <1>1. SoundMessage(ClassLists(cl), m)
    BY SettingHolds
  <1>2. index \in BitStrings
    BY <1>1, IdsAscend, IndexBits
  <1>3. e.op \in {"delete", "leave", "enter", "update"}
    BY <1>1, MessageShape, EntryShape
  <1>4. b1 \in BitStrings /\ b2 \in BitStrings /\ OpBits(e.op) = b1 \o b2
    <2> HIDE DEF e
    <2> QED BY <1>3, OpHasBits
  <1>5. enters \in BitStrings
    BY EnterHasBits
  <1>6. HeadBits(cl, m, k) = (index \o OpBits(e.op)) \o enters
    BY Zenon DEF HeadBits, EncodeHead, EnterBits
  <1> HIDE DEF e, index, b1, b2, enters
  <1>7. index \o (b1 \o b2) = (index \o b1) \o b2
    BY <1>2, <1>4, JoinAssoc
  <1>8. ((index \o b1) \o b2) \o enters \in BitStrings
    <2>1. index \o b1 \in BitStrings
      BY <1>2, <1>4, Joined
    <2>2. (index \o b1) \o b2 \in BitStrings
      BY <2>1, <1>4, Joined
    <2> QED BY <2>2, <1>5, Joined
  <1>9. HeadBits(cl, m, k) = ((index \o b1) \o b2) \o enters
    BY <1>4, <1>6, <1>7
  <1> QED BY <1>2, <1>4, <1>5, <1>8, <1>9 DEF e, index, b1, b2, enters

LEMMA StartsPart ==
  ASSUME NEW w \in BitStrings, NEW d \in BitStrings, NEW a \in BitStrings, NEW b \in BitStrings, Starts(d \o (a \o b), w)
  PROVE  /\ d \o (a \o b) = (d \o a) \o b
         /\ Starts(d \o a, w) /\ Starts((d \o a) \o b, w)
         /\ a \o b \in BitStrings /\ d \o a \in BitStrings
  <1>1. d \o (a \o b) = (d \o a) \o b
    BY JoinAssoc, SMTT(30)
  <1>2. a \o b \in BitStrings /\ d \o a \in BitStrings /\ (d \o a) \o b \in BitStrings
    BY Joined
  <1>3. Starts(d \o a, (d \o a) \o b)
    BY <1>2, StartsAtOnce, StartsOn
  <1>4. Starts((d \o a) \o b, w)
    BY <1>1
  <1>5. Starts(d \o a, w)
    BY <1>2, <1>3, <1>4, StartsThen
  <1> QED BY <1>1, <1>2, <1>4, <1>5

LEMMA ThreeParts ==
  ASSUME NEW w \in BitStrings, NEW d \in BitStrings, NEW a \in BitStrings, NEW b \in BitStrings,
         NEW c \in BitStrings, Starts(d \o ((a \o b) \o c), w)
  PROVE  /\ d \o ((a \o b) \o c) = ((d \o a) \o b) \o c
         /\ Starts(d \o a, w) /\ Starts((d \o a) \o b, w) /\ Starts(((d \o a) \o b) \o c, w)
         /\ d \o a \in BitStrings /\ (d \o a) \o b \in BitStrings
  <1>1. a \o b \in BitStrings /\ d \o a \in BitStrings
    BY Joined
  <1>2. d \o ((a \o b) \o c) = (d \o (a \o b)) \o c /\ Starts(d \o (a \o b), w)
        /\ Starts((d \o (a \o b)) \o c, w)
    BY <1>1, StartsPart
  <1>3. d \o (a \o b) = (d \o a) \o b /\ Starts(d \o a, w) /\ Starts((d \o a) \o b, w)
    BY <1>2, StartsPart
  <1>4. (d \o a) \o b \in BitStrings
    BY <1>1, Joined
  <1> QED BY <1>1, <1>2, <1>3, <1>4

\* The reads of Header.
DeltaRead(r) == ReadUBitInt(r)
LeavingRead(r) == ReadBit(DeltaRead(r))
SecondRead(r) == ReadBit(LeavingRead(r))
ClassRead(r, w) == ReadBits(SecondRead(r), w)
SerialRead(r, w) == ReadBits(ClassRead(r, w), 10)

LEMMA ThrewIsZero ==
  ASSUME NEW r, IsReader(r), NEW n, ReadBits(r, n).threw
  PROVE  r.threw \/ ReadBits(r, n).value = 0
  <1>1. CASE r.threw
    BY <1>1
  <1>2. CASE ~r.threw /\ n = 0
    <2>1. ReadBits(r, n) = Returning(r, 0)
      BY <1>2 DEF ReadBits
    <2> QED BY <2>1 DEF Returning, IsReader
  <1>3. CASE ~r.threw /\ n # 0
    BY <1>3 DEF ReadBits, Throwing, Moving
  <1> QED BY <1>1, <1>2, <1>3

LEMMA ThrewStays ==
  ASSUME NEW r, NEW n, r.threw
  PROVE  ReadBits(r, n).threw /\ ReadBits(r, n).value = 0
  BY DEF ReadBits, Throwing

OpsRead(cl, m, k, start, w, r, d) ==
  LET e == m.entries[k]
      index == EntryIndex(GapBefore(m, k))
      b1 == <<FirstOp(e.op)>>
      b2 == <<SecondOp(e.op)>>
      enters == EnterBits(e, ClassIdBits(Len(cl)))
      second == SecondRead(r)
  IN /\ At(start, w, second, ((d \o index) \o b1) \o b2)
     /\ Starts((((d \o index) \o b1) \o b2) \o enters, w)
     /\ d \o HeadBits(cl, m, k) = (((d \o index) \o b1) \o b2) \o enters
     /\ second.threw => second.value = 0
     /\ second.threw => LeavingRead(r).value \in {0, 1}
     /\ ~second.threw => /\ DeltaRead(r).value = GapBefore(m, k)
                         /\ LeavingRead(r).value = FirstOp(e.op) /\ second.value = SecondOp(e.op)

LEMMA OpReads ==
  ASSUME NEW cl, NEW m, Setting(cl, m), NEW k \in 1..Len(m.entries),
         NEW start, NEW w, NEW r, NEW d, At(start, w, r, d), Starts(d \o HeadBits(cl, m, k), w)
  PROVE  OpsRead(cl, m, k, start, w, r, d)
  <1> DEFINE e == m.entries[k]
             gap == GapBefore(m, k)
             index == EntryIndex(gap)
             f1 == FirstOp(e.op)
             f2 == SecondOp(e.op)
             b1 == <<f1>>
             b2 == <<f2>>
             enters == EnterBits(e, ClassIdBits(Len(cl)))
             delta == DeltaRead(r)
             leaving == LeavingRead(r)
             second == SecondRead(r)
  <1>1. SoundMessage(ClassLists(cl), m)
    BY SettingHolds
  <1>2. /\ index \in BitStrings /\ b1 \in BitStrings /\ b2 \in BitStrings /\ enters \in BitStrings
        /\ HeadBits(cl, m, k) = ((index \o b1) \o b2) \o enters
    BY HeadParts
  <1>3. gap \in Nat /\ gap <= MaxNumber
    BY <1>1, IdsAscend
  <1>4. f1 \in {0, 1} /\ f2 \in {0, 1}
    <2>1. e.op \in {"delete", "leave", "enter", "update"}
      BY <1>1, MessageShape, EntryShape
    <2> HIDE DEF e
    <2> QED BY <2>1, OpHasBits
  <1>5. /\ delta = ReadUBitInt(r) /\ leaving = ReadBits(delta, 1) /\ second = ReadBits(leaving, 1)
        /\ leaving = ReadBit(delta) /\ second = ReadBit(leaving)
    BY Zenon DEF DeltaRead, LeavingRead, SecondRead, ReadBit
  <1> HIDE DEF gap, f1, f2, enters, e, delta, leaving, second
  <1>6. w \in BitStrings /\ d \in BitStrings
    BY DEF At
  <1> DEFINE X == (index \o b1) \o b2
  <1>7. X \in BitStrings /\ index \o b1 \in BitStrings
    BY <1>2, Joined
  <1>8. /\ d \o (X \o enters) = (d \o X) \o enters
        /\ Starts(d \o X, w) /\ Starts((d \o X) \o enters, w)
    <2>1. Starts(d \o (X \o enters), w)
      BY <1>2
    <2> HIDE DEF X
    <2> QED BY <2>1, <1>2, <1>6, <1>7, StartsPart
  <1>9. /\ d \o X = ((d \o index) \o b1) \o b2
        /\ Starts(d \o index, w) /\ Starts((d \o index) \o b1, w) /\ Starts(((d \o index) \o b1) \o b2, w)
        /\ d \o index \in BitStrings /\ (d \o index) \o b1 \in BitStrings
    <2>1. Starts(d \o ((index \o b1) \o b2), w)
      BY <1>8
    <2> HIDE DEF index, b1, b2
    <2> QED BY <2>1, <1>2, <1>6, ThreeParts, ZenonT(60)
  <1> HIDE DEF index, b1, b2
  <1>10. /\ At(start, w, delta, d \o index)
         /\ ~delta.threw => delta.value = gap
    <2>1. Carries(r, index) /\ IsReader(r)
      BY <1>2, <1>9, AtNext
    <2>2. Reads(r, delta, index, gap)
      BY <2>1, <1>3, <1>5, EntryIndexReads DEF index
    <2> QED BY <2>2, <1>2, <1>9, AtThen
  <1>11. /\ At(start, w, leaving, (d \o index) \o b1)
         /\ ~leaving.threw => ~delta.threw /\ leaving.value = f1
    <2>1. Carries(delta, b1) /\ IsReader(delta)
      BY <1>2, <1>9, <1>10, AtNext
    <2>2. Reads(delta, leaving, b1, f1)
      BY <2>1, <1>4, <1>5, BitReads DEF b1
    <2> QED BY <2>2, <1>2, <1>9, <1>10, AtThen
  <1>12. /\ At(start, w, second, ((d \o index) \o b1) \o b2)
         /\ ~second.threw => ~leaving.threw /\ second.value = f2
    <2>1. Carries(leaving, b2) /\ IsReader(leaving)
      BY <1>2, <1>9, <1>11, AtNext
    <2>2. Reads(leaving, second, b2, f2)
      BY <2>1, <1>4, <1>5, BitReads DEF b2
    <2> QED BY <2>2, <1>2, <1>9, <1>11, AtThen
  <1>16. IsReader(delta) /\ IsReader(leaving)
    BY <1>10, <1>11, ReadsValue DEF At
  <1>13. second.threw => second.value = 0
    BY <1>5, <1>16, ThrewIsZero, ThrewStays
  <1>14. leaving.value \in {0, 1}
    BY <1>4, <1>5, <1>11, <1>16, ThrewIsZero, ThrewStays
  <1>15. d \o HeadBits(cl, m, k) = (((d \o index) \o b1) \o b2) \o enters
         /\ Starts((((d \o index) \o b1) \o b2) \o enters, w)
    BY <1>2, <1>8, <1>9
  <1> QED BY <1>10, <1>11, <1>12, <1>13, <1>14, <1>15 DEF OpsRead, gap, f1, f2, enters, e, delta, leaving, second, index, b1, b2

LEMMA EnterReads ==
  ASSUME NEW cl, NEW m, Setting(cl, m), NEW k \in 1..Len(m.entries), m.entries[k].op = "enter",
         NEW start, NEW w, NEW r, NEW d \in BitStrings, At(start, w, SecondRead(r), d),
         Starts(d \o EnterBits(m.entries[k], ClassIdBits(Len(cl))), w)
  PROVE  LET n == ClassIdBits(Len(cl))
             e == m.entries[k]
         IN /\ At(start, w, SerialRead(r, n), d \o EnterBits(e, n))
            /\ ~SerialRead(r, n).threw =>
                 ~SecondRead(r).threw /\ ClassRead(r, n).value = e.class /\ SerialRead(r, n).value = e.serial
  <1> DEFINE n == ClassIdBits(Len(cl))
             e == m.entries[k]
             a == Bits(e.class, n)
             b == Bits(e.serial, 10)
             second == SecondRead(r)
             class == ClassRead(r, n)
             serial == SerialRead(r, n)
  <1>1. Fits(e.class, n) /\ Fits(e.serial, 10) /\ a \in BitStrings /\ b \in BitStrings
    BY EnterHasBits
  <1>2. EnterBits(e, n) = a \o b
    BY Zenon DEF EnterBits
  <1>3. class = ReadBits(second, n) /\ serial = ReadBits(class, 10)
    BY Zenon DEF ClassRead, SerialRead
  <1>4. Starts(d \o (a \o b), w) /\ w \in BitStrings
    BY <1>2 DEF At
  <1> DEFINE u == e.class
             v == e.serial
  <1> HIDE DEF n, e, second, class, serial
  <1>5. d \o (a \o b) = (d \o a) \o b /\ Starts(d \o a, w) /\ Starts((d \o a) \o b, w)
    <2> HIDE DEF a, b
    <2> QED BY <1>1, <1>4, StartsPart
  <1> HIDE DEF u, v
  <1>6. At(start, w, class, d \o a) /\ (~class.threw => ~second.threw /\ class.value = u)
    <2>0. At(start, w, second, d)
      BY DEF second
    <2>1. Carries(second, Bits(u, n)) /\ IsReader(second)
      BY <2>0, <1>1, <1>5, AtNext DEF u
    <2>2. Reads(second, class, a, u)
      BY <2>1, <1>1, <1>3, FieldReads DEF u
    <2> HIDE DEF a
    <2> QED BY <2>0, <2>2, <1>1, <1>5, AtThen
  <1>7. At(start, w, serial, (d \o a) \o b) /\ (~serial.threw => ~class.threw /\ serial.value = v)
    <2>1. Carries(class, Bits(v, 10)) /\ IsReader(class)
      BY <1>1, <1>5, <1>6, AtNext DEF v
    <2>2. Reads(class, serial, b, v)
      BY <2>1, <1>1, <1>3, FieldReads DEF v
    <2> HIDE DEF b
    <2> QED BY <2>2, <1>1, <1>5, <1>6, AtThen
  <1>8. At(start, w, serial, d \o EnterBits(e, n))
    BY <1>2, <1>5, <1>7
  <1> QED BY <1>6, <1>7, <1>8 DEF n, e, second, class, serial, u, v

\* The entities that the entries after an id may still name.
KnowsAfter(knw, id) ==
  \A i \in Nat : i > id => (i \in DOMAIN knw <=> i \in DOMAIN Known) /\ (i \in DOMAIN Known => knw[i] = Known[i])

Bare(e) == [op |-> e.op, id |-> e.id, class |-> e.class, serial |-> e.serial, changes |-> <<>>]

LEMMA HeaderIs ==
  LET id      == reading.previous + 1 + DeltaRead(reader).value
      leaving == LeavingRead(reader)
      second  == SecondRead(reader)
      n       == ClassIdBits(Len(classes))
      class   == ClassRead(reader, n)
      serial  == SerialRead(reader, n)
      entity  == IF id \in DOMAIN known THEN known[id] ELSE -1
  IN /\ leaving.value = 1 =>
          Header = [r |-> second, entry |-> [op |-> IF second.value = 1 THEN "delete" ELSE "leave",
                    id |-> id, class |-> entity, serial |-> 0, changes |-> <<>>]]
     /\ leaving.value = 0 /\ second.value = 1 =>
          Header = [r |-> IF IsClass(class.value) THEN serial ELSE Throwing(serial),
                    entry |-> [op |-> "enter", id |-> id, class |-> class.value, serial |-> serial.value,
                               changes |-> <<>>]]
     /\ leaving.value = 0 /\ second.value = 0 =>
          Header = [r |-> IF entity = -1 THEN Throwing(second) ELSE second,
                    entry |-> [op |-> "update", id |-> id, class |-> entity, serial |-> 0, changes |-> <<>>]]
  BY DEF Header, DeltaRead, LeavingRead, SecondRead, ClassRead, SerialRead

LEMMA EntryMeans ==
  ASSUME NEW cl, NEW m, Setting(cl, m), NEW k \in 1..Len(m.entries)
  PROVE  LET e == m.entries[k]
         IN /\ e.op \in {"delete", "leave", "enter", "update"}
            /\ e.op # "enter" => e.id \in DOMAIN Known /\ e.class = Known[e.id] /\ e.serial = 0
            /\ e.op \in {"enter", "update"} =>
                 /\ e.class \in DOMAIN ClassLists(cl) /\ e.class \in Nat /\ e.class + 1 \in DOMAIN cl
                 /\ SoundChanges(ClassLists(cl)[e.class], e.changes, m.newWay, m.form)
            /\ e.op \in {"delete", "leave"} => e.changes = <<>>
  <1> DEFINE L == ClassLists(cl)
             e == m.entries[k]
  <1>1. SoundEntry(L, e, m.newWay, m.form) /\ SoundClasses(cl)
    BY SettingHolds, MessageShape
  <1> HIDE DEF L, e
  <1>2. e.op \in {"delete", "leave", "enter", "update"}
    BY <1>1, EntryShape
  <1>3. e.op # "enter" => e.id \in DOMAIN Known /\ e.class = Known[e.id] /\ e.serial = 0
    BY <1>1, ZenonT(60) DEF SoundEntry
  <1>4. ASSUME e.op \in {"enter", "update"}
        PROVE  /\ e.class \in DOMAIN L /\ e.class \in Nat /\ e.class + 1 \in DOMAIN cl
               /\ SoundChanges(L[e.class], e.changes, m.newWay, m.form)
    <2>1. e.class \in DOMAIN L /\ SoundChanges(L[e.class], e.changes, m.newWay, m.form)
      BY <1>1, <1>4 DEF SoundEntry
    <2> QED BY <1>1, <2>1, ClassFits DEF L
  <1>5. e.op \in {"delete", "leave"} => e.changes = <<>>
    BY <1>1, Zenon DEF SoundEntry
  <1> QED BY <1>2, <1>3, <1>4, <1>5 DEF L, e

\* Header reads the head of the next entry, or throws in a message that was cut short.
LEMMA HeaderHolds ==
  ASSUME NEW m, Setting(classes, m), NEW k \in 1..Len(m.entries), NEW w, NEW d,
         Padded(w, m.cut) # <<>>, At(Reader(Padded(w, m.cut)), w, reader, d),
         Starts(d \o HeadBits(classes, m, k), w),
         reading.previous = IdBefore(m, k), KnowsAfter(known, reading.previous)
  PROVE  /\ Header.r.threw => m.cut > 0
         /\ ~Header.r.threw => At(Reader(Padded(w, m.cut)), w, Header.r, d \o HeadBits(classes, m, k))
                               /\ Header.entry = Bare(m.entries[k])
  <1> DEFINE start == Reader(Padded(w, m.cut))
             e == m.entries[k]
             n == ClassIdBits(Len(classes))
             id == reading.previous + 1 + DeltaRead(reader).value
             leaving == LeavingRead(reader)
             second == SecondRead(reader)
             class == ClassRead(reader, n)
             serial == SerialRead(reader, n)
             entity == IF id \in DOMAIN known THEN known[id] ELSE -1
             enters == EnterBits(e, n)
             head == d \o HeadBits(classes, m, k)
  <1>1. SoundMessage(ClassLists(classes), m) /\ m.cut \in Nat
    BY SettingHolds, MessageShape
  <1>0. OpsRead(classes, m, k, start, w, reader, d)
    BY OpReads, Zenon
  <1>2. PICK front \in BitStrings : /\ At(start, w, second, front) /\ Starts(front \o enters, w)
                                    /\ head = front \o enters
    <2> DEFINE x == ((d \o EntryIndex(GapBefore(m, k))) \o <<FirstOp(e.op)>>) \o <<SecondOp(e.op)>>
    <2>1. At(start, w, second, x) /\ Starts(x \o enters, w) /\ head = x \o enters
      BY <1>0, Zenon DEF OpsRead
    <2> HIDE DEF x, second, head, enters, start
    <2>2. x \in BitStrings
      BY <2>1 DEF At
    <2> QED BY <2>1, <2>2, Zenon
  <1>3. /\ second.threw => second.value = 0 /\ leaving.value \in {0, 1}
        /\ ~second.threw => /\ DeltaRead(reader).value = GapBefore(m, k)
                            /\ leaving.value = FirstOp(e.op) /\ second.value = SecondOp(e.op)
    BY <1>0, Zenon DEF OpsRead
  <1>4. ~second.threw => id = e.id /\ e.id \in Nat /\ e.id > reading.previous
    <2>1. IdBefore(m, k) \in Int /\ IdBefore(m, k) + 1 + GapBefore(m, k) = e.id /\ IdBefore(m, k) < e.id /\ e.id \in Nat
      BY <1>1, IdsAscend, MessageShape, EntryShape
    <2> HIDE DEF e, second
    <2> QED BY <1>3, <2>1
  <1>5. /\ leaving.value = 1 =>
             Header = [r |-> second, entry |-> [op |-> IF second.value = 1 THEN "delete" ELSE "leave",
                       id |-> id, class |-> entity, serial |-> 0, changes |-> <<>>]]
        /\ leaving.value = 0 /\ second.value = 1 =>
             Header = [r |-> IF IsClass(class.value) THEN serial ELSE Throwing(serial),
                       entry |-> [op |-> "enter", id |-> id, class |-> class.value, serial |-> serial.value,
                                  changes |-> <<>>]]
        /\ leaving.value = 0 /\ second.value = 0 =>
             Header = [r |-> IF entity = -1 THEN Throwing(second) ELSE second,
                       entry |-> [op |-> "update", id |-> id, class |-> entity, serial |-> 0, changes |-> <<>>]]
    BY HeaderIs
  <1>6. /\ e.op \in {"delete", "leave", "enter", "update"}
        /\ e.op # "enter" => e.id \in DOMAIN Known /\ e.class = Known[e.id] /\ e.serial = 0
        /\ e.op \in {"enter", "update"} => e.class \in Nat /\ e.class + 1 \in DOMAIN classes
    BY EntryMeans
  <1>7. e.op = "enter" => /\ At(start, w, serial, front \o enters)
                          /\ ~serial.threw => class.value = e.class /\ serial.value = e.serial /\ ~second.threw
    BY <1>2, EnterReads
  <1>8. e.op # "enter" => enters = <<>> /\ front \o enters = front
    BY <1>2, JoinEmpty DEF EnterBits
  <1>9. ~second.threw /\ e.op # "enter" => entity = e.class
    BY <1>4, <1>6 DEF KnowsAfter
  <1> HIDE DEF start, e, n, id, leaving, second, class, serial, entity, enters, head
  <1>10. CASE second.threw
    <2>1. m.cut > 0
      BY <1>1, <1>2, <1>10, CutShort DEF start
    <2>2. Header.r.threw
      <3>1. CASE leaving.value = 1
        BY <1>5, <1>10, <3>1
      <3>2. CASE leaving.value = 0
        <4>1. Header.r = second \/ Header.r = Throwing(second)
          BY <1>3, <1>5, <1>10, <3>2
        <4> QED BY <1>10, <4>1 DEF Throwing
      <3> QED BY <1>3, <1>10, <3>1, <3>2
    <2> QED BY <2>1, <2>2
  <1>11. CASE ~second.threw /\ e.op \in {"delete", "leave"}
    <2>1. leaving.value = 1 /\ second.value = (IF e.op = "delete" THEN 1 ELSE 0)
      BY <1>3, <1>11 DEF FirstOp, SecondOp
    <2>2. Header = [r |-> second, entry |-> [op |-> e.op, id |-> e.id, class |-> e.class, serial |-> e.serial, changes |-> <<>>]]
      BY <1>4, <1>5, <1>6, <1>9, <1>11, <2>1
    <2>3. Header.r = second /\ Header.entry = Bare(e)
      BY <2>2 DEF Bare
    <2>4. front \o enters = front
      BY <1>8, <1>11
    <2> QED BY <1>2, <1>11, <2>3, <2>4 DEF start, e, head
  <1>12. CASE ~second.threw /\ e.op = "update"
    <2>1. leaving.value = 0 /\ second.value = 0
      BY <1>3, <1>12 DEF FirstOp, SecondOp
    <2>2. entity # -1
      BY <1>6, <1>9, <1>12
    <2>3. Header = [r |-> second, entry |-> [op |-> e.op, id |-> e.id, class |-> e.class, serial |-> e.serial, changes |-> <<>>]]
      BY <1>4, <1>5, <1>6, <1>9, <1>12, <2>1, <2>2
    <2>4. Header.r = second /\ Header.entry = Bare(e)
      BY <2>3 DEF Bare
    <2>5. front \o enters = front
      BY <1>8, <1>12
    <2> QED BY <1>2, <1>12, <2>4, <2>5 DEF start, e, head
  <1>13. CASE ~second.threw /\ e.op = "enter"
    <2>1. leaving.value = 0 /\ second.value = 1
      BY <1>3, <1>13 DEF FirstOp, SecondOp
    <2>2. CASE serial.threw
      <3>1. m.cut > 0
        BY <1>1, <1>7, <1>13, <2>2, CutShort DEF start
      <3>2. Header.r = serial \/ Header.r = Throwing(serial)
        BY <1>5, <2>1
      <3> QED BY <3>1, <3>2, <2>2 DEF Throwing
    <2>3. CASE ~serial.threw
      <3>1. class.value = e.class /\ serial.value = e.serial /\ IsClass(class.value)
        BY <1>6, <1>7, <1>13, <2>3 DEF IsClass
      <3>2. Header = [r |-> serial, entry |-> [op |-> e.op, id |-> e.id, class |-> e.class, serial |-> e.serial, changes |-> <<>>]]
        BY <1>4, <1>5, <1>13, <2>1, <3>1
      <3>3. Header.r = serial /\ Header.entry = Bare(e)
        BY <3>2 DEF Bare
      <3> QED BY <1>2, <1>7, <1>13, <2>3, <3>3 DEF start, e, head
    <2> QED BY <2>2, <2>3
  <1> QED BY <1>6, <1>10, <1>11, <1>12, <1>13

-----------------------------------------------------------------------------
(* The changes of an entry, and the entries of a message, as bits. *)

\* The index before the i-th one of a list of changes.
IndexBefore(ch, i) == IF i = 1 THEN 0 ELSE ch[i - 1][1]
IndexSeq(ch, newWay, form) == [i \in DOMAIN ch |-> Gap(ch[i][1] - IndexBefore(ch, i) - 1, newWay, form)]
ValueSeq(list, ch) == [i \in DOMAIN ch |-> EncodeProp(list[ch[i][1]], ch[i][2])]

LEMMA FitsGapRange ==
  ASSUME NEW n, NEW newWay, NEW form, FitsGap(n, newWay, form)
  PROVE  n \in Nat /\ n < 4095
  <1>1. n \in Nat
    BY Zenon DEF FitsGap
  <1>2. CASE form = "two"
    BY <1>1, <1>2 DEF FitsGap
  <1>3. CASE form = "four"
    BY <1>1, <1>3 DEF FitsGap
  <1>4. CASE form = "seven"
    BY <1>1, <1>4 DEF FitsGap
  <1>5. CASE form \notin {"two", "four", "seven"}
    <2>1. n = 0 \/ n < 8 \/ n < 32
      BY <1>1, <1>5 DEF FitsGap
    <2> QED BY <1>1, <2>1
  <1> QED BY <1>1, <1>2, <1>3, <1>4, <1>5

LEMMA ChangesShape ==
  ASSUME NEW list, NEW ch, NEW newWay \in BOOLEAN, NEW form, SoundChanges(list, ch, newWay, form)
  PROVE  /\ ch \in Seq(Range(ch)) /\ Len(ch) \in Nat /\ DOMAIN ch = 1..Len(ch)
         /\ \A i \in 1..Len(ch) :
              /\ ch[i][1] \in DOMAIN list
              /\ FitsGap(ch[i][1] - IndexBefore(ch, i) - 1, newWay, form)
              /\ FitsProp(list[ch[i][1]], ch[i][2])
         /\ \A i \in 1..Len(ch) : IndexSeq(ch, newWay, form)[i] = Gap(ch[i][1] - IndexBefore(ch, i) - 1, newWay, form)
                                  /\ IndexSeq(ch, newWay, form)[i] \in BitStrings
         /\ \A i \in 1..Len(ch) : ValueSeq(list, ch)[i] = EncodeProp(list[ch[i][1]], ch[i][2])
                                  /\ ValueSeq(list, ch)[i] \in BitStrings
  <1>1. ch \in Seq(Range(ch))
    BY Zenon DEF SoundChanges
  <1>2. Len(ch) \in Nat /\ DOMAIN ch = 1..Len(ch)
    BY <1>1, LenProperties, Zenon
  <1>3. ASSUME NEW i \in 1..Len(ch)
        PROVE  /\ ch[i][1] \in DOMAIN list
               /\ FitsGap(ch[i][1] - IndexBefore(ch, i) - 1, newWay, form)
               /\ FitsProp(list[ch[i][1]], ch[i][2])
    BY <1>2, Zenon DEF SoundChanges, IndexBefore
  <1>4. ASSUME NEW i \in 1..Len(ch)
        PROVE  /\ IndexSeq(ch, newWay, form)[i] = Gap(ch[i][1] - IndexBefore(ch, i) - 1, newWay, form)
               /\ IndexSeq(ch, newWay, form)[i] \in BitStrings
    <2> DEFINE g == ch[i][1] - IndexBefore(ch, i) - 1
    <2>1. IndexSeq(ch, newWay, form)[i] = Gap(g, newWay, form)
      BY <1>2, Zenon DEF IndexSeq
    <2>2. FitsGap(g, newWay, form)
      BY <1>3
    <2> HIDE DEF g
    <2>3. Sends(g, newWay, form)
      BY <2>2, Zenon DEF Sends
    <2>4. Gap(g, newWay, form) \in BitStrings
      BY <2>3, GapBits
    <2> QED BY <2>1, <2>4 DEF g
  <1>5. ASSUME NEW i \in 1..Len(ch)
        PROVE  /\ ValueSeq(list, ch)[i] = EncodeProp(list[ch[i][1]], ch[i][2])
               /\ ValueSeq(list, ch)[i] \in BitStrings
    <2>1. ValueSeq(list, ch)[i] = EncodeProp(list[ch[i][1]], ch[i][2])
      BY <1>2, Zenon DEF ValueSeq
    <2>2. FitsProp(list[ch[i][1]], ch[i][2])
      BY <1>3
    <2> QED BY <2>1, <2>2, PropBits
  <1> QED BY <1>1, <1>2, <1>3, <1>4, <1>5

LEMMA EndBits ==
  ASSUME NEW newWay \in BOOLEAN
  PROVE  /\ EndOfIndices(newWay) = Gap(4095, newWay, "seven") /\ EndOfIndices(newWay) \in BitStrings
         /\ Sends(4095, newWay, "seven")
  <1>1. Sends(4095, newWay, "seven")
    BY DEF Sends
  <1>2. EndOfIndices(newWay) = Gap(4095, newWay, "seven")
    BY SMTT(30) DEF EndOfIndices
  <1>3. Gap(4095, newWay, "seven") \in BitStrings
    BY <1>1, GapBits
  <1> QED BY <1>1, <1>2, <1>3

\* How far the bits of some changes have been read behind the bits h: to the i-th
\* index, and to the j-th value.
ToIndex(h, ch, newWay, form, i) == (h \o Bit(newWay)) \o FlatTo(IndexSeq(ch, newWay, form), i)
ToValue(h, list, ch, newWay, form, j) ==
  (ToIndex(h, ch, newWay, form, Len(ch)) \o EndOfIndices(newWay)) \o FlatTo(ValueSeq(list, ch), j)

ChangesLieIn(list, ch, newWay, form, h) ==
  LET bits == h \o EncodeChanges(list, ch, newWay, form)
  IN /\ bits \in BitStrings /\ Bit(newWay) \in BitStrings
     /\ ToIndex(h, ch, newWay, form, 0) = h \o Bit(newWay)
     /\ \A i \in 0..Len(ch) : /\ ToIndex(h, ch, newWay, form, i) \in BitStrings
                              /\ Starts(ToIndex(h, ch, newWay, form, i), bits)
     /\ \A i \in 0..Len(ch) - 1 :
          ToIndex(h, ch, newWay, form, i + 1) = ToIndex(h, ch, newWay, form, i) \o IndexSeq(ch, newWay, form)[i + 1]
     /\ ToValue(h, list, ch, newWay, form, 0) = ToIndex(h, ch, newWay, form, Len(ch)) \o EndOfIndices(newWay)
     /\ \A j \in 0..Len(ch) : /\ ToValue(h, list, ch, newWay, form, j) \in BitStrings
                              /\ Starts(ToValue(h, list, ch, newWay, form, j), bits)
     /\ \A j \in 0..Len(ch) - 1 :
          ToValue(h, list, ch, newWay, form, j + 1) = ToValue(h, list, ch, newWay, form, j) \o ValueSeq(list, ch)[j + 1]
     /\ ToValue(h, list, ch, newWay, form, Len(ch)) = bits

LEMMA ChangesTrail ==
  ASSUME NEW list, NEW ch, NEW newWay \in BOOLEAN, NEW form, SoundChanges(list, ch, newWay, form),
         NEW h \in BitStrings
  PROVE  ChangesLieIn(list, ch, newWay, form, h)
  <1> DEFINE n == Len(ch)
             b == Bit(newWay)
             I == IndexSeq(ch, newWay, form)
             V == ValueSeq(list, ch)
             end == EndOfIndices(newWay)
             FI(i) == FlatTo(I, i)
             FV(j) == FlatTo(V, j)
             hb == h \o b
             TI(i) == hb \o FI(i)
             front == TI(n) \o end
             TV(j) == front \o FV(j)
             bits == h \o EncodeChanges(list, ch, newWay, form)
  <1>1. n \in Nat /\ (\A i \in 1..n : I[i] \in BitStrings) /\ (\A i \in 1..n : V[i] \in BitStrings)
        /\ DOMAIN I = 1..n /\ DOMAIN V = 1..n
    <2>1. DOMAIN I = DOMAIN ch /\ DOMAIN V = DOMAIN ch
      BY Zenon DEF IndexSeq, ValueSeq
    <2> QED BY <2>1, ChangesShape
  <1>2. b \in BitStrings /\ end \in BitStrings
    <2>1. b = <<1>> \/ b = <<0>>
      BY DEF Bit
    <2> QED BY <2>1, SingleBit, EndBits
  <1>3. EncodeChanges(list, ch, newWay, form) = ((b \o FlattenSeq(I)) \o end) \o FlattenSeq(V)
    BY Zenon DEF EncodeChanges, IndexSeq, ValueSeq, IndexBefore
  <1>4. FlattenSeq(I) = FI(n) /\ FlattenSeq(V) = FV(n)
    <2>1. I = [i \in 1..n |-> I[i]] /\ V = [i \in 1..n |-> V[i]]
      BY <1>1, Zenon DEF IndexSeq, ValueSeq
    <2> QED BY <2>1, Zenon DEF FlatTo
  <1>5. /\ \A i \in 0..n - 1 : FI(i + 1) = FI(i) \o I[i + 1] /\ FV(i + 1) = FV(i) \o V[i + 1]
        /\ \A i \in 0..n : FI(i) \in BitStrings /\ FV(i) \in BitStrings
        /\ \A i \in 0..n : Starts(FI(i), FI(n)) /\ Starts(FV(i), FV(n))
    <2> HIDE DEF n, I, V
    <2> QED BY <1>1, FlatToStep, StartsFlat
  <1>6. FI(0) = <<>> /\ FV(0) = <<>>
    <2> HIDE DEF n, I, V
    <2> QED BY <1>1, FlatToStep
  <1>7. /\ \A i \in 0..n : ToIndex(h, ch, newWay, form, i) = TI(i)
        /\ \A j \in 0..n : ToValue(h, list, ch, newWay, form, j) = TV(j)
    BY Zenon DEF ToIndex, ToValue
  <1> HIDE DEF n, b, I, V, end, FI, FV
  <1>8. hb \in BitStrings
    BY <1>2, Joined
  <1>9. \A i \in 0..n : TI(i) \in BitStrings
    BY <1>5, <1>8, Joined
  <1>10. n \in 0..n /\ 0 \in 0..n
    BY <1>1
  <1>11. front \in BitStrings /\ TI(n) \in BitStrings
    BY <1>2, <1>9, <1>10, Joined
  <1>12. \A j \in 0..n : TV(j) \in BitStrings
    <2> HIDE DEF front
    <2> QED BY <1>5, <1>11, Joined
  <1>13. bits = TV(n)
    <2> DEFINE x == FI(n)
               y == FV(n)
    <2>1. x \in BitStrings /\ y \in BitStrings
      BY <1>5, <1>10
    <2>2. bits = h \o (((b \o x) \o end) \o y)
      BY <1>3, <1>4
    <2>3. TV(n) = (((h \o b) \o x) \o end) \o y
      OBVIOUS
    <2> HIDE DEF x, y, bits, TV
    <2>4. b \o x \in BitStrings /\ (b \o x) \o end \in BitStrings
      BY <1>2, <2>1, Joined
    <2>5. h \o (((b \o x) \o end) \o y) = (h \o ((b \o x) \o end)) \o y
      BY <2>1, <2>4, JoinAssoc, SMTT(30)
    <2>6. h \o ((b \o x) \o end) = (h \o (b \o x)) \o end
      BY <1>2, <2>4, JoinAssoc
    <2>7. h \o (b \o x) = (h \o b) \o x
      BY <1>2, <2>1, JoinAssoc
    <2> QED BY <2>2, <2>3, <2>5, <2>6, <2>7
  <1>14. ASSUME NEW j \in 0..n PROVE Starts(TV(j), TV(n))
    <2>1. Starts(FV(j), FV(n)) /\ FV(j) \in BitStrings /\ FV(n) \in BitStrings
      BY <1>5, <1>10
    <2> HIDE DEF front
    <2> QED BY <2>1, <1>11, StartsBehind
  <1>15. ASSUME NEW i \in 0..n PROVE Starts(TI(i), TV(n))
    <2>1. Starts(TI(i), TI(n))
      <3>1. Starts(FI(i), FI(n)) /\ FI(i) \in BitStrings /\ FI(n) \in BitStrings
        BY <1>5, <1>10
      <3> HIDE DEF hb
      <3> QED BY <3>1, <1>8, StartsBehind
    <2>2. TI(i) \in BitStrings
      BY <1>9
    <2> HIDE DEF TI
    <2>3. Starts(TI(i), front)
      BY <2>1, <2>2, <1>2, <1>11, StartsOn
    <2>4. FV(n) \in BitStrings
      BY <1>5, <1>10
    <2> HIDE DEF front
    <2> QED BY <2>2, <2>3, <2>4, <1>11, StartsOn
  <1>16. TI(0) = hb /\ TV(0) = front
    <2> HIDE DEF hb, front
    <2> QED BY <1>6, <1>8, <1>11, JoinEmpty
  <1>17. ASSUME NEW i \in 0..n - 1 PROVE TI(i + 1) = TI(i) \o I[i + 1] /\ TV(i + 1) = TV(i) \o V[i + 1]
    <2>1. i \in 0..n /\ i + 1 \in 1..n
      BY <1>1
    <2>2. FI(i) \in BitStrings /\ FV(i) \in BitStrings /\ I[i + 1] \in BitStrings /\ V[i + 1] \in BitStrings
      BY <2>1, <1>1, <1>5
    <2>3. FI(i + 1) = FI(i) \o I[i + 1] /\ FV(i + 1) = FV(i) \o V[i + 1]
      BY <1>5
    <2> HIDE DEF hb, front
    <2>4. hb \o (FI(i) \o I[i + 1]) = (hb \o FI(i)) \o I[i + 1]
      BY <2>2, <1>8, JoinAssoc, ZenonT(60)
    <2>5. front \o (FV(i) \o V[i + 1]) = (front \o FV(i)) \o V[i + 1]
      <3> DEFINE x == FV(i)
                 y == V[i + 1]
      <3>1. x \in BitStrings /\ y \in BitStrings /\ front \in BitStrings
        BY <2>2, <1>11
      <3> HIDE DEF x, y
      <3>2. front \o (x \o y) = (front \o x) \o y
        BY <3>1, JoinAssoc
      <3> QED BY <3>2 DEF x, y
    <2> QED BY <2>3, <2>4, <2>5
  <1>18. TV(n) \in BitStrings
    BY <1>10, <1>12
  <1>19. \A i \in 0..n - 1 : i \in 0..n /\ i + 1 \in 0..n
    BY <1>1
  <1> HIDE DEF TI, TV, front, bits
  <1>20. bits \in BitStrings /\ b \in BitStrings /\ TI(0) = hb /\ TV(n) = bits
         /\ TV(0) = TI(n) \o end
         /\ (\A i \in 0..n : TI(i) \in BitStrings /\ Starts(TI(i), bits))
         /\ (\A i \in 0..n : TV(i) \in BitStrings /\ Starts(TV(i), bits))
         /\ (\A i \in 0..n - 1 : TI(i + 1) = TI(i) \o I[i + 1])
         /\ (\A i \in 0..n - 1 : TV(i + 1) = TV(i) \o V[i + 1])
    BY <1>2, <1>9, <1>12, <1>13, <1>14, <1>15, <1>16, <1>17, <1>18 DEF front
  <1> HIDE DEF hb
  <1>21. /\ \A i \in 0..n : ToIndex(h, ch, newWay, form, i) \in BitStrings /\ Starts(ToIndex(h, ch, newWay, form, i), bits)
         /\ \A i \in 0..n : ToValue(h, list, ch, newWay, form, i) \in BitStrings
                            /\ Starts(ToValue(h, list, ch, newWay, form, i), bits)
    BY <1>7, <1>20
  <1>22. /\ \A i \in 0..n - 1 : ToIndex(h, ch, newWay, form, i + 1) = ToIndex(h, ch, newWay, form, i) \o I[i + 1]
         /\ \A i \in 0..n - 1 : ToValue(h, list, ch, newWay, form, i + 1) = ToValue(h, list, ch, newWay, form, i) \o V[i + 1]
    BY <1>7, <1>19, <1>20
  <1>23. /\ ToIndex(h, ch, newWay, form, 0) = hb /\ ToValue(h, list, ch, newWay, form, n) = bits
         /\ ToValue(h, list, ch, newWay, form, 0) = ToIndex(h, ch, newWay, form, n) \o end
    BY <1>7, <1>10, <1>20
  <1> QED BY <1>20, <1>21, <1>22, <1>23, Zenon DEF ChangesLieIn, n, b, I, V, end, hb, bits

\* The bits of a message, entry by entry, and all of them.
ListOf(cl, m, k) == ClassLists(cl)[m.entries[k].class]
BitsOf(cl, m) ==
  [k \in DOMAIN m.entries |-> EncodeEntry(ClassLists(cl), ClassIdBits(Len(cl)), m, k)]
AllBits(cl, m) == FlattenSeq(BitsOf(cl, m))

LEMMA EncodeIs ==
  ASSUME NEW cl, NEW m
  PROVE  Encode(ClassLists(cl), ClassIdBits(Len(cl)), m) = Padded(AllBits(cl, m), m.cut)
  BY Zenon DEF Encode, Padded, ByteCount, AllBits, BitsOf

LEMMA EntryTrail ==
  ASSUME NEW cl, NEW m, Setting(cl, m), NEW k \in 1..Len(m.entries)
  PROVE  LET e == m.entries[k]
             h == HeadBits(cl, m, k)
             bits == BitsOf(cl, m)[k]
         IN /\ h \in BitStrings /\ bits \in BitStrings /\ Starts(h, bits)
            /\ HasChanges(e) => bits = h \o EncodeChanges(ListOf(cl, m, k), e.changes, m.newWay, m.form)
                                /\ SoundChanges(ListOf(cl, m, k), e.changes, m.newWay, m.form)
            /\ ~HasChanges(e) => bits = h
  <1> DEFINE e == m.entries[k]
             h == HeadBits(cl, m, k)
             bits == BitsOf(cl, m)[k]
             list == ListOf(cl, m, k)
             tail == IF HasChanges(e) THEN EncodeChanges(list, e.changes, m.newWay, m.form) ELSE <<>>
  <1>0. SoundMessage(ClassLists(cl), m) /\ DOMAIN m.entries = 1..Len(m.entries) /\ m.newWay \in BOOLEAN
    BY SettingHolds, MessageShape
  <1>1. bits = h \o tail
    <2>1. bits = EncodeEntry(ClassLists(cl), ClassIdBits(Len(cl)), m, k)
      BY <1>0, Zenon DEF BitsOf
    <2>2. EncodeEntry(ClassLists(cl), ClassIdBits(Len(cl)), m, k) = h \o tail
      BY Zenon DEF EncodeEntry, HeadBits, GapBefore, ListOf
    <2> QED BY <2>1, <2>2
  <1>2. h \in BitStrings
    BY HeadParts
  <1>3. HasChanges(e) => SoundChanges(list, e.changes, m.newWay, m.form)
    BY EntryMeans DEF HasChanges, ListOf
  <1> HIDE DEF h, bits, e, list
  <1>4. CASE HasChanges(e)
    <2>1. bits = h \o EncodeChanges(list, e.changes, m.newWay, m.form)
      BY <1>1, <1>4
    <2>2. SoundChanges(list, e.changes, m.newWay, m.form)
      BY <1>3, <1>4
    <2>3. /\ h \o EncodeChanges(list, e.changes, m.newWay, m.form) \in BitStrings
          /\ ToIndex(h, e.changes, m.newWay, m.form, 0) = h \o Bit(m.newWay)
          /\ Bit(m.newWay) \in BitStrings
          /\ \A i \in 0..Len(e.changes) :
               Starts(ToIndex(h, e.changes, m.newWay, m.form, i), h \o EncodeChanges(list, e.changes, m.newWay, m.form))
      <3>1. ChangesLieIn(list, e.changes, m.newWay, m.form, h)
        BY <1>0, <1>2, <2>2, ChangesTrail
      <3> QED BY <3>1, Zenon DEF ChangesLieIn
    <2>4. 0 \in 0..Len(e.changes)
      BY <1>0, <2>2, ChangesShape
    <2>5. Starts(h \o Bit(m.newWay), bits) /\ h \o Bit(m.newWay) \in BitStrings
      BY <1>2, <2>1, <2>3, <2>4, Joined
    <2>6. Starts(h, h \o Bit(m.newWay))
      BY <1>2, <2>3, StartsAtOnce, StartsOn
    <2>7. bits \in BitStrings
      BY <2>1, <2>3
    <2>8. Starts(h, bits)
      BY <1>2, <2>5, <2>6, <2>7, StartsThen
    <2> QED BY <1>2, <1>4, <2>1, <2>2, <2>7, <2>8 DEF h, bits, e, list
  <1>5. CASE ~HasChanges(e)
    <2>1. bits = h
      BY <1>1, <1>2, <1>5, JoinEmpty
    <2> QED BY <1>2, <1>5, <2>1, StartsAtOnce DEF h, bits, e, list
  <1> QED BY <1>4, <1>5

\* The bits up to the k-th entry, and the next of its own bits.
UpTo(cl, m, k) == FlatTo(BitsOf(cl, m), k)

LEMMA MessageTrail ==
  ASSUME NEW cl, NEW m, Setting(cl, m)
  PROVE  /\ AllBits(cl, m) \in BitStrings
         /\ UpTo(cl, m, 0) = <<>> /\ UpTo(cl, m, Len(m.entries)) = AllBits(cl, m)
         /\ \A k \in 0..Len(m.entries) : UpTo(cl, m, k) \in BitStrings
         /\ \A k \in 1..Len(m.entries) : /\ UpTo(cl, m, k) = UpTo(cl, m, k - 1) \o BitsOf(cl, m)[k]
                                         /\ Starts(UpTo(cl, m, k), AllBits(cl, m))
  <1> DEFINE n == Len(m.entries)
             s == BitsOf(cl, m)
  <1>0. n \in Nat /\ DOMAIN m.entries = 1..n
    BY SettingHolds, MessageShape
  <1>1. \A k \in 1..n : s[k] \in BitStrings
    BY EntryTrail
  <1>2. FlatTo(s, n) = FlattenSeq(s)
    <2>1. s = [k \in 1..n |-> s[k]]
      BY <1>0, Zenon DEF BitsOf
    <2> QED BY <2>1, Zenon DEF FlatTo
  <1> HIDE DEF n, s
  <1>3. /\ FlatTo(s, 0) = <<>> /\ \A k \in 0..n : FlatTo(s, k) \in BitStrings
        /\ \A k \in 0..n - 1 : FlatTo(s, k + 1) = FlatTo(s, k) \o s[k + 1]
    BY <1>0, <1>1, FlatToStep
  <1>4. \A k \in 0..n : Starts(FlatTo(s, k), FlatTo(s, n))
    BY <1>0, <1>1, StartsFlat
  <1>5. \A k \in 1..n : k \in 0..n /\ k - 1 \in 0..n - 1 /\ (k - 1) + 1 = k
    BY <1>0
  <1>6. \A k \in 1..n : FlatTo(s, k) = FlatTo(s, k - 1) \o s[k]
    <2> TAKE k \in 1..n
    <2>1. k - 1 \in 0..n - 1 /\ (k - 1) + 1 = k
      BY <1>5
    <2>2. FlatTo(s, (k - 1) + 1) = FlatTo(s, k - 1) \o s[(k - 1) + 1]
      BY <1>3, <2>1
    <2> QED BY <2>1, <2>2
  <1>7. n \in 0..n
    BY <1>0
  <1> QED BY <1>2, <1>3, <1>4, <1>5, <1>6, <1>7 DEF n, s, UpTo, AllBits

LEMMA WithinEntry ==
  ASSUME NEW cl, NEW m, Setting(cl, m), NEW k \in 1..Len(m.entries), NEW x \in BitStrings,
         Starts(x, BitsOf(cl, m)[k])
  PROVE  UpTo(cl, m, k - 1) \o x \in BitStrings /\ Starts(UpTo(cl, m, k - 1) \o x, AllBits(cl, m))
  <1> DEFINE f == UpTo(cl, m, k - 1)
             b == BitsOf(cl, m)[k]
             w == AllBits(cl, m)
  <1>1. k - 1 \in 0..Len(m.entries)
    BY SettingHolds, MessageShape
  <1>2. f \in BitStrings /\ Starts(f \o b, w) /\ b \in BitStrings /\ w \in BitStrings
    <2>1. f \in BitStrings /\ w \in BitStrings
      BY <1>1, MessageTrail
    <2>2. Starts(f \o b, w)
      BY MessageTrail
    <2>3. b \in BitStrings
      BY EntryTrail
    <2> QED BY <2>1, <2>2, <2>3
  <1> HIDE DEF f, b, w
  <1>3. Starts(f \o x, f \o b)
    BY <1>2, StartsBehind DEF b
  <1>4. f \o x \in BitStrings /\ f \o b \in BitStrings
    BY <1>2, Joined
  <1>5. Starts(f \o x, w)
    BY <1>2, <1>3, <1>4, StartsThen
  <1> QED BY <1>4, <1>5 DEF f, w

LEMMA WithinNext ==
  ASSUME NEW cl, NEW m, Setting(cl, m), NEW k \in 1..Len(m.entries), NEW x \in BitStrings, NEW y \in BitStrings,
         Starts(x \o y, BitsOf(cl, m)[k])
  PROVE  /\ (UpTo(cl, m, k - 1) \o x) \o y = UpTo(cl, m, k - 1) \o (x \o y)
         /\ Starts((UpTo(cl, m, k - 1) \o x) \o y, AllBits(cl, m))
  <1> DEFINE f == UpTo(cl, m, k - 1)
  <1>1. k - 1 \in 0..Len(m.entries)
    BY SettingHolds, MessageShape
  <1>2. f \in BitStrings
    BY <1>1, MessageTrail
  <1>3. (f \o x) \o y = f \o (x \o y)
    <2> HIDE DEF f
    <2> QED BY <1>2, JoinAssoc
  <1>4. x \o y \in BitStrings
    BY Joined
  <1>5. Starts(f \o (x \o y), AllBits(cl, m))
    BY <1>4, WithinEntry
  <1> QED BY <1>3, <1>5

-----------------------------------------------------------------------------
(* The entries as they were meant, and as far as they have been decoded. *)

Ents(cl, m) == [k \in DOMAIN m.entries |-> Meant(ClassLists(cl), m.entries[k])]

\* An entry with its first j changes.
Partial(e, j) ==
  [op |-> e.op, id |-> e.id, class |-> e.class, serial |-> e.serial, changes |-> SubSeq(e.changes, 1, j)]

\* What is decoded while the c-th entry is read.
Sofar(ents, c, j) == Append(SubSeq(ents, 1, c - 1), Partial(ents[c], j))

RightEntries(ents, dec) ==
  /\ Len(dec) <= Len(ents)
  /\ \A k \in DOMAIN dec :
       /\ SameHead(dec[k], ents[k])
       /\ IsPrefix(dec[k].changes, ents[k].changes)
       /\ k < Len(dec) => dec[k].changes = ents[k].changes

\* A sequence of entries, each with a sequence of changes.
AreEntries(ents) ==
  /\ ents \in Seq(Range(ents)) /\ Len(ents) \in Nat /\ DOMAIN ents = 1..Len(ents)
  /\ \A k \in 1..Len(ents) :
       /\ ents[k] = [op |-> ents[k].op, id |-> ents[k].id, class |-> ents[k].class, serial |-> ents[k].serial,
                     changes |-> ents[k].changes]
       /\ ents[k].changes \in Seq(Range(ents[k].changes))
       /\ Len(ents[k].changes) \in Nat

LEMMA ListedSeq ==
  ASSUME NEW n \in Nat, NEW f, f = [i \in 1..n |-> f[i]]
  PROVE  f \in Seq(Range(f)) /\ Len(f) = n /\ DOMAIN f = 1..n
  <1>1. DOMAIN f = 1..n
    BY Zenon
  <1>2. \A i \in 1..n : f[i] \in Range(f)
    BY <1>1, Zenon DEF Range
  <1> DEFINE S == Range(f)
  <1> HIDE DEF S
  <1>3. \A i \in 1..n : f[i] \in S
    BY <1>2 DEF S
  <1>4. f \in Seq(S) /\ Len(f) = n
    BY <1>3, IsASeq
  <1> QED BY <1>1, <1>4 DEF S

\* The entry x means the entry e of a message, whose class has the props `list'.
Means(list, e, x) ==
  /\ x = [op |-> e.op, id |-> e.id, class |-> e.class, serial |-> e.serial, changes |-> x.changes]
  /\ x.changes \in Seq(Range(x.changes)) /\ Len(x.changes) = Len(e.changes) /\ Len(x.changes) \in Nat
  /\ \A i \in 1..Len(e.changes) : x.changes[i] = <<list[e.changes[i][1]], e.changes[i][2]>>

LEMMA MeansFields ==
  ASSUME NEW list, NEW e, NEW x, Means(list, e, x)
  PROVE  /\ x.op = e.op /\ x.id = e.id /\ x.class = e.class /\ x.serial = e.serial
         /\ x = [op |-> x.op, id |-> x.id, class |-> x.class, serial |-> x.serial, changes |-> x.changes]
         /\ x.changes \in Seq(Range(x.changes)) /\ Len(x.changes) \in Nat
  <1> DEFINE y == [op |-> e.op, id |-> e.id, class |-> e.class, serial |-> e.serial, changes |-> x.changes]
  <1>1. x = y
    BY Zenon DEF Means
  <1>2. y.op = e.op /\ y.id = e.id /\ y.class = e.class /\ y.serial = e.serial
    OBVIOUS
  <1> HIDE DEF y
  <1>3. x.op = e.op /\ x.id = e.id /\ x.class = e.class /\ x.serial = e.serial
    BY <1>1, <1>2
  <1>4. x = [op |-> x.op, id |-> x.id, class |-> x.class, serial |-> x.serial, changes |-> x.changes]
    BY <1>1, <1>3, Zenon DEF y
  <1> QED BY <1>3, <1>4, Zenon DEF Means

LEMMA EntsShape ==
  ASSUME NEW cl, NEW m, Setting(cl, m)
  PROVE  /\ AreEntries(Ents(cl, m)) /\ Len(Ents(cl, m)) = Len(m.entries)
         /\ \A k \in 1..Len(m.entries) : Means(ListOf(cl, m, k), m.entries[k], Ents(cl, m)[k])
  <1> DEFINE n == Len(m.entries)
             ents == Ents(cl, m)
             L == ClassLists(cl)
  <1>0. SoundMessage(L, m) /\ n \in Nat /\ DOMAIN m.entries = 1..n /\ m.newWay \in BOOLEAN
    BY SettingHolds, MessageShape
  <1>1. ents \in Seq(Range(ents)) /\ Len(ents) = n /\ DOMAIN ents = 1..n
    <2>1. ents = [k \in 1..n |-> ents[k]]
      BY <1>0, Zenon DEF Ents
    <2> HIDE DEF ents, n
    <2> QED BY <1>0, <2>1, ListedSeq
  <1>2. ASSUME NEW k \in 1..n
        PROVE  Means(ListOf(cl, m, k), m.entries[k], ents[k])
    <2> DEFINE e == m.entries[k]
               x == ents[k]
               list == L[e.class]
               named == Named(list, e.changes)
    <2>1. x = [op |-> e.op, id |-> e.id, class |-> e.class, serial |-> e.serial, changes |-> named]
      BY <1>0, Zenon DEF Ents, Meant
    <2>2. Len(e.changes) \in Nat /\ DOMAIN e.changes = 1..Len(e.changes)
      <3>1. CASE e.op \in {"enter", "update"}
        <4>1. SoundChanges(list, e.changes, m.newWay, m.form)
          BY <3>1, EntryMeans
        <4> HIDE DEF e, list
        <4> QED BY <4>1, <1>0, ChangesShape
      <3>2. CASE e.op \in {"delete", "leave"}
        <4>1. e.changes = <<>>
          BY <3>2, EntryMeans
        <4>2. Len(<<>>) = 0 /\ DOMAIN <<>> = 1..0
          BY EmptySeq, LenProperties
        <4> QED BY <4>1, <4>2
      <3>3. e.op \in {"delete", "leave", "enter", "update"}
        BY EntryMeans
      <3> QED BY <3>1, <3>2, <3>3
    <2> HIDE DEF e
    <2>3. named = [i \in 1..Len(e.changes) |-> <<list[e.changes[i][1]], e.changes[i][2]>>]
      BY <2>2, Zenon DEF Named
    <2> HIDE DEF named, list
    <2>4. named = [i \in 1..Len(e.changes) |-> named[i]]
      BY <2>3
    <2>5. named \in Seq(Range(named)) /\ Len(named) = Len(e.changes)
      BY <2>2, <2>4, ListedSeq
    <2>6. \A i \in 1..Len(e.changes) : named[i] = <<list[e.changes[i][1]], e.changes[i][2]>>
      BY <2>3
    <2> HIDE DEF x
    <2>7. x.changes = named
      BY <2>1
    <2>8. x = [op |-> e.op, id |-> e.id, class |-> e.class, serial |-> e.serial, changes |-> x.changes]
      BY <2>1, <2>7
    <2>9. Means(list, e, x)
      BY <2>2, <2>5, <2>6, <2>7, <2>8, Zenon DEF Means
    <2> QED BY <2>9, Zenon DEF x, e, list, ListOf
  <1>3. AreEntries(ents)
    <2>1. ASSUME NEW k \in 1..n
          PROVE  /\ ents[k] = [op |-> ents[k].op, id |-> ents[k].id, class |-> ents[k].class,
                               serial |-> ents[k].serial, changes |-> ents[k].changes]
                 /\ ents[k].changes \in Seq(Range(ents[k].changes))
                 /\ Len(ents[k].changes) \in Nat
      <3> HIDE DEF ents, n
      <3> QED BY <1>2, MeansFields
    <2> HIDE DEF ents, n
    <2> QED BY <1>0, <1>1, <2>1 DEF AreEntries
  <1> QED BY <1>1, <1>2, <1>3

LEMMA PartialShape ==
  ASSUME NEW ents, AreEntries(ents), NEW c \in 1..Len(ents), NEW j \in 0..Len(ents[c].changes)
  PROVE  /\ SameHead(Partial(ents[c], j), ents[c])
         /\ IsPrefix(Partial(ents[c], j).changes, ents[c].changes)
         /\ Partial(ents[c], Len(ents[c].changes)) = ents[c]
         /\ Partial(ents[c], 0) = Bare(ents[c])
  <1> DEFINE e == ents[c]
             s == e.changes
             S == Range(s)
             p == Partial(e, j)
  <1>1. s \in Seq(S) /\ Len(s) \in Nat
    BY DEF AreEntries
  <1>2. e = [op |-> e.op, id |-> e.id, class |-> e.class, serial |-> e.serial, changes |-> s]
    BY DEF AreEntries
  <1>3. p = [op |-> e.op, id |-> e.id, class |-> e.class, serial |-> e.serial, changes |-> SubSeq(s, 1, j)]
    BY Zenon DEF Partial
  <1> HIDE DEF e, p
  <1>4. p.changes = SubSeq(s, 1, j) /\ p.op = e.op /\ p.id = e.id /\ p.class = e.class /\ p.serial = e.serial
    BY <1>3
  <1>5. SameHead(p, e)
    BY <1>4 DEF SameHead
  <1>6. IsPrefix(SubSeq(s, 1, j), s)
    <2> HIDE DEF s, S
    <2>1. j \in Nat /\ j <= Len(s)
      BY <1>1 DEF s, e
    <2> DEFINE t == SubSeq(s, 1, j)
    <2>2. t \in Seq(S) /\ Len(t) = j
      BY <1>1, <2>1
    <2> HIDE DEF t
    <2>3. SubSeq(t, 1, Len(t)) = t
      BY <2>2, SubSeqFull
    <2>4. IsPrefix(t, s)
      BY <2>1, <2>2, <2>3, SMT DEF IsPrefix, t
    <2> QED BY <2>4 DEF t
  <1>7. Partial(e, Len(s)) = e
    <2>1. SubSeq(s, 1, Len(s)) = s
      <3> HIDE DEF s, S
      <3> QED BY <1>1, SubSeqFull
    <2>2. Partial(e, Len(s)) = [op |-> e.op, id |-> e.id, class |-> e.class, serial |-> e.serial, changes |-> SubSeq(s, 1, Len(s))]
      BY Zenon DEF Partial
    <2> HIDE DEF s
    <2> QED BY <1>2, <2>1, <2>2
  <1>8. Partial(e, 0) = Bare(e)
    <2>1. SubSeq(s, 1, 0) = <<>>
      <3> HIDE DEF s
      <3> QED BY SubSeqEmpty
    <2> QED BY <2>1, Zenon DEF Partial, Bare
  <1> QED BY <1>4, <1>5, <1>6, <1>7, <1>8 DEF e, p

LEMMA SofarShape ==
  ASSUME NEW ents, AreEntries(ents), NEW c \in 1..Len(ents), NEW p, NEW dec, dec = Append(SubSeq(ents, 1, c - 1), p)
  PROVE  /\ Len(dec) = c /\ DOMAIN dec = 1..c /\ dec[c] = p
         /\ \A k \in 1..c - 1 : dec[k] = ents[k]
         /\ dec = [k \in 1..c |-> dec[k]]
         /\ p = ents[c] => dec = SubSeq(ents, 1, c)
  <1> DEFINE S == Range(ents)
             T == S \cup {p}
             a == SubSeq(ents, 1, c - 1)
  <1>0. dec = Append(a, p)
    OBVIOUS
  <1>1. ents \in Seq(S) /\ Len(ents) \in Nat
    BY DEF AreEntries
  <1> HIDE DEF S
  <1>2. a \in Seq(S) /\ Len(a) = c - 1 /\ \A k \in 1..c - 1 : a[k] = ents[k]
    BY <1>1
  <1> HIDE DEF a
  <1>3. a \in Seq(T)
    BY <1>2, SeqMonotonic
  <1>4. p \in T
    OBVIOUS
  <1> HIDE DEF T
  <1>5. /\ dec \in Seq(T) /\ Len(dec) = Len(a) + 1
        /\ (\A i \in 1..Len(a) : dec[i] = a[i]) /\ dec[Len(a) + 1] = p
    <2>1. /\ Append(a, p) \in Seq(T) /\ Len(Append(a, p)) = Len(a) + 1
          /\ (\A i \in 1..Len(a) : Append(a, p)[i] = a[i]) /\ Append(a, p)[Len(a) + 1] = p
      BY <1>3, <1>4, AppendProperties
    <2> QED BY <1>0, <2>1, Zenon
  <1>6. Len(dec) = c /\ dec[c] = p /\ \A k \in 1..c - 1 : dec[k] = ents[k]
    BY <1>1, <1>2, <1>5
  <1>7. DOMAIN dec = 1..c
    BY <1>5, <1>6, LenProperties
  <1>8. p = ents[c] => dec = SubSeq(ents, 1, c)
    <2>1. c - 1 \in 0..Len(ents) - 1 /\ (c - 1) + 1 = c
      BY <1>1
    <2>2. Append(SubSeq(ents, 1, c - 1), ents[(c - 1) + 1]) = SubSeq(ents, 1, (c - 1) + 1)
      BY <1>1, <2>1, OneMore
    <2> QED BY <1>0, <2>1, <2>2 DEF a
  <1>9. dec = [k \in 1..c |-> dec[k]]
    BY <1>5, <1>7
  <1> QED BY <1>6, <1>7, <1>8, <1>9

LEMMA SofarRight ==
  ASSUME NEW ents, AreEntries(ents), NEW c \in 1..Len(ents), NEW j \in 0..Len(ents[c].changes)
  PROVE  /\ RightEntries(ents, Sofar(ents, c, j)) /\ Len(Sofar(ents, c, j)) = c
         /\ Sofar(ents, c, j)[c] = Partial(ents[c], j)
         /\ Sofar(ents, c, Len(ents[c].changes)) = SubSeq(ents, 1, c)
  <1> DEFINE p == Partial(ents[c], j)
             dec == Sofar(ents, c, j)
  <1>1. dec = Append(SubSeq(ents, 1, c - 1), p)
    BY Zenon DEF Sofar
  <1>2. SameHead(p, ents[c]) /\ IsPrefix(p.changes, ents[c].changes)
        /\ Partial(ents[c], Len(ents[c].changes)) = ents[c]
    BY PartialShape
  <1> HIDE DEF p
  <1>3. /\ Len(dec) = c /\ DOMAIN dec = 1..c /\ dec[c] = p
        /\ \A k \in 1..c - 1 : dec[k] = ents[k]
    BY <1>1, SofarShape
  <1> HIDE DEF dec
  <1>4. Len(ents) \in Nat
    BY DEF AreEntries
  <1>5. ASSUME NEW k \in 1..c
        PROVE  /\ SameHead(dec[k], ents[k])
               /\ IsPrefix(dec[k].changes, ents[k].changes)
               /\ k < Len(dec) => dec[k].changes = ents[k].changes
    <2>1. CASE k = c
      BY <1>2, <1>3, <2>1
    <2>2. CASE k # c
      <3>1. k \in 1..c - 1 /\ k \in 1..Len(ents)
        BY <2>2, <1>4
      <3>2. dec[k] = ents[k]
        BY <3>1, <1>3
      <3>3. SameHead(ents[k], ents[k])
        BY DEF SameHead
      <3>4. IsPrefix(ents[k].changes, ents[k].changes)
        <4>1. Len(ents[k].changes) \in Nat
          BY <3>1 DEF AreEntries
        <4>2. Len(ents[k].changes) <= Len(ents[k].changes)
          BY <4>1
        <4> QED BY <4>2, Zenon DEF IsPrefix
      <3> QED BY <3>2, <3>3, <3>4
    <2> QED BY <2>1, <2>2
  <1>6. RightEntries(ents, dec)
    BY <1>3, <1>4, <1>5 DEF RightEntries
  <1>7. Sofar(ents, c, Len(ents[c].changes)) = SubSeq(ents, 1, c)
    <2> DEFINE x == Sofar(ents, c, Len(ents[c].changes))
    <2>1. x = Append(SubSeq(ents, 1, c - 1), ents[c])
      BY <1>2, Zenon DEF Sofar
    <2> HIDE DEF x
    <2>2. x = SubSeq(ents, 1, c)
      BY <2>1, SofarShape
    <2> QED BY <2>2 DEF x
  <1> QED BY <1>3, <1>6, <1>7 DEF dec, p

LEMMA WholeRight ==
  ASSUME NEW ents, AreEntries(ents), NEW c \in 0..Len(ents)
  PROVE  /\ RightEntries(ents, SubSeq(ents, 1, c)) /\ Len(SubSeq(ents, 1, c)) = c
         /\ SubSeq(ents, 1, 0) = <<>> /\ SubSeq(ents, 1, Len(ents)) = ents
  <1>1. ents \in Seq(Range(ents)) /\ Len(ents) \in Nat
    BY DEF AreEntries
  <1>2. SubSeq(ents, 1, 0) = <<>> /\ SubSeq(ents, 1, Len(ents)) = ents
    BY <1>1, SubSeqEmpty, SubSeqFull
  <1>3. CASE c = 0
    <2>1. Len(<<>>) = 0 /\ DOMAIN <<>> = {}
      BY EmptySeq
    <2> QED BY <1>1, <1>2, <1>3, <2>1 DEF RightEntries
  <1>4. CASE c # 0
    <2>1. c \in 1..Len(ents)
      BY <1>1, <1>4
    <2> DEFINE j == Len(ents[c].changes)
    <2>2. j \in Nat
      BY <2>1 DEF AreEntries
    <2>3. j \in 0..j
      BY <2>2
    <2>4. RightEntries(ents, Sofar(ents, c, j)) /\ Len(Sofar(ents, c, j)) = c /\ Sofar(ents, c, j) = SubSeq(ents, 1, c)
      BY <2>1, <2>3, SofarRight
    <2> QED BY <2>4, <1>2
  <1> QED BY <1>3, <1>4

\* Another entry, and another change of the last one.
LEMMA SofarBegins ==
  ASSUME NEW ents, AreEntries(ents), NEW c \in 0..Len(ents) - 1
  PROVE  Append(SubSeq(ents, 1, c), Bare(ents[c + 1])) = Sofar(ents, c + 1, 0)
  <1>1. Len(ents) \in Nat
    BY DEF AreEntries
  <1>2. c + 1 \in 1..Len(ents) /\ (c + 1) - 1 = c
    BY <1>1
  <1>3. Len(ents[c + 1].changes) \in Nat
    BY <1>2 DEF AreEntries
  <1>4. 0 \in 0..Len(ents[c + 1].changes)
    BY <1>3
  <1>5. Partial(ents[c + 1], 0) = Bare(ents[c + 1])
    BY <1>2, <1>4, PartialShape
  <1> QED BY <1>2, <1>5, Zenon DEF Sofar

LEMMA SofarGoesOn ==
  ASSUME NEW ents, AreEntries(ents), NEW c \in 1..Len(ents), NEW j \in 0..Len(ents[c].changes) - 1
  PROVE  LET dec == Sofar(ents, c, j)
         IN [dec EXCEPT ![Len(dec)].changes = Append(@, ents[c].changes[j + 1])] = Sofar(ents, c, j + 1)
  <1> DEFINE e == ents[c]
             s == e.changes
             p == Partial(e, j)
             q == Partial(e, j + 1)
             dec == Sofar(ents, c, j)
             next == Sofar(ents, c, j + 1)
             x == s[j + 1]
  <1>1. Len(ents) \in Nat /\ s \in Seq(Range(s)) /\ Len(s) \in Nat
    BY DEF AreEntries
  <1>2. Append(SubSeq(s, 1, j), x) = SubSeq(s, 1, j + 1)
    BY <1>1, OneMore
  <1>3. /\ p = [op |-> e.op, id |-> e.id, class |-> e.class, serial |-> e.serial, changes |-> SubSeq(s, 1, j)]
        /\ q = [op |-> e.op, id |-> e.id, class |-> e.class, serial |-> e.serial, changes |-> SubSeq(s, 1, j + 1)]
    BY Zenon DEF Partial
  <1>4. dec = Append(SubSeq(ents, 1, c - 1), p) /\ next = Append(SubSeq(ents, 1, c - 1), q)
    BY Zenon DEF Sofar
  <1> HIDE DEF x, s, e, p, q
  <1>5. /\ Len(dec) = c /\ DOMAIN dec = 1..c /\ dec[c] = p
        /\ (\A k \in 1..c - 1 : dec[k] = ents[k]) /\ dec = [k \in 1..c |-> dec[k]]
    <2> HIDE DEF dec
    <2>1. dec = Append(SubSeq(ents, 1, c - 1), p)
      BY <1>4
    <2>2. Len(dec) = c /\ DOMAIN dec = 1..c /\ dec[c] = p /\ \A k \in 1..c - 1 : dec[k] = ents[k]
      BY <2>1, SofarShape
    <2>3. dec = [k \in 1..c |-> dec[k]]
      BY <2>1, SofarShape
    <2> QED BY <2>2, <2>3
  <1>6. /\ Len(next) = c /\ DOMAIN next = 1..c /\ next[c] = q
        /\ (\A k \in 1..c - 1 : next[k] = ents[k]) /\ next = [k \in 1..c |-> next[k]]
    <2> HIDE DEF next
    <2>1. next = Append(SubSeq(ents, 1, c - 1), q)
      BY <1>4
    <2>2. Len(next) = c /\ DOMAIN next = 1..c /\ next[c] = q /\ \A k \in 1..c - 1 : next[k] = ents[k]
      BY <2>1, SofarShape
    <2>3. next = [k \in 1..c |-> next[k]]
      BY <2>1, SofarShape
    <2> QED BY <2>2, <2>3
  <1> HIDE DEF dec, next
  <1>7. [p EXCEPT !.changes = Append(@, x)] = q
    <2> DEFINE t == SubSeq(s, 1, j)
               u == SubSeq(s, 1, j + 1)
    <2>1. Append(t, x) = u
      BY <1>2
    <2>2. /\ p = [op |-> e.op, id |-> e.id, class |-> e.class, serial |-> e.serial, changes |-> t]
          /\ q = [op |-> e.op, id |-> e.id, class |-> e.class, serial |-> e.serial, changes |-> u]
      BY <1>3
    <2> HIDE DEF t, u
    <2>3. p.changes = t
      BY <2>2
    <2>4. [p EXCEPT !.changes = u] = q
      BY <2>2
    <2> QED BY <2>1, <2>3, <2>4
  <1>8. [dec EXCEPT ![Len(dec)].changes = Append(@, x)] = [dec EXCEPT ![c] = q]
    BY <1>5, <1>7
  <1>9. [dec EXCEPT ![c] = q] = next
    <2> DEFINE f == [dec EXCEPT ![c] = q]
    <2>1. dec = [k \in 1..c |-> dec[k]] /\ next = [k \in 1..c |-> next[k]]
      BY <1>5, <1>6
    <2>2. f = [k \in 1..c |-> IF k = c THEN q ELSE dec[k]]
      BY <2>1
    <2>3. \A k \in 1..c : next[k] = (IF k = c THEN q ELSE dec[k])
      <3> TAKE k \in 1..c
      <3>1. CASE k = c
        BY <1>6, <3>1
      <3>2. CASE k # c
        <4>1. k \in 1..c - 1
          BY <3>2
        <4> QED BY <1>5, <1>6, <3>2, <4>1
      <3> QED BY <3>1, <3>2
    <2> HIDE DEF f
    <2> QED BY <2>1, <2>2, <2>3 DEF f
  <1> QED BY <1>8, <1>9 DEF dec, next, x, s, e

-----------------------------------------------------------------------------
(* The decoder, between two of its steps. *)

Column(ch) == [i \in DOMAIN ch |-> ch[i][1]]

LEMMA ColumnShape ==
  ASSUME NEW ch, Len(ch) \in Nat, DOMAIN ch = 1..Len(ch)
  PROVE  /\ Column(ch) \in Seq(Range(Column(ch))) /\ Len(Column(ch)) = Len(ch)
         /\ \A i \in 1..Len(ch) : Column(ch)[i] = ch[i][1]
  <1> DEFINE n == Len(ch)
             f == Column(ch)
  <1>1. f = [i \in 1..n |-> ch[i][1]]
    BY Zenon DEF Column
  <1>2. f = [i \in 1..n |-> f[i]] /\ \A i \in 1..n : f[i] = ch[i][1]
    <2> HIDE DEF f
    <2> QED BY <1>1
  <1> HIDE DEF f, n
  <1>3. n \in Nat
    BY DEF n
  <1>4. f \in Seq(Range(f)) /\ Len(f) = n
    BY <1>2, <1>3, ListedSeq
  <1> QED BY <1>2, <1>4 DEF f, n

IsReading(rdg) == rdg = Reading(rdg.phase, rdg.previous, rdg.newWay, rdg.last, rdg.todo)

\* The message m was sent with the lists of the classes cl.
WasSent(cl, m, snt) ==
  /\ Setting(cl, m)
  /\ Padded(AllBits(cl, m), m.cut) # <<>>
  /\ snt = [lists |-> ClassLists(cl), newWay |-> m.newWay, form |-> m.form, cut |-> m.cut, entries |-> Ents(cl, m)]

HasRead(cl, m, rd, d) == At(Reader(Padded(AllBits(cl, m), m.cut)), AllBits(cl, m), rd, d)

\* The reader is behind the c-th entry.
AtEntry(cl, m, rd, dec, rdg, c) ==
  /\ c \in 0..Len(m.entries)
  /\ rdg.phase = "entry" /\ rdg.previous = IdBefore(m, c + 1)
  /\ dec = SubSeq(Ents(cl, m), 1, c)
  /\ HasRead(cl, m, rd, UpTo(cl, m, c))

\* It is behind the i-th index of the c-th entry.
AtIndex(cl, m, rd, dec, rdg, c, i) ==
  LET ch == m.entries[c].changes
  IN /\ c \in 1..Len(m.entries) /\ HasChanges(m.entries[c]) /\ i \in 0..Len(ch)
     /\ rdg.phase = "indices" /\ rdg.previous = IdBefore(m, c + 1) /\ rdg.newWay = m.newWay
     /\ rdg.last = IndexBefore(ch, i + 1) /\ rdg.todo = SubSeq(Column(ch), 1, i)
     /\ dec = Sofar(Ents(cl, m), c, 0)
     /\ HasRead(cl, m, rd, UpTo(cl, m, c - 1) \o ToIndex(HeadBits(cl, m, c), ch, m.newWay, m.form, i))

\* It is behind the j-th value of the c-th entry.
AtValue(cl, m, rd, dec, rdg, c, j) ==
  LET ch == m.entries[c].changes
  IN /\ c \in 1..Len(m.entries) /\ HasChanges(m.entries[c]) /\ j \in 0..Len(ch)
     /\ rdg.phase = "values" /\ rdg.previous = IdBefore(m, c + 1)
     /\ rdg.todo = SubSeq(Column(ch), j + 1, Len(ch))
     /\ dec = Sofar(Ents(cl, m), c, j)
     /\ HasRead(cl, m, rd,
          UpTo(cl, m, c - 1) \o ToValue(HeadBits(cl, m, c), ListOf(cl, m, c), ch, m.newWay, m.form, j))

Underway(cl, m, rd, dec, knw, rdg) ==
  /\ ~rd.threw /\ KnowsAfter(knw, rdg.previous) /\ IsReading(rdg)
  /\ \/ \E c : AtEntry(cl, m, rd, dec, rdg, c)
     \/ \E c, i : AtIndex(cl, m, rd, dec, rdg, c, i)
     \/ \E c, j : AtValue(cl, m, rd, dec, rdg, c, j)

Decoding(cl, m, snt, rd, dec, knw, rdg, stg) ==
  /\ WasSent(cl, m, snt)
  /\ stg \in {"message", "threw", "decoded"}
  /\ stg = "message" => Underway(cl, m, rd, dec, knw, rdg)
  /\ stg = "threw" => m.cut > 0 /\ RightEntries(Ents(cl, m), dec)
  /\ stg = "decoded" => m.cut = 0 /\ dec = Ents(cl, m)

\* Of an entry that has changes.
LEMMA ChangedEntry ==
  ASSUME NEW cl, NEW m, Setting(cl, m), NEW c \in 1..Len(m.entries), HasChanges(m.entries[c])
  PROVE  LET ch == m.entries[c].changes
             list == ListOf(cl, m, c)
         IN /\ SoundChanges(list, ch, m.newWay, m.form) /\ m.newWay \in BOOLEAN
            /\ Len(ch) \in Nat /\ DOMAIN ch = 1..Len(ch) /\ Len(Ents(cl, m)[c].changes) = Len(ch)
            /\ ChangesLieIn(list, ch, m.newWay, m.form, HeadBits(cl, m, c))
            /\ BitsOf(cl, m)[c] = HeadBits(cl, m, c) \o EncodeChanges(list, ch, m.newWay, m.form)
  <1> DEFINE ch == m.entries[c].changes
             list == ListOf(cl, m, c)
             h == HeadBits(cl, m, c)
  <1>1. m.newWay \in BOOLEAN
    BY SettingHolds, MessageShape
  <1>2. h \in BitStrings /\ SoundChanges(list, ch, m.newWay, m.form)
        /\ BitsOf(cl, m)[c] = h \o EncodeChanges(list, ch, m.newWay, m.form)
    BY EntryTrail
  <1>3. Len(Ents(cl, m)[c].changes) = Len(ch)
    BY EntsShape, ZenonT(30) DEF Means
  <1> HIDE DEF ch, list, h
  <1>4. Len(ch) \in Nat /\ DOMAIN ch = 1..Len(ch)
    BY <1>1, <1>2, ChangesShape
  <1>5. ChangesLieIn(list, ch, m.newWay, m.form, h)
    BY <1>1, <1>2, ChangesTrail
  <1> QED BY <1>1, <1>2, <1>3, <1>4, <1>5 DEF ch, list, h

LEMMA UnderwayRight ==
  ASSUME NEW cl, NEW m, Setting(cl, m), NEW rd, NEW dec, NEW knw, NEW rdg, Underway(cl, m, rd, dec, knw, rdg)
  PROVE  RightEntries(Ents(cl, m), dec)
  <1> DEFINE ents == Ents(cl, m)
  <1>1. AreEntries(ents) /\ Len(ents) = Len(m.entries)
    BY EntsShape
  <1> HIDE DEF ents
  <1>2. ASSUME NEW c, AtEntry(cl, m, rd, dec, rdg, c)
        PROVE  RightEntries(ents, dec)
    BY <1>1, <1>2, WholeRight DEF AtEntry, ents
  <1>3. ASSUME NEW c, NEW i, AtIndex(cl, m, rd, dec, rdg, c, i)
        PROVE  RightEntries(ents, dec)
    <2>1. c \in 1..Len(m.entries) /\ HasChanges(m.entries[c]) /\ dec = Sofar(ents, c, 0)
      BY <1>3, Zenon DEF AtIndex, ents
    <2>2. Len(m.entries[c].changes) \in Nat /\ Len(ents[c].changes) = Len(m.entries[c].changes)
      BY <2>1, ChangedEntry DEF ents
    <2>3. 0 \in 0..Len(ents[c].changes)
      BY <2>2
    <2> QED BY <1>1, <2>1, <2>3, SofarRight
  <1>4. ASSUME NEW c, NEW j, AtValue(cl, m, rd, dec, rdg, c, j)
        PROVE  RightEntries(ents, dec)
    <2>1. /\ c \in 1..Len(m.entries) /\ HasChanges(m.entries[c]) /\ dec = Sofar(ents, c, j)
          /\ j \in 0..Len(m.entries[c].changes)
      BY <1>4, Zenon DEF AtValue, ents
    <2>2. Len(ents[c].changes) = Len(m.entries[c].changes)
      BY <2>1, ChangedEntry DEF ents
    <2> QED BY <1>1, <2>1, <2>2, SofarRight
  <1> QED BY <1>2, <1>3, <1>4, Zenon DEF Underway, ents

LEMMA ThrowsStep ==
  ASSUME NEW m, WasSent(classes, m, sent), Underway(classes, m, reader, decoded, known, reading),
         m.cut > 0, Throws
  PROVE  Decoding(classes, m, sent, reader', decoded', known', reading', stage')
  <1>1. RightEntries(Ents(classes, m), decoded)
    BY UnderwayRight, Zenon DEF WasSent
  <1>2. stage' = "threw" /\ decoded' = decoded
    BY DEF Throws
  <1> QED BY <1>1, <1>2 DEF Decoding

LEMMA EndMessageStep ==
  ASSUME NEW m, WasSent(classes, m, sent), Underway(classes, m, reader, decoded, known, reading), EndMessage
  PROVE  Decoding(classes, m, sent, reader', decoded', known', reading', stage')
  <1> DEFINE ents == Ents(classes, m)
             w == AllBits(classes, m)
  <1>1. stage' = "decoded" /\ decoded' = decoded /\ reading.phase = "entry" /\ Len(decoded) = Len(sent.entries)
    BY DEF EndMessage
  <1>2. Setting(classes, m) /\ Padded(w, m.cut) # <<>> /\ sent.entries = ents
    BY DEF WasSent
  <1>3. AreEntries(ents) /\ Len(ents) = Len(m.entries) /\ m.cut \in Nat
    BY <1>2, EntsShape, SettingHolds, MessageShape
  <1>4. PICK c : AtEntry(classes, m, reader, decoded, reading, c)
    BY <1>1 DEF Underway, AtIndex, AtValue
  <1>5. c \in 0..Len(ents) /\ decoded = SubSeq(ents, 1, c) /\ HasRead(classes, m, reader, UpTo(classes, m, c))
    BY <1>3, <1>4 DEF AtEntry
  <1> HIDE DEF ents
  <1>6. c = Len(ents) /\ decoded = ents
    BY <1>1, <1>2, <1>3, <1>5, WholeRight
  <1>7. UpTo(classes, m, c) = w
    BY <1>2, <1>3, <1>6, MessageTrail
  <1>8. ~reader.threw
    BY Zenon DEF Underway
  <1>9. m.cut = 0
    <2>1. At(Reader(Padded(w, m.cut)), w, reader, w)
      BY <1>5, <1>7 DEF HasRead
    <2> HIDE DEF w
    <2> QED BY <1>2, <1>3, <1>8, <2>1, ReadWhole
  <1> QED BY <1>1, <1>6, <1>9 DEF Decoding, ents

LEMMA EndEntryStep ==
  ASSUME NEW m, WasSent(classes, m, sent), Underway(classes, m, reader, decoded, known, reading),
         stage = "message", EndEntry
  PROVE  Decoding(classes, m, sent, reader', decoded', known', reading', stage')
  <1> DEFINE ents == Ents(classes, m)
  <1>1. /\ stage' = "message" /\ decoded' = decoded /\ reader' = reader /\ known' = known
        /\ reading.phase = "values" /\ reading.todo = <<>> /\ reading' = [reading EXCEPT !.phase = "entry"]
    BY DEF EndEntry
  <1>2. Setting(classes, m)
    BY DEF WasSent
  <1>3. PICK c, j : AtValue(classes, m, reader, decoded, reading, c, j)
    BY <1>1 DEF Underway, AtIndex, AtEntry
  <1> DEFINE ch == m.entries[c].changes
             list == ListOf(classes, m, c)
             h == HeadBits(classes, m, c)
  <1>4. /\ c \in 1..Len(m.entries) /\ HasChanges(m.entries[c]) /\ j \in 0..Len(ch)
        /\ reading.previous = IdBefore(m, c + 1) /\ reading.todo = SubSeq(Column(ch), j + 1, Len(ch))
        /\ decoded = Sofar(ents, c, j)
        /\ HasRead(classes, m, reader, UpTo(classes, m, c - 1) \o ToValue(h, list, ch, m.newWay, m.form, j))
    BY <1>3, Zenon DEF AtValue
  <1>5. /\ Len(ch) \in Nat /\ DOMAIN ch = 1..Len(ch) /\ Len(ents[c].changes) = Len(ch)
        /\ ChangesLieIn(list, ch, m.newWay, m.form, h)
        /\ BitsOf(classes, m)[c] = h \o EncodeChanges(list, ch, m.newWay, m.form)
    BY <1>2, <1>4, ChangedEntry
  <1>6. AreEntries(ents) /\ Len(ents) = Len(m.entries)
    BY <1>2, EntsShape
  <1>7. UpTo(classes, m, c) = UpTo(classes, m, c - 1) \o BitsOf(classes, m)[c]
    BY <1>2, <1>4, MessageTrail
  <1> HIDE DEF ents, ch, list, h
  <1>8. j = Len(ch)
    <2> DEFINE s == Column(ch)
    <2>1. s \in Seq(Range(s)) /\ Len(s) = Len(ch)
      BY <1>5, ColumnShape
    <2> HIDE DEF s
    <2>0. j \in Nat /\ j <= Len(ch) /\ Len(ch) \in Nat
      BY <1>4, <1>5
    <2> SUFFICES ASSUME j < Len(ch) PROVE FALSE
      BY <2>0
    <2>2. j + 1 \in Int /\ j + 1 <= Len(ch)
      BY <1>4, <1>5
    <2>3. SubSeq(s, j + 1, Len(ch)) = <<>>
      BY <1>1, <1>4 DEF s
    <2>4. Len(SubSeq(s, j + 1, Len(ch))) = Len(ch) - (j + 1) + 1
      BY <1>4, <1>5, <2>1, <2>2, SubSeqProperties, ElementOfSeq
    <2>5. Len(<<>>) = 0
      BY EmptySeq
    <2>6. Len(ch) - (j + 1) + 1 = 0
      BY <2>3, <2>4, <2>5, Zenon
    <2> QED BY <2>0, <2>6, SMT
  <1>9. decoded = SubSeq(ents, 1, c)
    <2>1. c \in 1..Len(ents)
      BY <1>4, <1>6
    <2>2. 0 \in 0..Len(ents[c].changes)
      BY <1>5
    <2> QED BY <1>4, <1>5, <1>6, <1>8, <2>1, <2>2, SofarRight
  <1>10. HasRead(classes, m, reader, UpTo(classes, m, c))
    <2>1. ToValue(h, list, ch, m.newWay, m.form, Len(ch)) = h \o EncodeChanges(list, ch, m.newWay, m.form)
      BY <1>5, Zenon DEF ChangesLieIn
    <2> QED BY <1>4, <1>5, <1>7, <1>8, <2>1
  <1>11. IsReading(reading') /\ reading'.phase = "entry" /\ reading'.previous = reading.previous
    <2>1. reading = Reading(reading.phase, reading.previous, reading.newWay, reading.last, reading.todo)
      BY Zenon DEF Underway, IsReading
    <2> QED BY <1>1, <2>1 DEF Reading, IsReading
  <1>12. AtEntry(classes, m, reader', decoded', reading', c)
    <2>1. c \in 0..Len(m.entries)
      BY <1>4
    <2> QED BY <1>1, <1>4, <1>9, <1>10, <1>11, <2>1 DEF AtEntry, ents
  <1>13. ~reader'.threw /\ KnowsAfter(known', reading'.previous)
    BY <1>1, <1>11 DEF Underway
  <1>14. Underway(classes, m, reader', decoded', known', reading')
    BY <1>11, <1>12, <1>13, Zenon DEF Underway
  <1> QED BY <1>1, <1>14 DEF Decoding

\* The list of props that the decoder looks an entry's changes up in.
LEMMA ListIs ==
  ASSUME NEW m, Setting(classes, m), NEW c \in 1..Len(m.entries), HasChanges(m.entries[c]),
         NEW j \in 0..Len(m.entries[c].changes), NEW dec, dec = Sofar(Ents(classes, m), c, j)
  PROVE  /\ Len(dec) = c
         /\ PropsOf(dec[Len(dec)].class) = ListOf(classes, m, c)
         /\ ListOf(classes, m, c) \in Seq(Range(ListOf(classes, m, c)))
  <1> DEFINE ents == Ents(classes, m)
             e == m.entries[c]
  <1>0. AreEntries(ents) /\ Len(ents) = Len(m.entries)
    BY EntsShape
  <1>1. ents[c].class = e.class /\ Len(ents[c].changes) = Len(e.changes)
    <2>1. Means(ListOf(classes, m, c), e, ents[c])
      BY EntsShape
    <2> DEFINE x == ents[c]
               list == ListOf(classes, m, c)
    <2>2. Means(list, e, x)
      BY <2>1
    <2> HIDE DEF x, list, e
    <2>3. x.class = e.class
      BY <2>2, MeansFields
    <2>4. Len(x.changes) = Len(e.changes)
      BY <2>2, Zenon DEF Means
    <2> QED BY <2>3, <2>4 DEF x
  <1>2. e.class \in DOMAIN ClassLists(classes) /\ SoundClasses(classes)
    BY EntryMeans, SettingHolds DEF HasChanges
  <1>3. ListOf(classes, m, c) = classes[e.class + 1].flattenedProps
        /\ ListOf(classes, m, c) \in Seq(Range(ListOf(classes, m, c)))
    BY <1>2, ClassFits DEF ListOf
  <1> HIDE DEF ents, e
  <1>4. dec = Sofar(ents, c, j) /\ c \in 1..Len(ents) /\ j \in 0..Len(ents[c].changes)
    BY <1>0, <1>1 DEF ents, e
  <1>5. Len(dec) = c /\ dec[c] = Partial(ents[c], j)
    BY <1>0, <1>4, SofarRight
  <1>6. dec[c].class = e.class
    BY <1>1, <1>5 DEF Partial
  <1> QED BY <1>3, <1>5, <1>6 DEF PropsOf

LEMMA ValueStep ==
  ASSUME NEW m, WasSent(classes, m, sent), Underway(classes, m, reader, decoded, known, reading),
         stage = "message", ReadValue
  PROVE  Decoding(classes, m, sent, reader', decoded', known', reading', stage')
  <1> DEFINE ents == Ents(classes, m)
  <1>1. reading.phase = "values" /\ reading.todo # <<>>
    BY DEF ReadValue
  <1>2. Setting(classes, m)
    BY DEF WasSent
  <1>3. PICK c, j : AtValue(classes, m, reader, decoded, reading, c, j)
    BY <1>1 DEF Underway, AtIndex, AtEntry
  <1> DEFINE ch == m.entries[c].changes
             list == ListOf(classes, m, c)
             h == HeadBits(classes, m, c)
             leaf == list[ch[j + 1][1]]
             v == ch[j + 1][2]
             read == DecodeProp(reader, leaf)
             value == EncodeProp(leaf, v)
             TV(i) == ToValue(h, list, ch, m.newWay, m.form, i)
             f == UpTo(classes, m, c - 1)
  <1>4. /\ c \in 1..Len(m.entries) /\ HasChanges(m.entries[c]) /\ j \in 0..Len(ch)
        /\ reading.previous = IdBefore(m, c + 1) /\ reading.todo = SubSeq(Column(ch), j + 1, Len(ch))
        /\ decoded = Sofar(ents, c, j)
        /\ HasRead(classes, m, reader, f \o TV(j))
    BY <1>3, Zenon DEF AtValue
  <1>5. /\ SoundChanges(list, ch, m.newWay, m.form) /\ m.newWay \in BOOLEAN
        /\ Len(ch) \in Nat /\ DOMAIN ch = 1..Len(ch) /\ Len(ents[c].changes) = Len(ch)
        /\ ChangesLieIn(list, ch, m.newWay, m.form, h)
        /\ BitsOf(classes, m)[c] = h \o EncodeChanges(list, ch, m.newWay, m.form)
    BY <1>2, <1>4, ChangedEntry
  <1>6. AreEntries(ents) /\ Len(ents) = Len(m.entries)
    BY <1>2, EntsShape
  <1>7. Len(decoded) = c /\ PropsOf(decoded[Len(decoded)].class) = list
    BY <1>2, <1>4, ListIs
  <1>8. \A i \in 1..Len(ch) : ents[c].changes[i] = <<list[ch[i][1]], ch[i][2]>>
    <2>1. Means(list, m.entries[c], ents[c])
      BY <1>2, <1>4, EntsShape
    <2> QED BY <2>1, Zenon DEF Means
  <1> HIDE DEF ents, ch, list, h
  <1>9. j \in Nat /\ j <= Len(ch) /\ Len(ch) \in Nat
    BY <1>4, <1>5
  <1> DEFINE s == Column(ch)
  <1>10. s \in Seq(Range(s)) /\ Len(s) = Len(ch) /\ \A i \in 1..Len(ch) : s[i] = ch[i][1]
    BY <1>5, ColumnShape
  <1>11. reading.todo = SubSeq(s, j + 1, Len(ch))
    BY <1>4
  <1> HIDE DEF s
  <1>12. j < Len(ch)
    <2> SUFFICES ASSUME ~(j < Len(ch)) PROVE FALSE
      OBVIOUS
    <2>1. j + 1 \in Int /\ Len(ch) < j + 1
      BY <1>9
    <2>2. SubSeq(s, j + 1, Len(ch)) = <<>>
      BY <1>9, <2>1, SubSeqEmpty
    <2> QED BY <1>1, <1>11, <2>2
  <1>13. j + 1 \in 1..Len(ch) /\ j \in 0..Len(ch) - 1 /\ j + 1 \in 0..Len(ch) /\ Len(ch) \in j + 1..Len(ch)
    BY <1>9, <1>12
  <1>14. Head(reading.todo) = ch[j + 1][1] /\ Tail(reading.todo) = SubSeq(s, (j + 1) + 1, Len(ch))
    BY <1>10, <1>11, <1>13, HeadTailOfSubSeq
  <1>15. FitsProp(leaf, v)
    BY <1>5, <1>13, ChangesShape
  <1>16. value \in BitStrings /\ TV(j + 1) = TV(j) \o value
    <2>1. ValueSeq(list, ch)[j + 1] = value /\ value \in BitStrings
      <3>1. \A i \in 1..Len(ch) : ValueSeq(list, ch)[i] = EncodeProp(list[ch[i][1]], ch[i][2])
                                  /\ ValueSeq(list, ch)[i] \in BitStrings
        BY <1>5, ChangesShape
      <3> QED BY <1>13, <3>1
    <2>2. TV(j + 1) = TV(j) \o ValueSeq(list, ch)[j + 1]
      BY <1>5, <1>13, Zenon DEF ChangesLieIn
    <2> QED BY <2>1, <2>2
  <1>17. TV(j) \in BitStrings /\ Starts(TV(j) \o value, BitsOf(classes, m)[c])
    <2>1. TV(j) \in BitStrings /\ Starts(TV(j + 1), h \o EncodeChanges(list, ch, m.newWay, m.form))
      BY <1>4, <1>5, <1>13, Zenon DEF ChangesLieIn
    <2> QED BY <1>5, <1>16, <2>1
  <1> HIDE DEF TV, value
  <1>18. (f \o TV(j)) \o value = f \o TV(j + 1) /\ Starts((f \o TV(j)) \o value, AllBits(classes, m))
    <2> DEFINE x == TV(j)
    <2>1. x \in BitStrings /\ Starts(x \o value, BitsOf(classes, m)[c])
      BY <1>17
    <2>2. TV(j + 1) = x \o value
      BY <1>16
    <2> HIDE DEF x
    <2>3. (f \o x) \o value = f \o (x \o value) /\ Starts((f \o x) \o value, AllBits(classes, m))
      BY <1>2, <1>4, <1>16, <2>1, WithinNext
    <2> QED BY <2>2, <2>3 DEF x
  <1> DEFINE w == AllBits(classes, m)
             start == Reader(Padded(w, m.cut))
             d == f \o TV(j)
  <1>19. At(start, w, reader, d)
    BY <1>4 DEF HasRead
  <1>20. Starts(d \o value, w)
    BY <1>18
  <1> HIDE DEF d, f, leaf, v
  <1>21. Carries(reader, value) /\ IsReader(reader)
    <2> HIDE DEF w, start
    <2> QED BY <1>16, <1>19, <1>20, AtNext
  <1>22. Reads(reader, read, value, v)
    BY <1>15, <1>21, PropReads DEF value
  <1> HIDE DEF read
  <1>23. At(start, w, read, d \o value) /\ (~read.threw => read.value = v)
    <2> HIDE DEF w, start
    <2> QED BY <1>16, <1>19, <1>20, <1>22, AtThen
  <1>24. HasRead(classes, m, read, f \o TV(j + 1))
    BY <1>18, <1>23 DEF HasRead, d
  <1>25. IF read.threw THEN Throws
         ELSE /\ reader' = read
              /\ decoded' = [decoded EXCEPT ![Len(decoded)].changes = Append(@, <<leaf, read.value>>)]
              /\ reading' = [reading EXCEPT !.todo = Tail(@)]
              /\ known' = known /\ stage' = stage
    <2>1. PropsOf(decoded[Len(decoded)].class)[Head(reading.todo)] = leaf
      BY <1>7, <1>14 DEF leaf
    <2> HIDE DEF leaf
    <2> QED BY <2>1 DEF ReadValue, read
  <1>26. CASE read.threw
    <2>1. m.cut > 0
      <3>1. m.cut \in Nat /\ Padded(w, m.cut) # <<>>
        BY <1>2, SettingHolds, MessageShape DEF WasSent
      <3>2. At(Reader(Padded(w, m.cut)), w, read, d \o value)
        BY <1>23
      <3> HIDE DEF w
      <3> QED BY <1>26, <3>1, <3>2, CutShort
    <2> QED BY <1>25, <1>26, <2>1, ThrowsStep
  <1>27. CASE ~read.threw
    <2>1. read.value = v
      BY <1>23, <1>27
    <2>2. ents[c].changes[j + 1] = <<leaf, read.value>>
      BY <1>8, <1>13, <2>1 DEF leaf, v
    <2>3. decoded' = Sofar(ents, c, j + 1)
      <3>1. c \in 1..Len(ents) /\ j \in 0..Len(ents[c].changes) - 1
        BY <1>4, <1>5, <1>6, <1>13
      <3>2. [decoded EXCEPT ![Len(decoded)].changes = Append(@, ents[c].changes[j + 1])] = Sofar(ents, c, j + 1)
        BY <1>4, <1>6, <3>1, SofarGoesOn, Zenon
      <3> QED BY <1>25, <1>27, <2>2, <3>2
    <2>4. /\ IsReading(reading') /\ reading'.phase = "values" /\ reading'.previous = reading.previous
          /\ reading'.todo = Tail(reading.todo)
      <3>1. reading = Reading(reading.phase, reading.previous, reading.newWay, reading.last, reading.todo)
        BY Zenon DEF Underway, IsReading
      <3>2. reading' = [reading EXCEPT !.todo = Tail(reading.todo)]
        BY <1>25, <1>27
      <3> QED BY <1>1, <3>1, <3>2 DEF Reading, IsReading
    <2>5. AtValue(classes, m, reader', decoded', reading', c, j + 1)
      <3>1. reader' = read
        BY <1>25, <1>27
      <3>2. HasRead(classes, m, reader', UpTo(classes, m, c - 1) \o
              ToValue(HeadBits(classes, m, c), ListOf(classes, m, c), m.entries[c].changes, m.newWay, m.form, j + 1))
        BY <1>24, <3>1, Zenon DEF f, TV, h, list, ch
      <3>3. reading'.todo = SubSeq(Column(m.entries[c].changes), (j + 1) + 1, Len(m.entries[c].changes))
        BY <1>14, <2>4, Zenon DEF s, ch
      <3>4. j + 1 \in 0..Len(m.entries[c].changes)
        BY <1>13 DEF ch
      <3>5. decoded' = Sofar(Ents(classes, m), c, j + 1)
        BY <2>3 DEF ents
      <3>6. reading'.phase = "values" /\ reading'.previous = IdBefore(m, c + 1)
        BY <1>4, <2>4
      <3> QED BY <1>4, <3>2, <3>3, <3>4, <3>5, <3>6, Zenon DEF AtValue
    <2>6. ~reader'.threw /\ KnowsAfter(known', reading'.previous) /\ stage' = "message"
      BY <1>25, <1>27, <2>4 DEF Underway
    <2>7. Underway(classes, m, reader', decoded', known', reading')
      BY <2>4, <2>5, <2>6, Zenon DEF Underway
    <2> QED BY <2>6, <2>7 DEF Decoding
  <1> QED BY <1>26, <1>27

\* The gap to an index that is sent.
LEMMA IndexGap ==
  ASSUME NEW list, list \in Seq(Range(list)), NEW ch, NEW newWay \in BOOLEAN, NEW form,
         SoundChanges(list, ch, newWay, form), NEW i \in 0..Len(ch) - 1, NEW k, k = i + 1,
         NEW x, x = ch[k][1], NEW b, b = IndexBefore(ch, k), NEW g, g = x - b - 1
  PROVE  /\ FitsGap(g, newWay, form) /\ g \in Nat /\ g # 4095
         /\ b + 1 + g = x /\ ~(x > Len(list)) /\ IndexBefore(ch, k + 1) = x
         /\ IndexSeq(ch, newWay, form)[k] = Gap(g, newWay, form)
         /\ IndexSeq(ch, newWay, form)[k] \in BitStrings
  <1>1. Len(ch) \in Nat /\ \A n \in 1..Len(ch) : ch[n][1] \in DOMAIN list
    BY ChangesShape
  <1>2. k \in 1..Len(ch) /\ i \in Nat
    BY <1>1
  <1>3. FitsGap(g, newWay, form) /\ IndexSeq(ch, newWay, form)[k] = Gap(g, newWay, form)
        /\ IndexSeq(ch, newWay, form)[k] \in BitStrings
    <2>1. /\ \A n \in 1..Len(ch) : FitsGap(ch[n][1] - IndexBefore(ch, n) - 1, newWay, form)
          /\ \A n \in 1..Len(ch) : IndexSeq(ch, newWay, form)[n] = Gap(ch[n][1] - IndexBefore(ch, n) - 1, newWay, form)
                                   /\ IndexSeq(ch, newWay, form)[n] \in BitStrings
      BY ChangesShape
    <2> QED BY <1>2, <2>1
  <1>4. DOMAIN list = 1..Len(list) /\ Len(list) \in Nat
    BY LenProperties
  <1>5. x \in 1..Len(list)
    <2> QED BY <1>1, <1>2, <1>4
  <1>6. b \in Nat
    <2>1. CASE i = 0
      BY <2>1 DEF IndexBefore
    <2>2. CASE i # 0
      <3>1. i \in 1..Len(ch) /\ k # 1 /\ k - 1 = i
        BY <1>1, <1>2, <2>2
      <3>2. b = ch[i][1]
        BY <3>1 DEF IndexBefore
      <3>3. b \in 1..Len(list)
        BY <1>1, <1>4, <3>1, <3>2
      <3> QED BY <1>4, <3>3
    <2> QED BY <2>1, <2>2
  <1>7. IndexBefore(ch, k + 1) = x
    <2>1. k + 1 # 1 /\ (k + 1) - 1 = k
      BY <1>2
    <2> QED BY <2>1 DEF IndexBefore
  <1>8. g \in Nat /\ g # 4095
    <2>1. g \in Nat /\ g < 4095
      BY <1>3, FitsGapRange
    <2> QED BY <2>1, SMT
  <1>9. b + 1 + g = x /\ ~(x > Len(list))
    BY <1>4, <1>5, <1>6
  <1> QED BY <1>3, <1>7, <1>8, <1>9

LEMMA IndexStep ==
  ASSUME NEW m, WasSent(classes, m, sent), Underway(classes, m, reader, decoded, known, reading),
         stage = "message", ReadIndex
  PROVE  Decoding(classes, m, sent, reader', decoded', known', reading', stage')
  <1> DEFINE ents == Ents(classes, m)
  <1>1. reading.phase = "indices"
    BY DEF ReadIndex
  <1>2. Setting(classes, m)
    BY DEF WasSent
  <1>3. PICK c, i : AtIndex(classes, m, reader, decoded, reading, c, i)
    BY <1>1 DEF Underway, AtEntry, AtValue
  <1> DEFINE ch == m.entries[c].changes
             list == ListOf(classes, m, c)
             h == HeadBits(classes, m, c)
             TI(k) == ToIndex(h, ch, m.newWay, m.form, k)
             f == UpTo(classes, m, c - 1)
             gap == ReadGap(reader, m.newWay)
             w == AllBits(classes, m)
             start == Reader(Padded(w, m.cut))
  <1>4. /\ c \in 1..Len(m.entries) /\ HasChanges(m.entries[c]) /\ i \in 0..Len(ch)
        /\ reading.previous = IdBefore(m, c + 1) /\ reading.newWay = m.newWay
        /\ reading.last = IndexBefore(ch, i + 1) /\ reading.todo = SubSeq(Column(ch), 1, i)
        /\ decoded = Sofar(ents, c, 0)
        /\ HasRead(classes, m, reader, f \o TI(i))
    BY <1>3, Zenon DEF AtIndex
  <1>5. /\ SoundChanges(list, ch, m.newWay, m.form) /\ m.newWay \in BOOLEAN
        /\ Len(ch) \in Nat /\ DOMAIN ch = 1..Len(ch) /\ Len(ents[c].changes) = Len(ch)
        /\ ChangesLieIn(list, ch, m.newWay, m.form, h)
        /\ BitsOf(classes, m)[c] = h \o EncodeChanges(list, ch, m.newWay, m.form)
    BY <1>2, <1>4, ChangedEntry
  <1>6. 0 \in 0..Len(ch) /\ Len(ch) \in 0..Len(ch)
    BY <1>5
  <1>7. PropsOf(decoded[Len(decoded)].class) = list /\ list \in Seq(Range(list))
    BY <1>2, <1>4, <1>6, ListIs
  <1>8. m.cut \in Nat /\ Padded(w, m.cut) # <<>>
    BY <1>2, SettingHolds, MessageShape DEF WasSent
  <1>9. LET index == reading.last + 1 + gap.value
            ends  == gap.value = 4095
        IN IF gap.threw \/ (~ends /\ index > Len(list)) THEN Throws
           ELSE /\ reader' = gap
                /\ reading' = IF ends THEN [reading EXCEPT !.phase = "values"]
                              ELSE Reading("indices", reading.previous, reading.newWay, index,
                                           Append(reading.todo, index))
                /\ decoded' = decoded /\ known' = known /\ stage' = stage
    <2>1. ReadGap(reader, reading.newWay) = gap
      BY <1>4
    <2> HIDE DEF gap, list
    <2> QED BY <1>7, <2>1 DEF ReadIndex
  <1>10. reading = Reading(reading.phase, reading.previous, reading.newWay, reading.last, reading.todo)
    BY Zenon DEF Underway, IsReading
  <1>11. At(start, w, reader, f \o TI(i)) /\ TI(i) \in BitStrings
    <2>1. TI(i) \in BitStrings
      BY <1>4, <1>5, Zenon DEF ChangesLieIn
    <2> QED BY <1>4, <2>1 DEF HasRead
  <1>12. \* The next bits, whichever they are.
         ASSUME NEW n, NEW form, Sends(n, m.newWay, form), NEW e \in BitStrings, e = Gap(n, m.newWay, form),
                Starts(TI(i) \o e, BitsOf(classes, m)[c])
         PROVE  /\ HasRead(classes, m, gap, f \o (TI(i) \o e))
                /\ gap.threw => m.cut > 0
                /\ ~gap.threw => gap.value = n
    <2> DEFINE x == TI(i)
               d == f \o x
    <2>1. x \in BitStrings /\ Starts(x \o e, BitsOf(classes, m)[c])
      BY <1>11, <1>12
    <2> HIDE DEF x
    <2>2. d \o e = f \o (x \o e) /\ Starts(d \o e, w)
      BY <1>2, <1>4, <1>12, <2>1, WithinNext, SMTT(30)
    <2>3. At(start, w, reader, d)
      BY <1>11 DEF x
    <2> HIDE DEF d, w, start
    <2>4. Carries(reader, e) /\ IsReader(reader)
      BY <1>12, <2>2, <2>3, AtNext
    <2>5. Reads(reader, gap, e, n)
      BY <1>5, <1>12, <2>4, GapReads
    <2> HIDE DEF gap
    <2>6. At(start, w, gap, d \o e) /\ (~gap.threw => gap.value = n)
      <3>1. Starts(d \o e, w)
        BY <2>2
      <3> DEFINE y == d \o e
      <3>2. At(start, w, gap, y) /\ (~gap.threw => gap.value = n)
        BY <1>12, <2>3, <2>5, <3>1, AtThen
      <3> QED BY <3>2
    <2>7. gap.threw => m.cut > 0
      BY <1>8, <2>6, CutShort DEF start
    <2>8. HasRead(classes, m, gap, f \o (x \o e))
      BY <2>2, <2>6 DEF HasRead, start, w
    <2> QED BY <2>6, <2>7, <2>8 DEF x
  <1> DEFINE s == Column(ch)
  <1>13. s \in Seq(Range(s)) /\ Len(s) = Len(ch) /\ \A k \in 1..Len(ch) : s[k] = ch[k][1]
    BY <1>5, ColumnShape
  <1>14. ASSUME gap.threw, m.cut > 0 PROVE Decoding(classes, m, sent, reader', decoded', known', reading', stage')
    <2> HIDE DEF gap, list
    <2>1. Throws
      BY <1>9, <1>14
    <2> QED BY <1>14, <2>1, ThrowsStep
  <1>15. CASE i < Len(ch)
    <2> DEFINE x == ch[i + 1][1]
               g == x - IndexBefore(ch, i + 1) - 1
               e == IndexSeq(ch, m.newWay, m.form)[i + 1]
    <2>1. i \in 0..Len(ch) - 1 /\ i + 1 \in 1..Len(ch) /\ i + 1 \in 0..Len(ch)
      <3>1. i \in Nat /\ i <= Len(ch) /\ Len(ch) \in Nat
        BY <1>4, <1>5
      <3> QED BY <3>1, <1>15
    <2> DEFINE b == IndexBefore(ch, i + 1)
    <2>2. /\ FitsGap(g, m.newWay, m.form) /\ g \in Nat /\ g # 4095
          /\ b + 1 + g = x
          /\ ~(x > Len(list)) /\ IndexBefore(ch, (i + 1) + 1) = x
          /\ e = Gap(g, m.newWay, m.form) /\ e \in BitStrings
      <3> DEFINE k == i + 1
      <3>1. k = i + 1 /\ x = ch[k][1] /\ b = IndexBefore(ch, k) /\ g = x - b - 1 /\ e = IndexSeq(ch, m.newWay, m.form)[k]
        OBVIOUS
      <3> HIDE DEF ch, list, k, x, b, g, e
      <3>2. /\ FitsGap(g, m.newWay, m.form) /\ g \in Nat /\ g # 4095
            /\ b + 1 + g = x /\ ~(x > Len(list)) /\ IndexBefore(ch, k + 1) = x
            /\ IndexSeq(ch, m.newWay, m.form)[k] = Gap(g, m.newWay, m.form)
            /\ IndexSeq(ch, m.newWay, m.form)[k] \in BitStrings
        BY <1>5, <1>7, <2>1, <3>1, IndexGap
      <3> QED BY <3>1, <3>2
    <2>3. TI(i + 1) = TI(i) \o e
      BY <1>5, <2>1, Zenon DEF ChangesLieIn
    <2>4. Starts(TI(i + 1), BitsOf(classes, m)[c])
      BY <1>5, <2>1, Zenon DEF ChangesLieIn
    <2> HIDE DEF g, e, x, TI, gap, list
    <2>5. Sends(g, m.newWay, m.form)
      <3>1. FitsGap(g, m.newWay, m.form)
        BY <2>2
      <3> QED BY <3>1, Zenon DEF Sends
    <2>8. e \in BitStrings /\ e = Gap(g, m.newWay, m.form) /\ Starts(TI(i) \o e, BitsOf(classes, m)[c])
      <3>1. Starts(TI(i) \o e, BitsOf(classes, m)[c])
        BY <2>3, <2>4, Zenon
      <3> QED BY <2>2, <3>1
    <2>6. /\ HasRead(classes, m, gap, f \o (TI(i) \o e))
          /\ gap.threw => m.cut > 0
          /\ ~gap.threw => gap.value = g
      BY <1>12, <2>5, <2>8
    <2>7. CASE ~gap.threw
      <3>1. gap.value = g /\ reading.last + 1 + gap.value = x
        BY <1>4, <2>2, <2>6, <2>7 DEF b
      <3>2. /\ reader' = gap /\ decoded' = decoded /\ known' = known /\ stage' = "message"
            /\ reading' = Reading("indices", reading.previous, reading.newWay, x, Append(reading.todo, x))
        BY <1>9, <2>2, <2>7, <3>1
      <3>3. /\ IsReading(reading') /\ reading'.phase = "indices" /\ reading'.previous = reading.previous
            /\ reading'.newWay = reading.newWay /\ reading'.last = x /\ reading'.todo = Append(reading.todo, x)
        BY <3>2 DEF Reading, IsReading
      <3>4. Append(reading.todo, x) = SubSeq(s, 1, i + 1)
        <4>1. s[i + 1] = x
          BY <1>13, <2>1 DEF x
        <4>2. reading.todo = SubSeq(s, 1, i)
          BY <1>4
        <4> HIDE DEF s
        <4>3. Append(SubSeq(s, 1, i), s[i + 1]) = SubSeq(s, 1, i + 1)
          BY <1>13, <2>1, OneMore
        <4> QED BY <4>1, <4>2, <4>3
      <3>5. AtIndex(classes, m, reader', decoded', reading', c, i + 1)
        <4>1. HasRead(classes, m, reader', UpTo(classes, m, c - 1) \o
                ToIndex(HeadBits(classes, m, c), m.entries[c].changes, m.newWay, m.form, i + 1))
          BY <2>3, <2>6, <3>2, Zenon DEF TI
        <4>2. reading'.last = IndexBefore(m.entries[c].changes, (i + 1) + 1)
          BY <2>2, <3>3
        <4>3. decoded' = Sofar(Ents(classes, m), c, 0) /\ reading'.previous = IdBefore(m, c + 1)
              /\ reading'.newWay = m.newWay
          BY <1>4, <3>2, <3>3
        <4>4. reading'.todo = SubSeq(Column(m.entries[c].changes), 1, i + 1)
          BY <3>3, <3>4
        <4> QED BY <1>4, <2>1, <3>3, <4>1, <4>2, <4>3, <4>4, Zenon DEF AtIndex
      <3>6. ~reader'.threw /\ KnowsAfter(known', reading'.previous)
        BY <2>7, <3>2, <3>3 DEF Underway
      <3>7. Underway(classes, m, reader', decoded', known', reading')
        BY <3>3, <3>5, <3>6, Zenon DEF Underway
      <3> QED BY <3>2, <3>7 DEF Decoding
    <2> QED BY <2>6, <2>7, <1>14
  <1>16. CASE ~(i < Len(ch))
    <2> DEFINE e == EndOfIndices(m.newWay)
               TV == ToValue(h, list, ch, m.newWay, m.form, 0)
    <2>1. i = Len(ch)
      BY <1>4, <1>5, <1>16
    <2>2. e = Gap(4095, m.newWay, "seven") /\ e \in BitStrings /\ Sends(4095, m.newWay, "seven")
      BY <1>5, EndBits
    <2>3. TV = TI(Len(ch)) \o e
      BY <1>5, Zenon DEF ChangesLieIn
    <2>4. Starts(TV, BitsOf(classes, m)[c])
      BY <1>5, <1>6, Zenon DEF ChangesLieIn
    <2>5. TV = TI(i) \o e
      BY <2>1, <2>3
    <2> HIDE DEF e, TV, TI, gap, list
    <2>6. /\ HasRead(classes, m, gap, f \o (TI(i) \o e))
          /\ gap.threw => m.cut > 0
          /\ ~gap.threw => gap.value = 4095
      <3>1. Starts(TI(i) \o e, BitsOf(classes, m)[c])
        BY <2>4, <2>5
      <3> QED BY <1>12, <2>2, <3>1
    <2>7. CASE ~gap.threw
      <3>1. /\ reader' = gap /\ decoded' = decoded /\ known' = known /\ stage' = "message"
            /\ reading' = [reading EXCEPT !.phase = "values"]
        BY <1>9, <2>6, <2>7
      <3>2. /\ IsReading(reading') /\ reading'.phase = "values" /\ reading'.previous = reading.previous
            /\ reading'.todo = reading.todo
        BY <1>10, <3>1 DEF Reading, IsReading
      <3>3. AtValue(classes, m, reader', decoded', reading', c, 0)
        <4>1. HasRead(classes, m, reader', UpTo(classes, m, c - 1) \o
                ToValue(HeadBits(classes, m, c), ListOf(classes, m, c), m.entries[c].changes, m.newWay, m.form, 0))
          <5>1. HasRead(classes, m, gap, f \o TV)
            <6>1. HasRead(classes, m, gap, f \o (TI(i) \o e))
              BY <2>6, Zenon
            <6> HIDE DEF f
            <6> QED BY <2>5, <6>1
          <5>2. reader' = gap
            BY <3>1
          <5> HIDE DEF gap
          <5>3. HasRead(classes, m, reader', f \o TV)
            BY <5>1, <5>2, Zenon
          <5> QED BY <5>3, Zenon DEF TV, list
        <4>2. decoded' = Sofar(Ents(classes, m), c, 0) /\ reading'.previous = IdBefore(m, c + 1)
          BY <1>4, <3>1, <3>2
        <4>3. reading'.todo = SubSeq(Column(m.entries[c].changes), 0 + 1, Len(m.entries[c].changes))
          <5>1. 0 + 1 = 1 /\ reading'.todo = SubSeq(Column(ch), 1, Len(ch))
            <6>1. reading.todo = SubSeq(Column(ch), 1, i)
              BY <1>4, Zenon
            <6>2. reading'.todo = reading.todo
              BY <3>2, Zenon
            <6>3. reading'.todo = SubSeq(Column(ch), 1, Len(ch))
              BY <2>1, <6>1, <6>2, Zenon
            <6> QED BY <6>3
          <5> QED BY <5>1
        <4> QED BY <1>4, <1>6, <3>2, <4>1, <4>2, <4>3, Zenon DEF AtValue
      <3>4. ~reader'.threw /\ KnowsAfter(known', reading'.previous)
        BY <2>7, <3>1, <3>2 DEF Underway
      <3>5. Underway(classes, m, reader', decoded', known', reading')
        BY <3>2, <3>3, <3>4, Zenon DEF Underway
      <3> QED BY <3>1, <3>5 DEF Decoding
    <2> QED BY <2>6, <2>7, <1>14
  <1> QED BY <1>15, <1>16

\* An entry touches no entity behind its own.
LEMMA KnowsOn ==
  ASSUME NEW knw, NEW b \in Int, NEW id \in Nat, b < id, KnowsAfter(knw, b), NEW class, NEW op, NEW next,
         next = CASE op = "delete" -> [i \in DOMAIN knw \ {id} |-> knw[i]]
                  [] op = "enter"  -> [i \in DOMAIN knw \cup {id} |-> IF i = id THEN class ELSE knw[i]]
                  [] OTHER         -> knw
  PROVE  KnowsAfter(next, id)
  <1> SUFFICES ASSUME NEW i \in Nat, i > id
               PROVE  (i \in DOMAIN next <=> i \in DOMAIN Known) /\ (i \in DOMAIN Known => next[i] = Known[i])
    BY DEF KnowsAfter
  <1>1. i > b /\ i # id
    OBVIOUS
  <1>2. (i \in DOMAIN knw <=> i \in DOMAIN Known) /\ (i \in DOMAIN Known => knw[i] = Known[i])
    BY <1>1 DEF KnowsAfter
  <1>3. (i \in DOMAIN next <=> i \in DOMAIN knw) /\ (i \in DOMAIN knw => next[i] = knw[i])
    <2>1. CASE op = "delete"
      BY <1>1, <2>1
    <2>2. CASE op = "enter"
      <3>1. next = [x \in DOMAIN knw \cup {id} |-> IF x = id THEN class ELSE knw[x]]
        BY <2>2
      <3> QED BY <1>1, <3>1
    <2>3. CASE op # "delete" /\ op # "enter"
      BY <2>3
    <2> QED BY <2>1, <2>2, <2>3
  <1> QED BY <1>2, <1>3

LEMMA EntryStep ==
  ASSUME NEW m, WasSent(classes, m, sent), Underway(classes, m, reader, decoded, known, reading),
         stage = "message", ReadEntry
  PROVE  Decoding(classes, m, sent, reader', decoded', known', reading', stage')
  <1> DEFINE ents == Ents(classes, m)
             w == AllBits(classes, m)
             start == Reader(Padded(w, m.cut))
  <1>1. reading.phase = "entry" /\ Len(decoded) < Len(sent.entries)
    BY DEF ReadEntry
  <1>2. Setting(classes, m) /\ sent.entries = ents /\ Padded(w, m.cut) # <<>>
    BY DEF WasSent
  <1>3. AreEntries(ents) /\ Len(ents) = Len(m.entries)
    BY <1>2, EntsShape
  <1>4. Len(m.entries) \in Nat /\ m.cut \in Nat /\ m.newWay \in BOOLEAN
    BY <1>2, SettingHolds, MessageShape
  <1>5. PICK c : AtEntry(classes, m, reader, decoded, reading, c)
    BY <1>1 DEF Underway, AtIndex, AtValue
  <1>6. /\ c \in 0..Len(m.entries) /\ reading.previous = IdBefore(m, c + 1)
        /\ decoded = SubSeq(ents, 1, c) /\ HasRead(classes, m, reader, UpTo(classes, m, c))
    BY <1>5, Zenon DEF AtEntry
  <1> DEFINE k == c + 1
             e == m.entries[k]
             h == HeadBits(classes, m, k)
             f == UpTo(classes, m, c)
             head == Header
             way == ReadBitIf(head.r, HasChanges(head.entry))
  <1> HIDE DEF ents
  <1>7. Len(decoded) = c /\ c < Len(m.entries)
    <2>1. c \in 0..Len(ents)
      BY <1>3, <1>6
    <2>2. Len(decoded) = c
      BY <1>3, <1>6, <2>1, WholeRight
    <2> QED BY <1>1, <1>2, <1>3, <2>2
  <1>8. k \in 1..Len(m.entries) /\ k - 1 = c /\ c \in 0..Len(ents) - 1 /\ k \in 0..Len(m.entries) /\ k + 1 # 1 /\ (k + 1) - 1 = k
    <2>1. c \in Nat /\ c < Len(m.entries)
      BY <1>6, <1>7
    <2> QED BY <1>3, <1>4, <2>1
  <1> HIDE DEF k
  <1>9. /\ h \in BitStrings /\ BitsOf(classes, m)[k] \in BitStrings /\ Starts(h, BitsOf(classes, m)[k])
        /\ ~HasChanges(e) => BitsOf(classes, m)[k] = h
    BY <1>2, <1>8, EntryTrail
  <1>10. Starts(f \o h, w)
    <2>1. Starts(UpTo(classes, m, k - 1) \o h, w)
      <3> DEFINE x == h
      <3>1. x \in BitStrings /\ Starts(x, BitsOf(classes, m)[k])
        BY <1>9
      <3> HIDE DEF x
      <3>2. Starts(UpTo(classes, m, k - 1) \o x, w)
        BY <1>2, <1>8, <3>1, WithinEntry
      <3> QED BY <3>2 DEF x
    <2> QED BY <1>8, <2>1
  <1>11. reading.previous = IdBefore(m, k) /\ KnowsAfter(known, reading.previous)
    BY <1>6 DEF k, Underway
  <1>12. /\ head.r.threw => m.cut > 0
         /\ ~head.r.threw => At(start, w, head.r, f \o h) /\ head.entry = Bare(e)
    <2>1. At(start, w, reader, f)
      BY <1>6 DEF HasRead
    <2> DEFINE d == f
    <2>2. At(start, w, reader, d) /\ Starts(d \o h, w)
      BY <1>10, <2>1
    <2> HIDE DEF d
    <2>3. /\ Header.r.threw => m.cut > 0
          /\ ~Header.r.threw => At(start, w, Header.r, d \o h) /\ Header.entry = Bare(e)
      BY <1>2, <1>8, <1>11, <2>2, HeaderHolds
    <2> QED BY <2>3 DEF d
  <1>13. Bare(e) = Bare(ents[k])
    <2>1. Means(ListOf(classes, m, k), e, ents[k])
      BY <1>2, <1>8, EntsShape DEF ents
    <2> DEFINE x == ents[k]
    <2>2. Means(ListOf(classes, m, k), e, x)
      BY <2>1
    <2> HIDE DEF x, e
    <2>3. x.op = e.op /\ x.id = e.id /\ x.class = e.class /\ x.serial = e.serial
      BY <2>2, MeansFields
    <2> QED BY <2>3, Zenon DEF Bare, x
  <1>14. Append(decoded, Bare(e)) = Sofar(ents, k, 0)
    <2>1. Append(SubSeq(ents, 1, c), Bare(ents[c + 1])) = Sofar(ents, c + 1, 0)
      BY <1>3, <1>8, SofarBegins
    <2> HIDE DEF e
    <2>2. Append(SubSeq(ents, 1, c), Bare(ents[k])) = Sofar(ents, k, 0)
      BY <2>1 DEF k
    <2> QED BY <1>6, <1>13, <2>2
  <1>15. 0 \in 0..Len(ents[k].changes) /\ Len(ents[k].changes) = Len(e.changes)
    <2>1. Means(ListOf(classes, m, k), e, ents[k])
      BY <1>2, <1>8, EntsShape DEF ents
    <2>2. Len(ents[k].changes) = Len(e.changes)
      BY <2>1, Zenon DEF Means
    <2>3. Len(ents[k].changes) \in Nat
      <3>1. k \in 1..Len(ents)
        BY <1>3, <1>8
      <3> QED BY <1>3, <3>1 DEF AreEntries
    <2> QED BY <2>2, <2>3
  <1>16. IF head.r.threw THEN Throws
         ELSE /\ decoded' = Append(decoded, head.entry)
              /\ known' = CASE head.entry.op = "delete" -> [i \in DOMAIN known \ {head.entry.id} |-> known[i]]
                            [] head.entry.op = "enter"  -> [i \in DOMAIN known \cup {head.entry.id} |->
                                                                IF i = head.entry.id THEN head.entry.class ELSE known[i]]
                            [] OTHER                    -> known
              /\ reader' = way
              /\ reading' = Reading(IF HasChanges(head.entry) THEN "indices" ELSE "entry",
                                    head.entry.id, way.value = 1, 0, <<>>)
              /\ stage' = IF way.threw THEN "threw" ELSE stage
    <2> HIDE DEF w, start
    <2> QED BY ZenonT(60) DEF ReadEntry
  <1> HIDE DEF head, way, w, start, f, h, e
  <1>17. CASE head.r.threw
    BY <1>12, <1>16, <1>17, ThrowsStep
  <1>18. CASE ~head.r.threw
    <2>1. At(start, w, head.r, f \o h) /\ head.entry = Bare(e)
      BY <1>12, <1>18
    <2>2. /\ head.entry.op = e.op /\ head.entry.id = e.id /\ head.entry.class = e.class
          /\ (HasChanges(head.entry) <=> HasChanges(e))
      BY <2>1 DEF Bare, HasChanges
    <2>3. decoded' = Sofar(ents, k, 0)
      BY <1>14, <1>16, <1>18, <2>1, Zenon
    <2>4. IdBefore(m, k) \in Int /\ IdBefore(m, k) < e.id /\ e.id \in Nat
      <3>1. SoundMessage(ClassLists(classes), m)
        BY <1>2, SettingHolds
      <3>2. SoundEntry(ClassLists(classes), e, m.newWay, m.form)
        BY <1>8, <3>1, MessageShape DEF e
      <3>3. e.id \in Nat
        BY <3>2, EntryShape
      <3> QED BY <1>8, <3>1, <3>3, IdsAscend DEF e
    <2>5. KnowsAfter(known', e.id)
      <3>1. known' = CASE e.op = "delete" -> [i \in DOMAIN known \ {e.id} |-> known[i]]
                       [] e.op = "enter"  -> [i \in DOMAIN known \cup {e.id} |-> IF i = e.id THEN e.class ELSE known[i]]
                       [] OTHER           -> known
        BY <1>16, <1>18, <2>2, Zenon
      <3>2. KnowsAfter(known, IdBefore(m, k))
        BY <1>11, Zenon
      <3> QED BY <2>4, <3>1, <3>2, KnowsOn
    <2>6. IdBefore(m, k + 1) = e.id
      BY <1>8 DEF IdBefore, e
    <2>7. CASE ~HasChanges(e)
      <3>1. way = Returning(head.r, 0)
        BY <2>2, <2>7, Zenon DEF way, ReadBitIf
      <3>2. At(start, w, way, f \o h) /\ ~way.threw
        BY <1>18, <2>1, <3>1, AtReturning
      <3>3. reader' = way /\ stage' = "message" /\ reading' = Reading("entry", e.id, way.value = 1, 0, <<>>)
        BY <1>16, <1>18, <2>2, <2>7, <3>2
      <3>4. IsReading(reading') /\ reading'.phase = "entry" /\ reading'.previous = e.id
        BY <3>3 DEF Reading, IsReading
      <3>5. UpTo(classes, m, k) = f \o h
        <4>1. UpTo(classes, m, k) = UpTo(classes, m, k - 1) \o BitsOf(classes, m)[k]
          BY <1>2, <1>8, MessageTrail
        <4> QED BY <1>8, <1>9, <2>7, <4>1 DEF f
      <3>6. decoded' = SubSeq(ents, 1, k)
        <4>1. e.changes = <<>>
          <5>1. e.op \in {"delete", "leave", "enter", "update"} /\ (e.op \in {"delete", "leave"} => e.changes = <<>>)
            BY <1>2, <1>8, EntryMeans DEF e
          <5> QED BY <2>7, <5>1 DEF HasChanges
        <4>2. Len(ents[k].changes) = 0
          BY <1>15, <4>1, EmptySeq
        <4>3. k \in 1..Len(ents)
          BY <1>3, <1>8
        <4>4. Sofar(ents, k, Len(ents[k].changes)) = SubSeq(ents, 1, k)
          BY <1>3, <1>15, <4>3, SofarRight
        <4> QED BY <2>3, <4>2, <4>4
      <3>7. HasRead(classes, m, reader', UpTo(classes, m, k))
        BY <3>2, <3>3, <3>5 DEF HasRead, start, w
      <3>8. AtEntry(classes, m, reader', decoded', reading', k)
        BY <1>8, <2>6, <3>4, <3>6, <3>7, Zenon DEF AtEntry, ents
      <3>9. Underway(classes, m, reader', decoded', known', reading')
        <4>1. ~reader'.threw /\ KnowsAfter(known', reading'.previous)
          BY <2>5, <3>2, <3>3, <3>4
        <4> QED BY <3>4, <3>8, <4>1, Zenon DEF Underway
      <3> QED BY <3>3, <3>9 DEF Decoding
    <2>8. CASE HasChanges(e)
      <3> DEFINE b == Bit(m.newWay)
                 ch == e.changes
                 list == ListOf(classes, m, k)
                 x == ToIndex(h, ch, m.newWay, m.form, 0)
      <3>1. /\ Len(ch) \in Nat
            /\ ChangesLieIn(list, ch, m.newWay, m.form, h)
            /\ BitsOf(classes, m)[k] = h \o EncodeChanges(list, ch, m.newWay, m.form)
        BY <1>2, <1>8, <2>8, ChangedEntry DEF e, h
      <3>2. x = h \o b /\ b \in BitStrings
        BY <3>1, Zenon DEF ChangesLieIn
      <3>3. x \in BitStrings /\ Starts(x, BitsOf(classes, m)[k])
        <4>1. 0 \in 0..Len(ch)
          BY <3>1
        <4>2. x \in BitStrings /\ Starts(x, h \o EncodeChanges(list, ch, m.newWay, m.form))
          BY <3>1, <4>1, Zenon DEF ChangesLieIn
        <4> QED BY <3>1, <4>2
      <3>4. AsBit(m.newWay) \in {0, 1} /\ b = <<AsBit(m.newWay)>>
        BY <1>4, SingleBit DEF AsBit, Bit
      <3> HIDE DEF x, b, list, ch
      <3>5. Starts((f \o h) \o b, w) /\ (f \o h) \o b = f \o x
        <4>1. Starts(h \o b, BitsOf(classes, m)[k])
          BY <3>2, <3>3
        <4>2. /\ (UpTo(classes, m, k - 1) \o h) \o b = UpTo(classes, m, k - 1) \o (h \o b)
              /\ Starts((UpTo(classes, m, k - 1) \o h) \o b, w)
          BY <1>2, <1>8, <1>9, <3>2, <4>1, WithinNext DEF w
        <4> QED BY <1>8, <3>2, <4>2 DEF f
      <3> DEFINE d == f \o h
      <3>6. At(start, w, head.r, d) /\ Starts(d \o b, w)
        BY <2>1, <3>5
      <3> HIDE DEF d
      <3>7. Carries(head.r, b) /\ IsReader(head.r)
        BY <3>2, <3>6, AtNext
      <3>8. Reads(head.r, ReadBit(head.r), b, AsBit(m.newWay))
        BY <3>4, <3>7, BitReads
      <3>9. way = ReadBit(head.r)
        BY <2>2, <2>8, Zenon DEF way, ReadBitIf
      <3>10. At(start, w, way, d \o b) /\ (~way.threw => way.value = AsBit(m.newWay))
        <4>1. Reads(head.r, way, b, AsBit(m.newWay))
          BY <3>8, <3>9, Zenon
        <4> QED BY <3>2, <3>6, <4>1, AtThen
      <3>11. way.threw => m.cut > 0
        BY <1>2, <1>4, <3>10, CutShort DEF start
      <3>12. RightEntries(ents, decoded')
        <4>1. k \in 1..Len(ents)
          BY <1>3, <1>8
        <4> QED BY <1>3, <1>15, <2>3, <4>1, SofarRight
      <3>13. CASE way.threw
        <4>1. stage' = "threw"
          BY <1>16, <1>18, <3>13
        <4> QED BY <3>11, <3>12, <3>13, <4>1 DEF Decoding, ents
      <3>14. CASE ~way.threw
        <4>1. way.value = 1 <=> m.newWay
          BY <1>4, <3>10, <3>14 DEF AsBit
        <4>2. /\ reader' = way /\ stage' = "message"
              /\ reading' = Reading("indices", e.id, way.value = 1, 0, <<>>)
          BY <1>16, <1>18, <2>2, <2>8, <3>14
        <4>3. reading' = Reading("indices", e.id, m.newWay, 0, <<>>)
          BY <1>4, <4>1, <4>2
        <4>4. /\ IsReading(reading') /\ reading'.phase = "indices" /\ reading'.previous = e.id
              /\ reading'.newWay = m.newWay /\ reading'.last = 0 /\ reading'.todo = <<>>
          BY <4>3 DEF Reading, IsReading
        <4>5. HasRead(classes, m, reader', f \o x)
          BY <3>5, <3>10, <4>2 DEF HasRead, start, w, d
        <4>6. AtIndex(classes, m, reader', decoded', reading', k, 0)
          <5>1. HasRead(classes, m, reader', UpTo(classes, m, k - 1) \o
                  ToIndex(HeadBits(classes, m, k), m.entries[k].changes, m.newWay, m.form, 0))
            BY <1>8, <4>5, Zenon DEF f, x, h, ch, e
          <5>2. reading'.last = IndexBefore(m.entries[k].changes, 0 + 1)
            BY <4>4 DEF IndexBefore
          <5>3. reading'.todo = SubSeq(Column(m.entries[k].changes), 1, 0)
            BY <4>4, SubSeqEmpty
          <5>4. 0 \in 0..Len(m.entries[k].changes) /\ HasChanges(m.entries[k])
            BY <1>15, <2>8 DEF e
          <5>5. decoded' = Sofar(Ents(classes, m), k, 0) /\ reading'.previous = IdBefore(m, k + 1)
            BY <2>3, <2>6, <4>4 DEF ents
          <5> QED BY <1>8, <4>4, <5>1, <5>2, <5>3, <5>4, <5>5, Zenon DEF AtIndex
        <4>7. ~reader'.threw /\ KnowsAfter(known', reading'.previous)
          BY <2>5, <3>14, <4>2, <4>4
        <4>8. Underway(classes, m, reader', decoded', known', reading')
          BY <4>4, <4>6, <4>7, Zenon DEF Underway
        <4> QED BY <4>2, <4>8 DEF Decoding
      <3> QED BY <3>13, <3>14
    <2> QED BY <2>7, <2>8
  <1> QED BY <1>17, <1>18

LEMMA SendStep ==
  ASSUME classes \in ParsedClasses, decoded = <<>>, Send(ClassLists(classes))
  PROVE  \E m : Decoding(classes, m, sent', reader', decoded', known', reading', stage')
  <1>1. PICK m \in Messages(ClassLists(classes)) :
          /\ sent' = [lists |-> ClassLists(classes), newWay |-> m.newWay, form |-> m.form, cut |-> m.cut,
                      entries |-> [k \in DOMAIN m.entries |-> Meant(ClassLists(classes), m.entries[k])]]
          /\ reader' = Reader(Encode(ClassLists(classes), ClassIdBits(Len(classes)), m))
          /\ reader'.bits # <<>>
    BY Zenon DEF Send
  <1>2. known' = Known /\ reading' = NotReading /\ stage' = "message" /\ decoded' = <<>>
    BY DEF Send
  <1>3. Setting(classes, m)
    BY DEF Setting
  <1> DEFINE w == AllBits(classes, m)
             ents == Ents(classes, m)
  <1>4. reader' = Reader(Padded(w, m.cut))
    BY <1>1, EncodeIs, Zenon
  <1>5. w \in BitStrings /\ UpTo(classes, m, 0) = <<>>
    BY <1>3, MessageTrail
  <1>6. m.cut \in Nat /\ 0 \in 0..Len(m.entries)
    BY <1>3, SettingHolds, MessageShape
  <1> HIDE DEF w
  <1>7. Padded(w, m.cut) # <<>>
    <2> DEFINE x == Padded(w, m.cut)
    <2>1. Reader(x).bits # <<>>
      BY <1>1, <1>4
    <2> HIDE DEF x
    <2>2. Reader(x).bits = x
      BY DEF Reader
    <2>3. x # <<>>
      BY <2>1, <2>2, Zenon
    <2> QED BY <2>3 DEF x
  <1>8. At(Reader(Padded(w, m.cut)), w, reader', <<>>) /\ ~reader'.threw
    BY <1>4, <1>5, <1>6, <1>7, AtStart
  <1>9. HasRead(classes, m, reader', UpTo(classes, m, 0))
    BY <1>5, <1>8 DEF HasRead, w
  <1>10. WasSent(classes, m, sent')
    BY <1>1, <1>3, <1>7, Zenon DEF WasSent, Ents, w
  <1>11. IsReading(reading') /\ reading'.phase = "entry" /\ reading'.previous = -1
    BY <1>2 DEF IsReading, NotReading, Reading
  <1>12. AtEntry(classes, m, reader', decoded', reading', 0)
    <2>1. reading'.previous = IdBefore(m, 0 + 1)
      BY <1>11 DEF IdBefore
    <2>2. decoded' = SubSeq(Ents(classes, m), 1, 0)
      BY <1>2, SubSeqEmpty
    <2> QED BY <1>6, <1>9, <1>11, <2>1, <2>2, Zenon DEF AtEntry
  <1>13. KnowsAfter(known', reading'.previous)
    BY <1>2 DEF KnowsAfter
  <1>14. Underway(classes, m, reader', decoded', known', reading')
    BY <1>8, <1>11, <1>12, <1>13, Zenon DEF Underway
  <1>15. Decoding(classes, m, sent', reader', decoded', known', reading', stage')
    BY <1>2, <1>10, <1>14 DEF Decoding
  <1> QED BY <1>15

\* The inductive invariant: a message that was sent is being decoded, and the reader
\* stands where the entries, indices and values read so far end in its bits.
DeltasInv ==
  /\ classes \in ParsedClasses
  /\ \/ stage = "parsed" /\ sent = None /\ decoded = <<>>
     \/ \E m : Decoding(classes, m, sent, reader, decoded, known, reading, stage)

LEMMA DeltasInvStarts == InitParsed => DeltasInv
  BY DEF InitParsed, InitDeltas, DeltasInv

LEMMA DeltasInvStays ==
  ASSUME DeltasInv, [NextParsed]_<<classes, stage, deltaVars>>
  PROVE  DeltasInv'
  <1>1. CASE UNCHANGED <<classes, stage, deltaVars>>
    BY <1>1 DEF DeltasInv, deltaVars
  <1>2. CASE Send(ClassLists(classes))
    <2>1. stage = "parsed" /\ classes' = classes
      BY <1>2 DEF Send
    <2>2. classes \in ParsedClasses /\ decoded = <<>>
      BY <2>1 DEF DeltasInv, Decoding
    <2>3. PICK m : Decoding(classes, m, sent', reader', decoded', known', reading', stage')
      BY <1>2, <2>2, SendStep
    <2> QED BY <2>1, <2>2, <2>3 DEF DeltasInv
  <1>3. CASE Decode
    <2>1. stage = "message" /\ classes' = classes /\ sent' = sent
      BY <1>3 DEF Decode
    <2>2. classes \in ParsedClasses
      BY DEF DeltasInv
    <2>3. PICK m : Decoding(classes, m, sent, reader, decoded, known, reading, stage)
      BY <2>1 DEF DeltasInv
    <2>4. WasSent(classes, m, sent) /\ Underway(classes, m, reader, decoded, known, reading)
      BY <2>1, <2>3 DEF Decoding
    <2>5. Decoding(classes, m, sent, reader', decoded', known', reading', stage')
      <3>1. CASE ReadEntry
        BY <2>1, <2>4, <3>1, EntryStep
      <3>2. CASE ReadIndex
        BY <2>1, <2>4, <3>2, IndexStep
      <3>3. CASE ReadValue
        BY <2>1, <2>4, <3>3, ValueStep
      <3>4. CASE EndEntry
        BY <2>1, <2>4, <3>4, EndEntryStep
      <3>5. CASE EndMessage
        BY <2>4, <3>5, EndMessageStep
      <3> QED BY <1>3, <3>1, <3>2, <3>3, <3>4, <3>5 DEF Decode
    <2> QED BY <2>1, <2>2, <2>5, Zenon DEF DeltasInv
  <1> QED BY <1>1, <1>2, <1>3 DEF NextParsed

LEMMA DeltasInvSays ==
  ASSUME DeltasInv
  PROVE  DeltaRoundTrip
  <1>1. CASE sent = None
    BY <1>1 DEF DeltaRoundTrip
  <1>2. CASE sent # None
    <2>1. PICK m : Decoding(classes, m, sent, reader, decoded, known, reading, stage)
      BY <1>2 DEF DeltasInv
    <2> DEFINE ents == Ents(classes, m)
    <2>2. sent.entries = ents /\ sent.cut = m.cut
      BY <2>1 DEF Decoding, WasSent
    <2>3. RightEntries(ents, decoded)
      <3>1. Setting(classes, m)
        BY <2>1 DEF Decoding, WasSent
      <3>2. CASE stage = "message"
        BY <2>1, <3>1, <3>2, UnderwayRight DEF Decoding
      <3>3. CASE stage = "threw"
        BY <2>1, <3>3 DEF Decoding
      <3>4. CASE stage = "decoded"
        <4>1. decoded = ents
          BY <2>1, <3>4 DEF Decoding
        <4>2. AreEntries(ents)
          BY <3>1, EntsShape
        <4> HIDE DEF ents
        <4>3. Len(ents) \in 0..Len(ents)
          BY <4>2 DEF AreEntries
        <4> QED BY <4>1, <4>2, <4>3, WholeRight
      <3> QED BY <2>1, <3>2, <3>3, <3>4 DEF Decoding
    <2>4. (stage = "decoded" => m.cut = 0 /\ decoded = ents) /\ (stage = "threw" => m.cut > 0)
      BY <2>1 DEF Decoding
    <2> HIDE DEF ents
    <2> QED BY <2>2, <2>3, <2>4 DEF RightEntries, DeltaRoundTrip
  <1> QED BY <1>1, <1>2

\* decodePacketEntities takes out of entity_data what the server put into it, for every
\* set of classes and every message with room in the encodings: entry by entry and prop
\* by prop, and a message that was cut short throws behind right values.
THEOREM DeltasRoundTrip == ParsedSpec => []DeltaRoundTrip
  <1>1. InitParsed => DeltasInv
    BY DeltasInvStarts
  <1>2. DeltasInv /\ [NextParsed]_<<classes, stage, deltaVars>> => DeltasInv'
    BY DeltasInvStays
  <1>3. DeltasInv => DeltaRoundTrip
    BY DeltasInvSays
  <1> QED BY <1>1, <1>2, <1>3, PTL DEF ParsedSpec

-----------------------------------------------------------------------------
(* The overlays. *)

\* The changes of an entity whose class has this list.
OfList(list, changes) ==
  /\ Len(list) \in Nat /\ DOMAIN list = 1..Len(list)
  /\ Len(changes) \in Nat /\ DOMAIN changes = 1..Len(changes)
  /\ \A c \in DOMAIN changes : \E n \in DOMAIN list : changes[c][1] = list[n] /\ FitsProp(list[n], changes[c][2])

LEMMA LatestIn ==
  ASSUME NEW n \in Nat, NEW S \in SUBSET (1..n), S # {}
  PROVE  Latest(S) \in S
  <1> DEFINE G == {m \in 0..n : S \cap (1..m) # {} => \E c \in S : \A d \in S \cap (1..m) : d <= c}
  <1>1. 0 \in G
    OBVIOUS
  <1>2. ASSUME NEW i \in 0..n - 1, i \in G PROVE i + 1 \in G
    <2>1. i + 1 \in 0..n /\ S \cap (1..i + 1) \subseteq (S \cap (1..i)) \cup {i + 1}
      OBVIOUS
    <2>2. CASE i + 1 \in S
      <3>1. \A d \in S \cap (1..i + 1) : d <= i + 1
        OBVIOUS
      <3> QED BY <2>1, <2>2, <3>1
    <2>3. CASE i + 1 \notin S
      <3>1. S \cap (1..i + 1) = S \cap (1..i)
        BY <2>1, <2>3
      <3> QED BY <1>2, <2>1, <3>1
    <2> QED BY <2>2, <2>3
  <1> HIDE DEF G
  <1>3. \A i \in 0..n : i \in G
    BY <1>1, <1>2, IntervalInduction
  <1>4. n \in G
    BY <1>3
  <1>5. \E c \in S : \A d \in S \cap (1..n) : d <= c
    BY <1>4 DEF G
  <1>6. \E c \in S : \A d \in S : d <= c
    BY <1>5
  <1> QED BY <1>6, Zenon DEF Latest

\* A prop that is found by what no other prop of the list has: its changes, and its place
\* in the row.
LEMMA RowHolds ==
  ASSUME NEW list, NEW changes, OfList(list, changes), NEW i \in DOMAIN list,
         NEW found, found = {c \in DOMAIN changes : changes[c][1] = list[i]}, NEW row, row = RowOf(list, changes)
  PROVE  /\ i \in DOMAIN row <=> found # {}
         /\ found # {} => row[i] = changes[Latest(found)][2] /\ FitsProp(list[i], row[i])
  <1> DEFINE D == {j \in DOMAIN list : \E c \in DOMAIN changes : changes[c][1] = list[j]}
  <1>1. row = [j \in D |-> changes[Latest({c \in DOMAIN changes : changes[c][1] = list[j]})][2]]
    BY DEF RowOf
  <1>2. i \in D <=> found # {}
    OBVIOUS
  <1> HIDE DEF D
  <1>3. i \in DOMAIN row <=> found # {}
    BY <1>1, <1>2
  <1>4. ASSUME found # {} PROVE row[i] = changes[Latest(found)][2] /\ FitsProp(list[i], row[i])
    <2>1. row[i] = changes[Latest(found)][2]
      BY <1>1, <1>2, <1>4
    <2>2. Latest(found) \in found
      <3>1. found \in SUBSET (1..Len(changes)) /\ Len(changes) \in Nat
        BY DEF OfList
      <3> QED BY <1>4, <3>1, LatestIn
    <2> DEFINE c == Latest(found)
    <2> HIDE DEF c
    <2>3. c \in DOMAIN changes /\ changes[c][1] = list[i]
      BY <2>2 DEF c
    <2>4. FitsProp(list[i], changes[c][2])
      BY <2>3, Zenon DEF OfList
    <2> QED BY <2>1, <2>4 DEF c
  <1> QED BY <1>3, <1>4

LEMMA FirstOfOne ==
  ASSUME NEW i \in Int
  PROVE  (CHOOSE j \in {i} : \A k \in {i} : j <= k) = i
  <1>1. \E j \in {i} : \A k \in {i} : j <= k
    OBVIOUS
  <1> QED BY <1>1

\* A getter finds the prop it is about.
LEMMA GetterFinds ==
  ASSUME NEW list, Len(list) \in Nat, DOMAIN list = 1..Len(list), NEW o, HasProp(list, o)
  PROVE  LET i == IndexOf(list, o)
         IN /\ i \in DOMAIN list /\ i # 0
            /\ list[i].prop.type \in Types(o.as)
            /\ \A j \in DOMAIN list : Matches(list[j], o.name, TableOf(list, o)) <=> list[j] = list[i]
  <1>1. PICK i \in DOMAIN list, table \in {o.table, o.instead} :
          /\ {j \in DOMAIN list : Matches(list[j], o.name, table)} = {i}
          /\ list[i].prop.type \in Types(o.as)
          /\ table # o.table => /\ AnyTable \notin {o.table, o.instead}
                                /\ {j \in DOMAIN list : Matches(list[j], o.name, o.table)} = {}
          /\ o.table = AnyTable => o.instead = AnyTable
    BY Zenon DEF HasProp
  <1>2. i \in Nat /\ i # 0
    OBVIOUS
  <1>3. FindIdx(list, o.name, table) = i
    <2>1. FindIdx(list, o.name, table) = CHOOSE j \in {i} : \A k \in {i} : j <= k
      BY <1>1, Zenon DEF FindIdx
    <2> QED BY <1>2, <2>1, FirstOfOne
  <1>4. IndexOf(list, o) = i
    <2>1. CASE table = o.table
      BY <1>2, <1>3, <2>1 DEF IndexOf, FindIdxFallback
    <2>2. CASE table # o.table
      <3>1. FindIdx(list, o.name, o.table) = 0
        BY <1>1, <2>2, Zenon DEF FindIdx
      <3>2. o.instead # AnyTable /\ table = o.instead
        BY <1>1, <2>2
      <3> QED BY <1>3, <3>1, <3>2 DEF IndexOf, FindIdxFallback
    <2> QED BY <2>1, <2>2
  <1>5. TableOf(list, o) = table
    <2>1. CASE table # o.table
      <3>1. o.table # AnyTable /\ table = o.instead /\ \A j \in DOMAIN list : ~Matches(list[j], o.name, o.table)
        BY <1>1, <2>1
      <3>2. ~ \E leaf \in Range(list) : leaf.prop.varName = o.name /\ leaf.source = o.table
        BY <3>1 DEF Range, Matches
      <3> QED BY <3>1, <3>2, Zenon DEF TableOf
    <2>2. CASE table = o.table
      <3>1. CASE o.table = AnyTable
        BY <1>1, <2>2, <3>1, Zenon DEF TableOf
      <3>2. CASE o.table # AnyTable
        <4>1. Matches(list[i], o.name, o.table)
          BY <1>1, <2>2
        <4>2. list[i].prop.varName = o.name /\ list[i].source = o.table
          BY <3>2, <4>1 DEF Matches
        <4>3. list[i] \in Range(list)
          BY DEF Range
        <4> QED BY <2>2, <4>2, <4>3, Zenon DEF TableOf
      <3> QED BY <3>1, <3>2
    <2> QED BY <2>1, <2>2
  <1>6. \A j \in DOMAIN list : Matches(list[j], o.name, table) <=> list[j] = list[i]
    <2> TAKE j \in DOMAIN list
    <2>1. Matches(list[i], o.name, table)
      BY <1>1
    <2>2. Matches(list[j], o.name, table) => j = i
      BY <1>1
    <2>3. list[j] = list[i] => Matches(list[j], o.name, table)
      BY <2>1, Zenon
    <2> QED BY <2>2, <2>3
  <1> QED BY <1>1, <1>2, <1>4, <1>5, <1>6

LEMMA GetterShows ==
  ASSUME NEW list, NEW changes, OfList(list, changes), NEW o, HasProp(list, o), NEW row, row = RowOf(list, changes)
  PROVE  /\ IndexOf(list, o) # 0
         /\ Value(o, list, row) = Shows(o.as, LastSent(changes, o.name, {TableOf(list, o)}, ZeroOf(o.as)))
  <1> DEFINE i == IndexOf(list, o)
             table == TableOf(list, o)
             found == {c \in DOMAIN changes : changes[c][1] = list[i]}
  <1>1. /\ i \in DOMAIN list /\ i # 0
        /\ list[i].prop.type \in Types(o.as)
        /\ \A j \in DOMAIN list : Matches(list[j], o.name, table) <=> list[j] = list[i]
    BY GetterFinds DEF OfList
  <1> HIDE DEF i, table
  <1>2. found = {c \in DOMAIN changes : \E t \in {table} : Matches(changes[c][1], o.name, t)}
    <2>1. ASSUME NEW c \in DOMAIN changes
          PROVE  changes[c][1] = list[i] <=> Matches(changes[c][1], o.name, table)
      <3>1. PICK j \in DOMAIN list : changes[c][1] = list[j]
        BY <2>1, Zenon DEF OfList
      <3> QED BY <1>1, <3>1, Zenon
    <2> QED BY <2>1
  <1> HIDE DEF found
  <1>3. /\ i \in DOMAIN row <=> found # {}
        /\ found # {} => row[i] = changes[Latest(found)][2] /\ FitsProp(list[i], row[i])
    BY <1>1, RowHolds DEF found
  <1> DEFINE sentAs == LastSent(changes, o.name, {table}, ZeroOf(o.as))
             type == list[i].prop.type
  <1>4. sentAs = IF found = {} THEN ZeroOf(o.as) ELSE changes[Latest(found)][2]
    BY <1>2, Zenon DEF LastSent
  <1>5. CASE found = {}
    <2>1. i \notin DOMAIN row /\ sentAs = ZeroOf(o.as)
      BY <1>3, <1>4, <1>5
    <2> HIDE DEF sentAs
    <2>2. o.as \in {"number", "isSet", "isZero", "text", "pair", "list"}
      BY <1>1 DEF Types
    <2> QED BY <1>1, <2>1, <2>2 DEF Value, i, ReadNum, ReadString, ReadPair, ReadList, Written, Shows, ZeroOf, sentAs, table
  <1>6. CASE found # {}
    <2>1. i \in DOMAIN row /\ sentAs = row[i] /\ FitsProp(list[i], row[i])
      BY <1>3, <1>4, <1>6
    <2> HIDE DEF sentAs
    <2>2. o.as \in {"number", "isSet", "isZero", "text", "pair", "list"}
      BY <1>1 DEF Types
    <2>3. o.as = "pair" => row[i] = <<row[i][1], row[i][2]>>
      <3> SUFFICES ASSUME o.as = "pair" PROVE row[i] = <<row[i][1], row[i][2]>>
        OBVIOUS
      <3>1. type = "VECTORXY"
        BY <1>1 DEF Types
      <3> QED BY <2>1, <3>1 DEF FitsProp, FitsScalar
    <2>4. /\ o.as \in {"number", "isSet", "isZero"} => type \in {"INT", "FLOAT"}
          /\ o.as = "text" => type = "STRING"
          /\ o.as = "pair" => type = "VECTORXY"
          /\ o.as = "list" => type = "ARRAY"
      BY <1>1 DEF Types
    <2> DEFINE v == row[i]
    <2>5. CASE o.as \in {"number", "isSet", "isZero"}
      <3>1. ReadNum(list, row, i) = v
        BY <2>1, <2>4, <2>5 DEF ReadNum, Written
      <3> HIDE DEF v
      <3> QED BY <1>1, <2>1, <2>5, <3>1 DEF Value, Shows, i, v, sentAs, table
    <2>6. CASE o.as = "text"
      <3>1. ReadString(list, row, i) = v
        BY <2>1, <2>4, <2>6 DEF ReadString, Written
      <3> QED BY <1>1, <2>1, <2>6, <3>1 DEF Value, Shows, i, sentAs, table
    <2>7. CASE o.as = "pair"
      <3>1. ReadPair(list, row, i) = v
        BY <2>1, <2>3, <2>4, <2>7 DEF ReadPair, Written
      <3> QED BY <1>1, <2>1, <2>7, <3>1 DEF Value, Shows, i, sentAs, table
    <2>8. CASE o.as = "list"
      <3>1. ReadList(list, row, i) = v
        BY <2>1, <2>4, <2>8 DEF ReadList, Written
      <3> QED BY <1>1, <2>1, <2>8, <3>1 DEF Value, Shows, i, sentAs, table
    <2> QED BY <2>2, <2>5, <2>6, <2>7, <2>8
  <1> QED BY <1>1, <1>5, <1>6 DEF i

LEMMA LatestOfOne ==
  ASSUME NEW i \in Int
  PROVE  Latest({i}) = i
  <1>1. \E j \in {i} : \A k \in {i} : k <= j
    OBVIOUS
  <1> QED BY <1>1 DEF Latest

\* The stats of a slot.
LEMMA SlotShows ==
  ASSUME NEW list, NEW changes, OfList(list, changes), HasSlots(list), NEW row, row = RowOf(list, changes),
         NEW stat \in Range(PlayerResource)
  PROVE  /\ \A slot \in 0..(MaxPlayerSlots - 1) : ResolveSlots(list, stat)[slot] # 0
         /\ \A name \in DOMAIN SlotNames : stat # AnyTable =>
              ForSlot(stat, list, row, SlotNames[name]) =
                IF SlotNames[name] < MaxPlayerSlots THEN LastSent(changes, name, {stat}, 0) ELSE 0
  <1> DEFINE R == ResolveSlots(list, stat)
  <1>1. DOMAIN R = 0..(MaxPlayerSlots - 1) /\ MaxPlayerSlots \in Nat
    BY OverlaysAssumption DEF ResolveSlots
  <1>2. ASSUME NEW slot \in 0..(MaxPlayerSlots - 1)
        PROVE  /\ R[slot] \in DOMAIN list /\ R[slot] # 0 /\ list[R[slot]].prop.type \in {"INT", "FLOAT"}
               /\ {j \in DOMAIN list : IsSlot(list[j], stat, slot)} = {R[slot]}
    <2>1. PICK i \in DOMAIN list : /\ {j \in DOMAIN list : IsSlot(list[j], stat, slot)} = {i}
                                   /\ list[i].prop.type \in {"INT", "FLOAT"}
      BY Zenon DEF HasSlots
    <2>2. i \in Nat /\ i # 0
      BY DEF OfList
    <2>3. R[slot] = LET found == {j \in DOMAIN list : IsSlot(list[j], stat, slot)}
                    IN IF found = {} THEN 0 ELSE Latest(found)
      BY Zenon DEF ResolveSlots
    <2>4. R[slot] = i
      <3>1. R[slot] = Latest({i})
        BY <2>1, <2>3, Zenon
      <3> QED BY <2>2, <3>1, LatestOfOne
    <2> QED BY <2>1, <2>2, <2>4
  <1>3. ASSUME NEW name \in DOMAIN SlotNames, stat # AnyTable
        PROVE  ForSlot(stat, list, row, SlotNames[name]) =
                 IF SlotNames[name] < MaxPlayerSlots THEN LastSent(changes, name, {stat}, 0) ELSE 0
    <2> DEFINE slot == SlotNames[name]
               i == R[slot]
               found == {c \in DOMAIN changes : changes[c][1] = list[i]}
    <2>1. slot \in Nat /\ \A other \in DOMAIN SlotNames : SlotNames[other] = slot => other = name
      BY OverlaysAssumption
    <2>2. CASE ~(slot < MaxPlayerSlots)
      <3>1. slot \notin 0..(MaxPlayerSlots - 1)
        BY <1>1, <2>1, <2>2
      <3> HIDE DEF slot
      <3> QED BY <1>1, <2>2, <3>1 DEF ForSlot, ReadSlot, slot
    <2>3. CASE slot < MaxPlayerSlots
      <3>1. slot \in 0..(MaxPlayerSlots - 1)
        BY <1>1, <2>1, <2>3
      <3>2. /\ i \in DOMAIN list /\ i # 0 /\ list[i].prop.type \in {"INT", "FLOAT"}
            /\ {j \in DOMAIN list : IsSlot(list[j], stat, slot)} = {i}
        BY <1>2, <3>1
      <3>3. ForSlot(stat, list, row, slot) = ReadNum(list, row, i)
        <4> HIDE DEF slot
        <4> QED BY <1>1, <3>1 DEF ForSlot, ReadSlot
      <3> HIDE DEF i, R
      <3>4. \A j \in DOMAIN list : Matches(list[j], name, stat) <=> IsSlot(list[j], stat, slot)
        BY <1>3, <2>1 DEF Matches, IsSlot
      <3> HIDE DEF slot
      <3>5. \A j \in DOMAIN list : Matches(list[j], name, stat) <=> list[j] = list[i]
        <4> TAKE j \in DOMAIN list
        <4>1. IsSlot(list[i], stat, slot) /\ (IsSlot(list[j], stat, slot) => j = i)
          BY <3>2
        <4>2. list[j] = list[i] => IsSlot(list[j], stat, slot)
          BY <4>1, Zenon
        <4> QED BY <3>4, <4>1, <4>2
      <3>6. found = {c \in DOMAIN changes : \E t \in {stat} : Matches(changes[c][1], name, t)}
        <4>1. ASSUME NEW c \in DOMAIN changes
              PROVE  changes[c][1] = list[i] <=> Matches(changes[c][1], name, stat)
          <5>1. PICK j \in DOMAIN list : changes[c][1] = list[j]
            BY <4>1, Zenon DEF OfList
          <5> QED BY <3>5, <5>1, Zenon
        <4> QED BY <4>1
      <3> HIDE DEF found
      <3>7. /\ i \in DOMAIN row <=> found # {}
            /\ found # {} => row[i] = changes[Latest(found)][2]
        BY <3>2, RowHolds DEF found
      <3>8. LastSent(changes, name, {stat}, 0) = IF found = {} THEN 0 ELSE changes[Latest(found)][2]
        BY <3>6, Zenon DEF LastSent
      <3>9. ReadNum(list, row, i) = IF found = {} THEN 0 ELSE changes[Latest(found)][2]
        BY <3>2, <3>7 DEF ReadNum, Written
      <3> QED BY <2>3, <3>3, <3>8, <3>9 DEF slot
    <2> QED BY <2>2, <2>3
  <1> QED BY <1>2, <1>3

LEMMA StatsNamed == \A stat \in Range(PlayerResource) : stat # AnyTable
  <1>1. Range(PlayerResource) \subseteq {"m_iKills", "m_iDeaths", "m_iAssists", "m_iScore", "m_iPing"}
    BY DEF Range, PlayerResource
  <1>2. /\ "m_iKills" # AnyTable /\ "m_iDeaths" # AnyTable /\ "m_iAssists" # AnyTable
        /\ "m_iScore" # AnyTable /\ "m_iPing" # AnyTable
    BY Zenon DEF AnyTable
  <1> QED BY <1>1, <1>2

\* An entity that entered, once its message is decoded.
LEMMA EnteredMeans ==
  ASSUME DeltasInv, NEW k \in EnteredEntries
  PROVE  LET class == ClassOf(k)
             list == class.flattenedProps
             changes == decoded[k].changes
         IN /\ decoded = sent.entries /\ OfList(list, changes)
            /\ sent.lists[decoded[k].class] = list
            /\ \A g \in DOMAIN OverlayOf(class) : HasProp(list, OverlayOf(class)[g])
            /\ class.name = "CCSPlayerResource" => HasSlots(list)
  <1>1. stage = "decoded" /\ k \in DOMAIN decoded /\ decoded[k].op = "enter"
    BY DEF EnteredEntries
  <1>2. PICK m : Decoding(classes, m, sent, reader, decoded, known, reading, stage)
    BY <1>1 DEF DeltasInv
  <1>3. /\ Setting(classes, m) /\ decoded = Ents(classes, m)
        /\ sent.entries = Ents(classes, m) /\ sent.lists = ClassLists(classes)
    BY <1>1, <1>2 DEF Decoding, WasSent
  <1>4. DOMAIN m.entries = 1..Len(m.entries) /\ k \in 1..Len(m.entries)
    <2>1. DOMAIN m.entries = 1..Len(m.entries)
      BY <1>3, SettingHolds, MessageShape
    <2> QED BY <1>1, <1>3, <2>1 DEF Ents
  <1> DEFINE e == m.entries[k]
             x == decoded[k]
             list == ListOf(classes, m, k)
             ch == e.changes
  <1>5. Means(list, e, x)
    BY <1>3, <1>4, EntsShape
  <1>6. x.op = e.op /\ x.class = e.class
    <2> HIDE DEF x, e, list
    <2> QED BY <1>5, MeansFields
  <1>7. /\ Len(x.changes) = Len(ch) /\ Len(x.changes) \in Nat /\ x.changes \in Seq(Range(x.changes))
        /\ \A i \in 1..Len(ch) : x.changes[i] = <<list[ch[i][1]], ch[i][2]>>
    BY <1>5, Zenon DEF Means
  <1>8. /\ e.class \in DOMAIN ClassLists(classes) /\ SoundClasses(classes)
        /\ SoundChanges(ClassLists(classes)[e.class], ch, m.newWay, m.form)
    BY <1>1, <1>3, <1>4, <1>6, EntryMeans, SettingHolds
  <1>9. /\ e.class + 1 \in DOMAIN classes /\ ClassLists(classes)[e.class] = classes[e.class + 1].flattenedProps
        /\ ClassLists(classes)[e.class] \in Seq(Range(ClassLists(classes)[e.class]))
    BY <1>8, ClassFits
  <1>10. classes[e.class + 1].sendTable # None
    <2>1. PICK i \in {j \in DOMAIN classes : classes[j].sendTable # None} : e.class = i - 1
      BY <1>8 DEF ClassLists
    <2>2. i \in Int
      BY <1>3, <2>1, SettingHolds
    <2>3. e.class + 1 = i
      BY <2>1, <2>2
    <2> QED BY <2>1, <2>3
  <1>11. list = ClassOf(k).flattenedProps /\ list = ClassLists(classes)[e.class] /\ ClassOf(k) = classes[e.class + 1]
    BY <1>6, <1>9, Zenon DEF ListOf, ClassOf
  <1> HIDE DEF list, ch, x, e
  <1>12. OfList(list, x.changes)
    <2>1. Len(list) \in Nat /\ DOMAIN list = 1..Len(list)
      BY <1>9, <1>11, LenProperties
    <2>2. /\ DOMAIN ch = 1..Len(ch)
          /\ \A i \in 1..Len(ch) : ch[i][1] \in DOMAIN list /\ FitsProp(list[ch[i][1]], ch[i][2])
      <3>1. m.newWay \in BOOLEAN
        BY <1>3, SettingHolds, MessageShape
      <3>2. SoundChanges(list, ch, m.newWay, m.form)
        BY <1>8, <1>11
      <3>3. DOMAIN ch = 1..Len(ch)
        BY <3>1, <3>2, ChangesShape
      <3> QED BY <3>2, <3>3, Zenon DEF SoundChanges
    <2>3. DOMAIN x.changes = 1..Len(x.changes)
      <3> DEFINE s == x.changes
      <3>1. s \in Seq(Range(s))
        BY <1>7
      <3> HIDE DEF s
      <3>2. DOMAIN s = 1..Len(s)
        BY <3>1, LenProperties
      <3> QED BY <3>2 DEF s
    <2>4. ASSUME NEW c \in 1..Len(ch)
          PROVE  \E n \in DOMAIN list : x.changes[c][1] = list[n] /\ FitsProp(list[n], x.changes[c][2])
      <3>1. x.changes[c] = <<list[ch[c][1]], ch[c][2]>>
        BY <1>7
      <3>2. ch[c][1] \in DOMAIN list /\ FitsProp(list[ch[c][1]], ch[c][2])
        BY <2>2
      <3>3. x.changes[c][1] = list[ch[c][1]] /\ x.changes[c][2] = ch[c][2]
        BY <3>1
      <3> QED BY <3>2, <3>3, Zenon
    <2> QED BY <1>7, <2>1, <2>3, <2>4 DEF OfList
  <1>13. classes \in ParsedClasses
    BY DEF DeltasInv
  <1>14. /\ \A g \in DOMAIN OverlayOf(ClassOf(k)) : HasProp(list, OverlayOf(ClassOf(k))[g])
         /\ ClassOf(k).name = "CCSPlayerResource" => HasSlots(list)
    <2> DEFINE i == e.class + 1
    <2>1. i \in DOMAIN classes /\ classes[i].sendTable # None /\ ClassOf(k) = classes[i]
      BY <1>9, <1>10, <1>11
    <2> HIDE DEF i
    <2>2. /\ \A g \in DOMAIN OverlayOf(classes[i]) : HasProp(classes[i].flattenedProps, OverlayOf(classes[i])[g])
          /\ classes[i].name = "CCSPlayerResource" => HasSlots(classes[i].flattenedProps)
      BY <1>13, <2>1, OverlaysAssumption, Zenon
    <2> QED BY <1>11, <2>1, <2>2
  <1>15. sent.lists[x.class] = list
    BY <1>3, <1>6, <1>11
  <1> QED BY <1>3, <1>11, <1>12, <1>14, <1>15, Zenon DEF x

LEMMA DeltasInvShows ==
  ASSUME DeltasInv
  PROVE  ViewsShowWhatWasSent
  <1> SUFFICES ASSUME NEW k \in EnteredEntries
               PROVE  LET list == ClassOf(k).flattenedProps
                          row == RowOf(list, decoded[k].changes)
                          overlay == OverlayOf(ClassOf(k))
                      IN /\ Constructs(overlay, list)
                         /\ \A g \in DOMAIN overlay :
                              LET o == overlay[g]
                              IN Snapshot(overlay, list, row)[g] =
                                   Shows(o.as, SentAs(k, o.name, {TableOf(sent.lists[decoded[k].class], o)}, ZeroOf(o.as)))
                         /\ ClassOf(k).name = "CCSPlayerResource" =>
                              /\ ResourceConstructs(list)
                              /\ \A stat \in Range(PlayerResource), name \in DOMAIN SlotNames :
                                   ForSlot(stat, list, row, SlotNames[name]) =
                                     IF SlotNames[name] < MaxPlayerSlots THEN SentAs(k, name, {stat}, 0) ELSE 0
    BY Zenon DEF ViewsShowWhatWasSent
  <1> DEFINE class == ClassOf(k)
             list == class.flattenedProps
             changes == decoded[k].changes
             row == RowOf(list, changes)
             overlay == OverlayOf(class)
  <1>1. /\ decoded = sent.entries /\ OfList(list, changes) /\ sent.lists[decoded[k].class] = list
        /\ \A g \in DOMAIN overlay : HasProp(list, overlay[g])
        /\ class.name = "CCSPlayerResource" => HasSlots(list)
    BY EnteredMeans
  <1>2. \A name, tables, zero : SentAs(k, name, tables, zero) = LastSent(changes, name, tables, zero)
    BY <1>1, Zenon DEF SentAs
  <1> HIDE DEF class, list, changes, row, overlay
  <1>3. ASSUME NEW g \in DOMAIN overlay
        PROVE  /\ IndexOf(list, overlay[g]) # 0
               /\ Value(overlay[g], list, row)
                    = Shows(overlay[g].as, LastSent(changes, overlay[g].name, {TableOf(list, overlay[g])}, ZeroOf(overlay[g].as)))
    <2> DEFINE o == overlay[g]
    <2>1. HasProp(list, o) /\ row = RowOf(list, changes)
      BY <1>1, <1>3 DEF row
    <2> HIDE DEF o
    <2>2. /\ IndexOf(list, o) # 0
          /\ Value(o, list, row) = Shows(o.as, LastSent(changes, o.name, {TableOf(list, o)}, ZeroOf(o.as)))
      BY <1>1, <2>1, GetterShows
    <2> QED BY <2>2 DEF o
  <1>4. Constructs(overlay, list)
    BY <1>3 DEF Constructs
  <1>5. ASSUME NEW g \in DOMAIN overlay
        PROVE  LET o == overlay[g]
               IN Snapshot(overlay, list, row)[g] =
                    Shows(o.as, SentAs(k, o.name, {TableOf(sent.lists[decoded[k].class], o)}, ZeroOf(o.as)))
    <2>1. Snapshot(overlay, list, row)[g] = Value(overlay[g], list, row)
      BY <1>5 DEF Snapshot
    <2> DEFINE o == overlay[g]
               x == LastSent(changes, o.name, {TableOf(list, o)}, ZeroOf(o.as))
    <2>2. SentAs(k, o.name, {TableOf(sent.lists[decoded[k].class], o)}, ZeroOf(o.as)) = x
      <3>1. SentAs(k, o.name, {TableOf(list, o)}, ZeroOf(o.as)) = x
        BY <1>2, Zenon
      <3> HIDE DEF x
      <3> QED BY <1>1, <3>1, Zenon
    <2>3. Snapshot(overlay, list, row)[g] = Shows(o.as, x)
      BY <1>3, <2>1, Zenon
    <2> HIDE DEF x
    <2> QED BY <2>2, <2>3, Zenon
  <1>6. ASSUME class.name = "CCSPlayerResource"
        PROVE  /\ ResourceConstructs(list)
               /\ \A stat \in Range(PlayerResource), name \in DOMAIN SlotNames :
                    ForSlot(stat, list, row, SlotNames[name]) =
                      IF SlotNames[name] < MaxPlayerSlots THEN SentAs(k, name, {stat}, 0) ELSE 0
    <2>1. HasSlots(list) /\ row = RowOf(list, changes)
      BY <1>1, <1>6 DEF row
    <2>2. ASSUME NEW stat \in Range(PlayerResource)
          PROVE  /\ \A slot \in 0..(MaxPlayerSlots - 1) : ResolveSlots(list, stat)[slot] # 0
                 /\ \A name \in DOMAIN SlotNames :
                      ForSlot(stat, list, row, SlotNames[name]) =
                        IF SlotNames[name] < MaxPlayerSlots THEN LastSent(changes, name, {stat}, 0) ELSE 0
      <3>1. stat # AnyTable
        BY StatsNamed
      <3>2. /\ \A slot \in 0..(MaxPlayerSlots - 1) : ResolveSlots(list, stat)[slot] # 0
            /\ \A name \in DOMAIN SlotNames : stat # AnyTable =>
                 ForSlot(stat, list, row, SlotNames[name]) =
                   IF SlotNames[name] < MaxPlayerSlots THEN LastSent(changes, name, {stat}, 0) ELSE 0
        BY <1>1, <2>1, SlotShows, ZenonT(60)
      <3> QED BY <3>1, <3>2, Zenon
    <2>3. ResourceConstructs(list)
      BY <2>2, Zenon DEF ResourceConstructs
    <2> QED BY <1>2, <2>2, <2>3, Zenon
  <1> QED BY <1>4, <1>5, <1>6, Zenon DEF class, list, changes, row, overlay

\* The getters of the five overlays find their props by name, in the list the client
\* flattened, and show what the server sent of them, under indices that are never sent:
\* for every set of classes that have the props of their overlay once.
THEOREM ViewsShow == ParsedSpec => []ViewsShowWhatWasSent
  <1>1. InitParsed => DeltasInv
    BY DeltasInvStarts
  <1>2. DeltasInv /\ [NextParsed]_<<classes, stage, deltaVars>> => DeltasInv'
    BY DeltasInvStays
  <1>3. DeltasInv => ViewsShowWhatWasSent
    BY DeltasInvShows
  <1> QED BY <1>1, <1>2, <1>3, PTL DEF ParsedSpec
=============================================================================
