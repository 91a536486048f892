---------------------------- MODULE PrioritySort ----------------------------
(***************************************************************************)
(* prioritySort (src/src/datatables/Flattener.ts): the bucket sweep that   *)
(* gives the leaf props of a server class their wire indices.  One action  *)
(* is one iteration of a loop of the code.  The array holds references, so *)
(* it is modelled as an order: order[i] is the position in `props` of the  *)
(* prop the array holds at i.  Positions count from 1, as in sequences.    *)
(***************************************************************************)
EXTENDS Integers, Sequences

\* The leaf props that flattening can yield: [prop, source, element], with prop
\* the SendProp of the table `source` and element the template of an array.
CONSTANT FlatProps

ASSUME FlatPropsAssumption == \A fp \in FlatProps : fp.prop.priority \in Int

\* The bucket of the CHANGES_OFTEN props; it exists in every sweep.
OftenBucket == 64

EffectivePriority(prop) ==
  IF "CHANGES_OFTEN" \in prop.flags /\ prop.priority > OftenBucket
    THEN OftenBucket
    ELSE prop.priority

VARIABLES
  props,       \* the list to sort; the sweep never writes it
  order,       \* the mutable copy
  bucket,      \* the priority being swept
  writeIndex,
  readIndex

sortVars == <<props, order, bucket, writeIndex, readIndex>>

PrioritiesOf(list) ==
  {OftenBucket} \cup {EffectivePriority(list[i].prop) : i \in DOMAIN list}

Least(S, n) == n \in S /\ \A m \in S : n <= m

PriorityAt(i) == EffectivePriority(props[order[i]].prop)

\* The sweep of `list`, about to look at its first prop.
StartsSorting(list, o, b, w, r) ==
  /\ o = [i \in DOMAIN list |-> i]
  /\ Least(PrioritiesOf(list), b)
  /\ w = 1
  /\ r = 1

Swapped == [order EXCEPT ![writeIndex] = order[readIndex],
                         ![readIndex] = order[writeIndex]]

\* The inner loop: the prop at the read head goes to the write head when it
\* is of the bucket.
ReadProp ==
  /\ readIndex <= Len(props)
  /\ IF PriorityAt(readIndex) = bucket
       THEN order' = Swapped /\ writeIndex' = writeIndex + 1
       ELSE UNCHANGED <<order, writeIndex>>
  /\ readIndex' = readIndex + 1
  /\ UNCHANGED <<props, bucket>>

Later == {p \in PrioritiesOf(props) : p > bucket}

\* A sweep that forgets the prop at the write head.
NextBucketSkips ==
  /\ readIndex > Len(props)
  /\ \E p \in Later : Least(Later, p) /\ bucket' = p
  /\ readIndex' = writeIndex + 1
  /\ UNCHANGED <<props, order, writeIndex>>

\* The outer loop: the next bucket, read from the write head.
NextBucket ==
  /\ readIndex > Len(props)
  /\ Least(Later, bucket')
  /\ readIndex' = writeIndex
  /\ UNCHANGED <<props, order, writeIndex>>

Sorted == readIndex > Len(props) /\ Later = {}

SortInit ==
  /\ props \in Seq(FlatProps)
  /\ order \in [DOMAIN props -> Int]
  /\ bucket \in Int
  /\ StartsSorting(props, order, bucket, writeIndex, readIndex)

SortNext == ReadProp \/ NextBucket

SortSpec == SortInit /\ [][SortNext]_sortVars

-----------------------------------------------------------------------------

\* The sweep moves props and neither drops nor repeats one: a prop lost here
\* shifts the wire index of every prop after it.
Rearranged ==
  /\ order \in [DOMAIN props -> DOMAIN props]
  /\ \A i, j \in DOMAIN props : order[i] = order[j] => i = j

\* When the sweep ends, the effective priorities ascend along the array, so
\* that the wire index of a prop is its place in the server's send order.
SortedByPriority ==
  Sorted => \A i, j \in DOMAIN props : i < j => PriorityAt(i) <= PriorityAt(j)

SortedList == [i \in DOMAIN props |-> props[order[i]]]
=============================================================================
