-------------------------------- MODULE MCWire --------------------------------
(* StringWire for TLC: tables of one or three entries, keys that are one another's  *)
(* start, userdata of any and of a fixed number of bits, and messages that are cut. *)
EXTENDS StringWire

MCTexts == {<<97>>, <<97, 98>>}

StringEntry(index, key, data, from) == [index |-> index, key |-> key, data |-> data, from |-> from]

Keyed(indices, datas) ==
  {StringEntry(i, k, d, f) : i \in indices, k \in MCTexts, d \in datas, f \in 0..3}

StringMessage(entries, form, cut) == [entries |-> entries, form |-> form, cut |-> cut]

\* Userdata of any number of bytes, of 8 bits, and of 10.
MCData(fixed) == IF fixed = NoValue THEN <<255, 1>> ELSE IF fixed = 8 THEN <<255>> ELSE <<255, 3>>

\* One entry: a new one, or one that was sent, with another key or its own; some cut.
\* Two entries, and a message marked as coded with dictionaries.
MCUpdates(entries, onto) ==
  LET old == DOMAIN entries
      new == {Cardinality(old)}
      kept == {StringEntry(i, NoValue, d, 0) : i \in old, d \in {NoValue, MCData(onto.fixed)}}
      one == kept \cup Keyed(old \cup new, {NoValue})
  IN {StringMessage(<<e>>, "plain", cut) : e \in one, cut \in 0..1}
     \cup {StringMessage(<<StringEntry(i, NoValue, NoValue, 0), e>>, "plain", 0) :
             i \in old, e \in Keyed(new, {NoValue})}
     \cup {StringMessage(<<StringEntry(0, <<97>>, NoValue, 0)>>, "dictionary", 0)}

Creating(message, max, fixed) == message @@ [max |-> max, fixed |-> fixed]

\* Tables of one and of three entries, of any userdata and of a fixed number of bits.
MCCreates ==
  {Creating(StringMessage(<<StringEntry(0, k, d, 0), e>>, form, cut), max, NoValue) :
     max \in {1, 3}, k \in MCTexts, d \in {NoValue, <<255, 1>>},
     e \in Keyed({1}, {NoValue}), form \in {"plain", "unreadable"}, cut \in 0..1}
  \cup {Creating(StringMessage(<<StringEntry(0, <<97>>, MCData(fixed), 0), StringEntry(1, <<97, 98>>, NoValue, 1)>>,
                               "plain", cut), 3, fixed) :
          fixed \in {8, 10}, cut \in 0..1}

\* A client entry or none, and a snapshot that is whole or cut.
MCSnapshots ==
  {[client |-> c, cut |-> cut] : c \in {<<>>, <<[key |-> <<98>>, data |-> <<7>>]>>}, cut \in {0, 1, 3}}
=============================================================================
