------------------------------- MODULE MCEvents -------------------------------
(* Module Events for TLC: two slots, two users, and lists with every event that has an
   enricher. *)
EXTENDS Events

MCSlots == {0, 1}
MCUsers == {1, 2}
MCUserKeys == {"userid", "attacker", "assister"}

InOrder(S) == FoldSet(LAMBDA x, s : Append(s, x), <<>>, S)

\* The wire type of a key: user ids are shorts.
Code(key, types) == IF key \in MCUserKeys THEN 4
                    ELSE IF "string" \in types THEN 1
                    ELSE IF types = {"boolean"} THEN 6
                    ELSE 5

\* A description of an event with the keys its enricher reads.
Keys(name) ==
    LET e == enricherTable[name]
        KeyOf(k) == [name |-> k, type |->
                       IF \E r \in e.reads : r.key = k
                         THEN Code(k, (CHOOSE r \in e.reads : r.key = k).types) ELSE 4]
    IN  InOrder({KeyOf(k) : k \in {x.key : x \in e.needs \cup e.may \cup e.reads}})

Every == LET names == InOrder(DOMAIN enricherTable)
         IN  [i \in DOMAIN names |-> [eventid |-> i, name |-> names[i], keys |-> Keys(names[i])]]

\* Other lists: an id described twice, keys of each other type, a key of a type that the
\* parser does not know, events that have no enricher.
Odd == <<
    [eventid |-> 1, name |-> "weapon_reload", keys |-> <<[name |-> "userid", type |-> 4]>>],
    [eventid |-> 2, name |-> "hltv_status",
     keys |-> <<[name |-> "clients", type |-> 3], [name |-> "slots", type |-> 7], [name |-> "proxies", type |-> 7]>>],
    [eventid |-> 1, name |-> "player_death",
     keys |-> <<[name |-> "userid", type |-> 4], [name |-> "penetrated", type |-> 6],
                [name |-> "weapon", type |-> 1]>>],
    [eventid |-> 3, name |-> "bomb_planted",
     keys |-> <<[name |-> "wide", type |-> 8], [name |-> "userid", type |-> 4], [name |-> "site", type |-> 4]>>],
    [eventid |-> 4, name |-> "player_blind",
     keys |-> <<[name |-> "userid", type |-> 3], [name |-> "blind_duration", type |-> 2]>>] >>

MCLists == {Every, Odd}

MCSpeeches == {
    [kind |-> "SayText2", template |-> <<20>>, params |-> <<<<30>>, <<31, 32>>>>, text |-> <<31, 32>>],
    [kind |-> "SayText2", template |-> <<1, 21, 2, 3>>, params |-> <<<<30>>, <<31, 32>>>>,
     text |-> <<30, 21, 31, 32, 3>>],
    [kind |-> "SayText", template |-> <<22>>, params |-> <<>>, text |-> <<22>>],
    [kind |-> "TextMsg", template |-> <<1, 23, 2>>, params |-> <<<<30>>, <<33>>>>, text |-> <<30, 23, 33>>],
    [kind |-> "VGUIMenu", template |-> <<>>, params |-> <<>>, text |-> <<>>] }
=============================================================================
