----------------------------- MODULE RoundsProofs -----------------------------
(***************************************************************************)
(* Theorems about Rounds: how summaries, economy and damage are joined,    *)
(* numbered and awarded, for any number of players, rounds and ticks.      *)
(***************************************************************************)
EXTENDS Rounds, FiniteSetTheorems, WellFoundedInduction, TLAPS

-----------------------------------------------------------------------------
(* Sums over a finite set *)

\* A set of subsets that has each one whose own subsets it has, has them all.
LEMMA FiniteInduction ==
    ASSUME NEW S, IsFiniteSet(S), NEW G,
           \A T \in SUBSET S : (\A U \in SUBSET T : U # T => U \in G) => T \in G
    PROVE  S \in G
  <1> DEFINE Bad == {T \in SUBSET S : T \notin G}
  <1>1. IsWellFoundedOn(StrictSubsetOrdering(S), SUBSET S)
    BY FS_StrictSubsetOrderingWellFounded, FS_FiniteSubsetsOfFinite
  <1>2. Bad \subseteq SUBSET S
    OBVIOUS
  <1>3. ASSUME Bad # {} PROVE FALSE
    <2> HIDE DEF Bad
    <2>1. PICK T \in Bad : \A U \in Bad : ~ (<<U, T>> \in StrictSubsetOrdering(S))
      BY <1>1, <1>2, <1>3, WFMin
    <2>2. ASSUME NEW U \in SUBSET T, U # T PROVE U \in G
      BY <2>1, <2>2, Zenon DEF Bad, StrictSubsetOrdering
    <2> QED BY <2>1, <2>2 DEF Bad
  <1> QED BY <1>3

\* The same of the natural numbers.
LEMMA Induction ==
    ASSUME NEW G, \A n \in Nat : (\A m \in Nat : m < n => m \in G) => n \in G
    PROVE  \A n \in Nat : n \in G
  <1> SUFFICES ASSUME NEW N \in Nat PROVE N \in G
    OBVIOUS
  <1> DEFINE Below == 0 .. N
             H == {T \in SUBSET Below : \A k \in Nat : T = 0 .. k => k \in G}
  <1>1. ASSUME NEW T \in SUBSET Below, \A U \in SUBSET T : U # T => U \in H
        PROVE  T \in H
    <2> SUFFICES ASSUME NEW k \in Nat, T = 0 .. k PROVE k \in G
      OBVIOUS
    <2>1. ASSUME NEW m \in Nat, m < k PROVE m \in G
      <3>1. 0 .. m \in SUBSET T /\ 0 .. m # T
        BY <2>1
      <3> QED BY <1>1, <3>1
    <2> QED BY <2>1
  <1>2. IsFiniteSet(Below)
    BY FS_Interval
  <1> HIDE DEF Below, H
  <1>3. \A T \in SUBSET Below : (\A U \in SUBSET T : U # T => U \in H) => T \in H
    BY <1>1
  <1>4. Below \in H
    BY <1>2, <1>3, FiniteInduction
  <1> QED BY <1>4 DEF Below, H

\* The element that a fold takes next.
Pick(s) == CHOOSE x \in s : TRUE

\* f sums g over each of the sets of D.
SumsOn(D, g, f) ==
    f = [s \in D |-> IF s = {} THEN 0 ELSE g[Pick(s)] + f[s \ {Pick(s)}]]

\* There is a sum of g over the subsets of a finite set: from the smaller to the larger.
LEMMA SumExists ==
    ASSUME NEW S, IsFiniteSet(S), NEW g
    PROVE  \E f : SumsOn(SUBSET S, g, f)
  <1> DEFINE Small(n) == {s \in SUBSET S : Cardinality(s) < n}
             G == {n \in Nat : \E f : SumsOn(Small(n), g, f)}
  <1>0. ASSUME NEW s \in SUBSET S
        PROVE  /\ IsFiniteSet(s) /\ Cardinality(s) \in Nat
               /\ s # {} => /\ Pick(s) \in s
                            /\ s \ {Pick(s)} \in SUBSET S
                            /\ Cardinality(s \ {Pick(s)}) < Cardinality(s)
    <2>1. IsFiniteSet(s) /\ Cardinality(s) \in Nat
      BY FS_Subset, FS_CardinalityType
    <2>2. s # {} => Pick(s) \in s
      BY DEF Pick
    <2> QED BY <2>1, <2>2, FS_RemoveElement, FS_CardinalityType
  <1>1. ASSUME NEW n \in Nat, \A m \in Nat : m < n => m \in G
        PROVE  n \in G
    <2>1. CASE n = 0
      <3>1. Small(n) = {}
        <4>1. ASSUME NEW s \in SUBSET S PROVE ~ (Cardinality(s) < n)
          <5>1. Cardinality(s) \in Nat
            BY FS_Subset, FS_CardinalityType
          <5> QED BY <2>1, <5>1
        <4> QED BY <4>1
      <3> DEFINE f == [s \in {} |-> 0]
      <3>2. f = [s \in {} |-> IF s = {} THEN 0 ELSE g[Pick(s)] + f[s \ {Pick(s)}]]
        OBVIOUS
      <3>3. SumsOn(Small(n), g, f)
        BY <3>1, <3>2 DEF SumsOn
      <3> QED BY <3>3
    <2>2. CASE n # 0
      <3>1. n - 1 \in G
        <4>1. n - 1 \in Nat /\ n - 1 < n
          BY <2>2
        <4> HIDE DEF G
        <4> QED BY <1>1, <4>1
      <3>2. PICK f : SumsOn(Small(n - 1), g, f)
        BY <3>1
      <3> DEFINE h == [s \in Small(n) |-> IF s = {} THEN 0 ELSE g[Pick(s)] + f[s \ {Pick(s)}]]
      <3>3. ASSUME NEW s \in Small(n), s # {}
            PROVE  h[s \ {Pick(s)}] = f[s \ {Pick(s)}]
        <4> DEFINE t == s \ {Pick(s)}
        <4>1. t \in Small(n) /\ t \in Small(n - 1)
          <5>1. s \in SUBSET S /\ Cardinality(s) < n
            OBVIOUS
          <5>2. t \in SUBSET S /\ Cardinality(t) \in Nat /\ Cardinality(s) \in Nat /\ Cardinality(t) < Cardinality(s)
            BY <1>0, <3>3, <5>1
          <5> QED BY <5>1, <5>2
        <4>2. f[t] = IF t = {} THEN 0 ELSE g[Pick(t)] + f[t \ {Pick(t)}]
          BY <3>2, <4>1 DEF SumsOn
        <4>3. h[t] = IF t = {} THEN 0 ELSE g[Pick(t)] + f[t \ {Pick(t)}]
          BY <4>1
        <4> QED BY <4>2, <4>3
      <3>4. h = [s \in Small(n) |-> IF s = {} THEN 0 ELSE g[Pick(s)] + h[s \ {Pick(s)}]]
        BY <3>3
      <3>5. SumsOn(Small(n), g, h)
        BY <3>4 DEF SumsOn
      <3> QED BY <3>5
    <2> QED BY <2>1, <2>2
  <1> DEFINE c == Cardinality(S)
  <1>2. c \in Nat
    BY FS_CardinalityType
  <1>3. Small(c + 1) = SUBSET S
    <2>1. \A s \in SUBSET S : Cardinality(s) \in Nat /\ Cardinality(s) <= c
      BY FS_Subset, FS_CardinalityType
    <2> QED BY <1>2, <2>1
  <1>4. c + 1 \in Nat
    BY <1>2
  <1> HIDE DEF Small, c
  <1>5. \A n \in Nat : n \in G
    <2> HIDE DEF G
    <2> QED BY <1>1, Induction
  <1>6. \E f : SumsOn(Small(c + 1), g, f)
    BY <1>4, <1>5
  <1> QED BY <1>3, <1>6


\* The hits of p, by victim.
Row(p, h) == [v \in Players |-> h[<<p, v>>]]

LEMMA HitsAreASum ==
    ASSUME NEW p, NEW h
    PROVE  \E f : SumsOn(SUBSET Players, Row(p, h), f) /\ HitsBy(p, h) = f[Players]
  <1> DEFINE f == CHOOSE f : f = [s \in SUBSET Players |->
                       IF s = {} THEN 0
                       ELSE LET x == CHOOSE x \in s : TRUE IN h[<<p, x>>] + f[s \ {x}]]
  <1>1. PICK e : SumsOn(SUBSET Players, Row(p, h), e)
    BY SumExists, RoundsAssumption
  <1>2. \A s \in SUBSET Players : s # {} => Row(p, h)[Pick(s)] = h[<<p, Pick(s)>>]
    BY DEF Pick, Row
  <1>3. e = [s \in SUBSET Players |->
               IF s = {} THEN 0
               ELSE LET x == CHOOSE x \in s : TRUE IN h[<<p, x>>] + e[s \ {x}]]
    BY <1>1, <1>2 DEF SumsOn, Pick
  <1>4. f = [s \in SUBSET Players |->
               IF s = {} THEN 0
               ELSE LET x == CHOOSE x \in s : TRUE IN h[<<p, x>>] + f[s \ {x}]]
    BY <1>3
  <1>5. HitsBy(p, h) = f[Players]
    BY Zenon DEF HitsBy, MapThenSumSet, MapThenFoldSet
  <1>6. SumsOn(SUBSET Players, Row(p, h), f)
    <2> HIDE DEF f
    <2> QED BY <1>2, <1>4 DEF SumsOn, Pick
  <1> QED BY <1>5, <1>6

\* One hit more of a's on v.
OneMore(h, a, v) == [h EXCEPT ![<<a, v>>] = @ + 1]

\* A hit of the pair <<a, v>> is one more of a's, and nobody else's.
LEMMA HitsAdd ==
    ASSUME NEW a \in Players, NEW v \in Players, NEW p \in Players, NEW h \in [Pairs -> Nat]
    PROVE  /\ HitsBy(p, h) \in Nat
           /\ HitsBy(p, OneMore(h, a, v)) = HitsBy(p, h) + IF p = a THEN 1 ELSE 0
  <1> DEFINE k == OneMore(h, a, v)
             g == Row(p, h)
             r == Row(p, k)
             Hit(s) == IF p = a /\ v \in s THEN 1 ELSE 0
  <1>1. PICK m : SumsOn(SUBSET Players, g, m) /\ HitsBy(p, h) = m[Players]
    BY HitsAreASum
  <1>2. PICK n : SumsOn(SUBSET Players, r, n) /\ HitsBy(p, k) = n[Players]
    BY HitsAreASum
  <1>3. \A x \in Players : g[x] \in Nat /\ r[x] = g[x] + IF p = a /\ x = v THEN 1 ELSE 0
    BY DEF Row, Pairs, OneMore
  <1> DEFINE G == {s \in SUBSET Players : m[s] \in Nat /\ n[s] = m[s] + Hit(s)}
  <1> HIDE DEF k, g, r
  <1>4. ASSUME NEW s \in SUBSET Players, \A u \in SUBSET s : u # s => u \in G
        PROVE  s \in G
    <2>1. CASE s = {}
      BY <1>1, <1>2, <2>1 DEF SumsOn
    <2>2. CASE s # {}
      <3> DEFINE x == Pick(s)
                 t == s \ {x}
      <3>1. x \in s
        BY <2>2 DEF Pick
      <3>2. t \in G
        BY <3>1, <1>4
      <3>3. m[s] = g[x] + m[t] /\ n[s] = r[x] + n[t]
        BY <1>1, <1>2, <2>2 DEF SumsOn
      <3>4. g[x] \in Nat /\ r[x] = g[x] + IF p = a /\ x = v THEN 1 ELSE 0
        BY <3>1, <1>3
      <3>5. (v \in s <=> (v \in t \/ x = v)) /\ ~ (v \in t /\ x = v)
        BY <3>1
      <3> HIDE DEF x, t
      <3> QED BY <3>2, <3>3, <3>4, <3>5
    <2> QED BY <2>1, <2>2
  <1>5. Players \in G
    <2> HIDE DEF G
    <2>1. \A s \in SUBSET Players : (\A u \in SUBSET s : u # s => u \in G) => s \in G
      BY <1>4
    <2> QED BY <2>1, FiniteInduction, RoundsAssumption
  <1> QED BY <1>1, <1>2, <1>5 DEF k

-----------------------------------------------------------------------------
(* Types *)

\* What handlers of round_start and round_end may change.
TrackersOK ==
    /\ current \in Window \cup {Undefined}
    /\ rounds \in Seq(RoundSummary)
    /\ damage \in Seq([Pairs -> Nat])
    /\ match \in [Pairs -> Nat]
    /\ econ \in Seq([Players -> Record \cup {Undefined}])
    /\ mishaps \in SUBSET Mishaps

\* And what an update of the rules entity may.
Rules == [gamePhase : Nat, warmup : BOOLEAN, freeze : BOOLEAN, won : BOOLEAN, played : Nat]

PhasesOK ==
    /\ rules \in Rules
    /\ phase \in {"warmup", "freeze", "live", "over"}
    /\ overs \in Nat

LEMMA StartTypes ==
    ASSUME RoundsTypeOK, RoundStart
    PROVE  TrackersOK' /\ current' \in Window
  <1>1. NewWindow \in Window
    BY DEF RoundsTypeOK, NewWindow, Window, NoStats, Stats
  <1>2. NewRecords \in [Players -> Record \cup {Undefined}]
    BY DEF RoundsTypeOK, NewRecords, NewRecord, Record
  <1>3. NoHits \in [Pairs -> Nat]
    BY DEF NoHits
  <1>4. current' \in Window
    BY <1>1 DEF RoundStart
  <1>5. rounds' \in Seq(RoundSummary) /\ match' \in [Pairs -> Nat]
    BY DEF RoundStart, RoundsTypeOK
  <1>6. damage' \in Seq([Pairs -> Nat])
    BY <1>3 DEF RoundStart, RoundsTypeOK
  <1>7. econ' \in Seq([Players -> Record \cup {Undefined}])
    BY <1>2 DEF RoundStart, RoundsTypeOK
  <1>8. mishaps' \in SUBSET Mishaps
    BY DEF RoundStart, RoundsTypeOK, Mishaps
  <1> QED BY <1>4, <1>5, <1>6, <1>7, <1>8 DEF TrackersOK

\* The economy at a round_end: the records of the last round are the ones it had, some of
\* them read again at this tick.
LEMMA EndMoneyTypes ==
    ASSUME RoundsTypeOK
    PROVE  /\ EndMoney \in Seq([Players -> Record \cup {Undefined}])
           /\ Len(EndMoney) = Len(econ)
           /\ \A i \in DOMAIN econ, p \in Players :
                 /\ EndMoney[i][p] = Undefined <=> econ[i][p] = Undefined
                 /\ econ[i][p] # Undefined =>
                       /\ EndMoney[i][p].start = econ[i][p].start
                       /\ \/ EndMoney[i][p].end = econ[i][p].end
                          \/ i = Len(econ) /\ EndMoney[i][p].end = currentTick
  <1> DEFINE n == Len(econ)
             Read == [p \in Players |->
                        IF econ[n][p] # Undefined /\ p \in present THEN [econ[n][p] EXCEPT !.end = currentTick]
                                                              ELSE econ[n][p]]
  <1>1. econ \in Seq([Players -> Record \cup {Undefined}]) /\ currentTick \in Nat
    BY DEF RoundsTypeOK
  <1>2. Undefined \notin Record
    BY RoundsAssumption
  <1>3. CASE econ = << >>
    BY <1>1, <1>3 DEF EndMoney
  <1>4. CASE econ # << >>
    <2>1. n \in DOMAIN econ /\ econ[n] \in [Players -> Record \cup {Undefined}]
      BY <1>1, <1>4
    <2>2. ASSUME NEW p \in Players
          PROVE  /\ Read[p] \in Record \cup {Undefined}
                 /\ Read[p] = Undefined <=> econ[n][p] = Undefined
                 /\ econ[n][p] # Undefined =>
                       /\ Read[p].start = econ[n][p].start
                       /\ Read[p].end = econ[n][p].end \/ Read[p].end = currentTick
      <3>1. econ[n][p] \in Record \cup {Undefined}
        BY <2>1
      <3>2. CASE econ[n][p] \in Record
        <4>1. [econ[n][p] EXCEPT !.end = currentTick] \in Record
          BY <3>2, <1>1 DEF Record
        <4> QED BY <4>1, <3>2, <1>2 DEF Record
      <3>3. CASE econ[n][p] = Undefined
        BY <3>3
      <3> QED BY <3>1, <3>2, <3>3
    <2>3. Read \in [Players -> Record \cup {Undefined}]
      BY <2>2
    <2>4. EndMoney = [econ EXCEPT ![n] = Read]
      BY <1>4 DEF EndMoney
    <2> HIDE DEF Read
    <2>5. /\ EndMoney \in Seq([Players -> Record \cup {Undefined}])
          /\ Len(EndMoney) = Len(econ)
          /\ \A i \in DOMAIN econ : EndMoney[i] = IF i = n THEN Read ELSE econ[i]
      BY <1>1, <2>1, <2>3, <2>4
    <2> QED BY <2>2, <2>5
  <1> QED BY <1>3, <1>4

LEMMA EndTypes ==
    ASSUME RoundsTypeOK, RoundEnd
    PROVE  TrackersOK'
  <1>1. econ' \in Seq([Players -> Record \cup {Undefined}])
    BY EndMoneyTypes DEF RoundEnd
  <1>2. damage' \in Seq([Pairs -> Nat]) /\ match' \in [Pairs -> Nat]
    BY DEF RoundEnd, RoundsTypeOK
  <1>3. current' \in Window \cup {Undefined} /\ rounds' \in Seq(RoundSummary)
    <2>1. CASE current = Undefined
      BY <2>1 DEF RoundEnd, windows, RoundsTypeOK
    <2>2. CASE current # Undefined
      <3>1. current \in Window /\ rules.played + 1 \in Nat /\ currentTick \in Nat
        BY <2>2 DEF RoundsTypeOK
      <3>2. Summary \in RoundSummary
        BY <3>1 DEF Summary, RoundSummary, Window
      <3>3. current' = Undefined /\ rounds' = Append(rounds, Summary)
        BY <2>2 DEF RoundEnd
      <3>4. rounds \in Seq(RoundSummary)
        BY DEF RoundsTypeOK
      <3> QED BY <3>2, <3>3, <3>4
    <2> QED BY <2>1, <2>2
  <1>4. mishaps' \in SUBSET Mishaps
    BY DEF RoundEnd, RoundsTypeOK, Mishaps
  <1> QED BY <1>1, <1>2, <1>3, <1>4 DEF TrackersOK

LEMMA UnheardTypes ==
    ASSUME RoundsTypeOK, Unheard("start lost") \/ Unheard("end lost")
    PROVE  TrackersOK'
  BY DEF RoundsTypeOK, Unheard, Mishaps, trackers, windows, TrackersOK

LEMMA UpdateTypes ==
    ASSUME RoundsTypeOK, NEW r \in Rules, OnUpdate(r)
    PROVE  PhasesOK' /\ rules' = r
  <1>1. ComputeRoundPhase(r) \in {"warmup", "freeze", "live", "over"}
    BY DEF ComputeRoundPhase
  <1> QED BY <1>1 DEF OnUpdate, PhasesOK, RoundsTypeOK

\* An update of some rules, of which the flags may be of any set B.
LEMMA FieldUpdates ==
    ASSUME NEW B, NEW w \in B, NEW f \in B, NEW g \in Nat,
           NEW r \in [gamePhase : Nat, warmup : B, freeze : B, won : B, played : Nat]
    PROVE  /\ [r EXCEPT !.won = w, !.freeze = f, !.played = @ + 1]
                \in [gamePhase : Nat, warmup : B, freeze : B, won : B, played : Nat]
           /\ [r EXCEPT !.gamePhase = g, !.won = w]
                \in [gamePhase : Nat, warmup : B, freeze : B, won : B, played : Nat]
  <1> DEFINE R == [gamePhase : Nat, warmup : B, freeze : B, won : B, played : Nat]
  <1>1. \A q \in R : /\ [q EXCEPT !.won = w] \in R
                     /\ [q EXCEPT !.freeze = f] \in R
                     /\ [q EXCEPT !.played = @ + 1] \in R
                     /\ [q EXCEPT !.gamePhase = g] \in R
    OBVIOUS
  <1>2. [r EXCEPT !.won = w, !.freeze = f, !.played = @ + 1]
          = [[[r EXCEPT !.won = w] EXCEPT !.freeze = f] EXCEPT !.played = @ + 1]
    BY Zenon
  <1>3. [r EXCEPT !.gamePhase = g, !.won = w]
          = [[r EXCEPT !.gamePhase = g] EXCEPT !.won = w]
    BY Zenon
  <1> HIDE DEF R
  <1>4. /\ [[r EXCEPT !.gamePhase = g] EXCEPT !.won = w] \in R
        /\ [[[r EXCEPT !.won = w] EXCEPT !.freeze = f] EXCEPT !.played = @ + 1] \in R
    BY <1>1, Zenon DEF R
  <1> QED BY <1>2, <1>3, <1>4, Zenon DEF R

\* The rules of each update are rules.
LEMMA UpdatesAreRules ==
    ASSUME RoundsTypeOK
    PROVE  /\ RoundRules(rules.played) \in Rules
           /\ RoundRules(0) \in Rules
           /\ [rules EXCEPT !.freeze = FALSE] \in Rules
           /\ \A f \in BOOLEAN :
                 [rules EXCEPT !.won = TRUE, !.freeze = f, !.played = @ + 1] \in Rules
           /\ \A g \in {4, 5}, w \in BOOLEAN : [rules EXCEPT !.gamePhase = g, !.won = w] \in Rules
  <1>1. rules \in Rules
    BY DEF RoundsTypeOK, Rules
  <1>2. rules.played \in Nat
    BY <1>1 DEF Rules
  <1>3. RoundRules(rules.played) \in Rules /\ RoundRules(0) \in Rules
    BY <1>2 DEF RoundRules, Rules
  <1>4. [rules EXCEPT !.freeze = FALSE] \in Rules
    BY <1>1 DEF Rules
  <1>5. TRUE \in BOOLEAN /\ 0 \in Nat /\ \A g \in {4, 5} : g \in Nat
    OBVIOUS
  <1>6. ASSUME NEW f \in BOOLEAN
        PROVE  [rules EXCEPT !.won = TRUE, !.freeze = f, !.played = @ + 1] \in Rules
    BY <1>1, <1>5, FieldUpdates, ZenonT(30) DEF Rules
  <1>7. ASSUME NEW g \in {4, 5}, NEW w \in BOOLEAN
        PROVE  [rules EXCEPT !.gamePhase = g, !.won = w] \in Rules
    BY <1>1, <1>5, FieldUpdates, ZenonT(30) DEF Rules
  <1> QED BY <1>3, <1>4, <1>6, <1>7, Zenon

LEMMA InitTypes == InitRounds => RoundsTypeOK
  <1> SUFFICES ASSUME InitRounds PROVE RoundsTypeOK
    OBVIOUS
  <1>1. rules \in Rules
    BY DEF InitRounds, Rules
  <1>2. match \in [Pairs -> Nat]
    BY DEF InitRounds, NoHits
  <1>3. phase \in {"warmup", "freeze", "live", "over"}
    BY DEF InitRounds
  <1>4. mishaps \in SUBSET Mishaps
    BY DEF InitRounds, Mishaps
  <1>5. /\ current \in Window \cup {Undefined}
        /\ rounds \in Seq(RoundSummary)
        /\ damage \in Seq([Pairs -> Nat])
        /\ econ \in Seq([Players -> Record \cup {Undefined}])
    <2>1. current = Undefined /\ rounds = << >> /\ damage = << >> /\ econ = << >>
      BY DEF InitRounds
    <2> QED BY <2>1
  <1>6. /\ currentTick \in Nat /\ overs \in Nat /\ ended \in Nat /\ started \in Nat /\ moves \in Nat
        /\ stage \in {"warmup", "freeze", "live", "over", "halftime", "done"}
        /\ present \in SUBSET Players
        /\ restarted \in BOOLEAN
    BY DEF InitRounds
  <1> QED BY <1>1, <1>2, <1>3, <1>4, <1>5, <1>6 DEF RoundsTypeOK, Rules

\* The server and the bounds.
ServerOK ==
    /\ currentTick \in Nat
    /\ stage \in {"warmup", "freeze", "live", "over", "halftime", "done"}
    /\ present \in SUBSET Players
    /\ ended \in Nat
    /\ started \in Nat
    /\ moves \in Nat
    /\ restarted \in BOOLEAN

\* The parts of the type invariant, put together and taken apart.
LEMMA TypeParts ==
    ASSUME TrackersOK', PhasesOK', ServerOK'
    PROVE  RoundsTypeOK'
  BY DEF TrackersOK, PhasesOK, ServerOK, RoundsTypeOK, Rules

LEMMA PartsOfType ==
    ASSUME RoundsTypeOK
    PROVE  TrackersOK /\ PhasesOK /\ ServerOK
  BY DEF TrackersOK, PhasesOK, ServerOK, RoundsTypeOK, Rules

\* A hit is counted in the last round of the matrix and credited in the open window.
LEMMA HurtTypes ==
    ASSUME RoundsTypeOK, NEW a \in Players, NEW v \in Players, Hurt(a, v)
    PROVE  /\ TrackersOK'
           /\ current = Undefined => current' = Undefined
           /\ current # Undefined =>
                 /\ current \in Window /\ current' \in Window
                 /\ current'.startTick = current.startTick
                 /\ \A p \in Players :
                       current'.stats[p].damage = current.stats[p].damage + IF p = a THEN 1 ELSE 0
           /\ Len(damage') = Len(damage)
           /\ \A i \in DOMAIN damage :
                 damage'[i] = IF i = Len(damage) THEN OneMore(damage[i], a, v)
                                                 ELSE damage[i]
  <1>1. <<a, v>> \in Pairs
    BY DEF Pairs
  <1>2. match' \in [Pairs -> Nat]
    BY <1>1 DEF RoundsTypeOK, Hurt
  <1>3. /\ damage' \in Seq([Pairs -> Nat])
        /\ Len(damage') = Len(damage)
        /\ \A i \in DOMAIN damage :
              damage'[i] = IF i = Len(damage) THEN OneMore(damage[i], a, v)
                                              ELSE damage[i]
    <2>0. damage \in Seq([Pairs -> Nat])
      BY DEF RoundsTypeOK
    <2>1. CASE damage = << >>
      BY <2>0, <2>1 DEF Hurt
    <2>2. CASE damage # << >>
      <3> DEFINE n == Len(damage)
                 d == OneMore(damage[n], a, v)
      <3>1. n \in DOMAIN damage /\ damage[n] \in [Pairs -> Nat]
        BY <2>0, <2>2
      <3>2. d \in [Pairs -> Nat]
        BY <1>1, <3>1 DEF OneMore
      <3>3. damage' = [damage EXCEPT ![n] = d]
        BY <2>2 DEF Hurt, OneMore
      <3> HIDE DEF d
      <3>4. /\ damage' \in Seq([Pairs -> Nat])
            /\ Len(damage') = n
            /\ \A i \in DOMAIN damage : damage'[i] = IF i = n THEN d ELSE damage[i]
        BY <2>0, <3>1, <3>2, <3>3
      <3> QED BY <3>4 DEF d
    <2> QED BY <2>1, <2>2
  <1>4. CASE current = Undefined
    <2>1. current' = Undefined
      BY <1>4 DEF Hurt
    <2> QED BY <1>2, <1>3, <1>4, <2>1 DEF RoundsTypeOK, Hurt, TrackersOK
  <1>5. CASE current # Undefined
    <2> DEFINE w == [current.stats[a] EXCEPT !.damage = @ + 1]
               m == [current.stats EXCEPT ![a] = w]
    <2>1. current \in Window
      BY <1>5 DEF RoundsTypeOK
    <2>2. current.stats \in [Players -> Stats] /\ current.stats[a] \in Stats
      BY <2>1 DEF Window
    <2>3. w \in Stats /\ w.damage = current.stats[a].damage + 1
      BY <2>2 DEF Stats
    <2>4. \A p \in Players : current.stats[p].damage \in Nat
      BY <2>2 DEF Stats
    <2> HIDE DEF w
    <2>5. /\ m \in [Players -> Stats]
          /\ \A p \in Players :
                m[p].damage = current.stats[p].damage + IF p = a THEN 1 ELSE 0
      BY <2>2, <2>3, <2>4
    <2>6. current' = [current EXCEPT !.stats = m]
      BY <1>5 DEF Hurt, w
    <2> HIDE DEF m
    <2>7. current' \in Window /\ current'.startTick = current.startTick /\ current'.stats = m
      BY <2>1, <2>5, <2>6 DEF Window
    <2>8. /\ rounds' \in Seq(RoundSummary)
          /\ econ' \in Seq([Players -> Record \cup {Undefined}])
          /\ mishaps' \in SUBSET Mishaps
      BY DEF RoundsTypeOK, Hurt
    <2> QED BY <1>2, <1>3, <1>5, <2>1, <2>5, <2>7, <2>8 DEF TrackersOK
  <1> QED BY <1>4, <1>5

LEMMA KillTypes ==
    ASSUME RoundsTypeOK, NEW a \in Players \cup {Undefined}, NEW v \in Players, Kill(a, v)
    PROVE  /\ TrackersOK'
           /\ current \in Window /\ current' \in Window
           /\ current'.startTick = current.startTick
           /\ \A p \in Players : current'.stats[p].damage = current.stats[p].damage
  <1> DEFINE m == Scores(a, v)
  <1>1. current \in Window
    BY DEF RoundsTypeOK, Kill
  <1>2. ASSUME NEW p \in Players
        PROVE  m[p] \in Stats /\ m[p].damage = current.stats[p].damage
    <2> DEFINE s == current.stats[p]
    <2>1. s \in Stats
      BY <1>1 DEF Window
    <2>2. \A x \in Nat, y \in Nat : [s EXCEPT !.kills = x, !.deaths = y] \in Stats
      BY <2>1 DEF Stats
    <2>3. \A x \in Nat, y \in Nat : [s EXCEPT !.kills = x, !.deaths = y].damage = s.damage
      BY <2>1 DEF Stats
    <2>4. /\ (IF p = a THEN s.kills + 1 ELSE s.kills) \in Nat
          /\ (IF p = v THEN s.deaths + 1 ELSE s.deaths) \in Nat
      BY <2>1 DEF Stats
    <2>5. m[p] = [s EXCEPT !.kills = IF p = a THEN s.kills + 1 ELSE s.kills,
                           !.deaths = IF p = v THEN s.deaths + 1 ELSE s.deaths]
      BY Zenon DEF Scores
    <2> HIDE DEF s, m
    <2>6. \A x \in Nat, y \in Nat :
            m[p] = [s EXCEPT !.kills = x, !.deaths = y] => m[p] \in Stats /\ m[p].damage = s.damage
      BY <2>2, <2>3, Zenon
    <2>7. m[p] \in Stats /\ m[p].damage = s.damage
      BY <2>4, <2>5, <2>6, Zenon
    <2> QED BY <2>7 DEF s
  <1>3. m \in [Players -> Stats]
    BY <1>2 DEF Scores
  <1>4. current' = [[current EXCEPT !.kills = @ + 1] EXCEPT !.stats = m]
    BY Zenon DEF Kill
  <1> HIDE DEF m
  <1>5. /\ current' \in Window
        /\ current'.startTick = current.startTick
        /\ current'.stats = m
    <2> DEFINE c == [current EXCEPT !.kills = @ + 1]
    <2>1. c \in Window /\ c.startTick = current.startTick
      BY <1>1 DEF Window
    <2>2. current' = [c EXCEPT !.stats = m]
      BY <1>4, Zenon
    <2> HIDE DEF c
    <2> QED BY <1>3, <2>1, <2>2 DEF Window
  <1>6. /\ rounds' \in Seq(RoundSummary)
        /\ damage' \in Seq([Pairs -> Nat])
        /\ match' \in [Pairs -> Nat]
        /\ econ' \in Seq([Players -> Record \cup {Undefined}])
        /\ mishaps' \in SUBSET Mishaps
    BY DEF RoundsTypeOK, Kill, windows
  <1> QED BY <1>1, <1>2, <1>5, <1>6 DEF TrackersOK

\* A purchase gives a player with no record of the last round one of this tick.
LEMMA PurchaseTypes ==
    ASSUME RoundsTypeOK, NEW q \in Players, Purchase(q)
    PROVE  /\ TrackersOK'
           /\ Len(econ') = Len(econ)
           /\ \A i \in DOMAIN econ, p \in Players :
                 \/ econ'[i][p] = econ[i][p]
                 \/ i = Len(econ) /\ econ'[i][p] = NewRecord
  <1> DEFINE n == Len(econ)
             e == [econ[n] EXCEPT ![q] = NewRecord]
  <1>1. n \in DOMAIN econ /\ econ[n] \in [Players -> Record \cup {Undefined}]
    BY DEF RoundsTypeOK, Purchase
  <1>2. NewRecord \in Record
    BY DEF RoundsTypeOK, NewRecord, Record
  <1>3. e \in [Players -> Record \cup {Undefined}]
    BY <1>1, <1>2
  <1>4. \A p \in Players : e[p] = econ[n][p] \/ e[p] = NewRecord
    BY <1>1
  <1>5. econ' = econ \/ econ' = [econ EXCEPT ![n] = e]
    BY DEF Purchase
  <1>6. econ \in Seq([Players -> Record \cup {Undefined}])
    BY DEF RoundsTypeOK
  <1> HIDE DEF e
  <1>7. /\ econ' \in Seq([Players -> Record \cup {Undefined}])
        /\ Len(econ') = n
        /\ \A i \in DOMAIN econ : econ'[i] = econ[i] \/ (i = n /\ econ'[i] = e)
    <2>1. CASE econ' = econ
      BY <1>6, <2>1
    <2>2. CASE econ' = [econ EXCEPT ![n] = e]
      <3>1. /\ econ' \in Seq([Players -> Record \cup {Undefined}])
            /\ Len(econ') = Len(econ)
            /\ \A i \in DOMAIN econ : econ'[i] = IF i = n THEN e ELSE econ[i]
        BY <1>1, <1>3, <1>6, <2>2
      <3> QED BY <3>1
    <2> QED BY <1>5, <2>1, <2>2
  <1>8. /\ current' \in Window \cup {Undefined}
        /\ rounds' \in Seq(RoundSummary)
        /\ damage' \in Seq([Pairs -> Nat])
        /\ match' \in [Pairs -> Nat]
        /\ mishaps' \in SUBSET Mishaps
    BY DEF RoundsTypeOK, Purchase, windows
  <1> QED BY <1>4, <1>7, <1>8 DEF TrackersOK

\* An award changes nothing else of the last summary, and of the others nothing.
LEMMA MvpTypes ==
    ASSUME RoundsTypeOK, Mvp
    PROVE  /\ TrackersOK'
           /\ Len(rounds') = Len(rounds)
           /\ \A i \in DOMAIN rounds :
                 \/ rounds'[i] = rounds[i]
                 \/ i = Len(rounds) /\ rounds'[i] = [rounds[i] EXCEPT !.mvp = rules.played]
  <1> DEFINE n == Len(rounds)
             r == [rounds[n] EXCEPT !.mvp = rules.played]
  <1>1. n \in DOMAIN rounds /\ rounds[n] \in RoundSummary /\ rules.played \in Nat
    BY DEF RoundsTypeOK, Mvp
  <1>2. r \in RoundSummary
    BY <1>1 DEF RoundSummary
  <1>3. rounds' = [rounds EXCEPT ![n] = r]
    BY DEF Mvp
  <1>4. rounds \in Seq(RoundSummary)
    BY DEF RoundsTypeOK
  <1> HIDE DEF r
  <1>5. /\ rounds' \in Seq(RoundSummary)
        /\ Len(rounds') = n
        /\ \A i \in DOMAIN rounds : rounds'[i] = IF i = n THEN r ELSE rounds[i]
    BY <1>1, <1>2, <1>3, <1>4
  <1>6. /\ current' \in Window \cup {Undefined}
        /\ damage' \in Seq([Pairs -> Nat])
        /\ match' \in [Pairs -> Nat]
        /\ econ' \in Seq([Players -> Record \cup {Undefined}])
        /\ mishaps' \in SUBSET Mishaps
    BY DEF RoundsTypeOK, Mvp
  <1> QED BY <1>5, <1>6 DEF TrackersOK, r

LEMMA NextTypes ==
    ASSUME RoundsTypeOK, [NextRounds]_roundVars
    PROVE  RoundsTypeOK'
  <1>0. TrackersOK /\ PhasesOK /\ ServerOK
    BY PartsOfType
  <1>1. CASE UNCHANGED roundVars
    BY <1>1 DEF RoundsTypeOK, roundVars, play, phases, trackers, windows
  <1>2. ASSUME NEW a \in Players, NEW v \in Players, Hurt(a, v) PROVE RoundsTypeOK'
    <2>1. TrackersOK'
      BY <1>2, HurtTypes
    <2>2. PhasesOK'
      BY <1>0, <1>2 DEF Hurt, PhasesOK, phases
    <2>3. ServerOK'
      BY <1>0, <1>2 DEF ServerOK, Hurt, Move, play
    <2> QED BY <2>1, <2>2, <2>3, TypeParts
  <1>3. ASSUME NEW a \in Players \cup {Undefined}, NEW v \in Players, Kill(a, v) PROVE RoundsTypeOK'
    <2>1. TrackersOK'
      BY <1>3, KillTypes
    <2>2. PhasesOK'
      BY <1>0, <1>3 DEF Kill, PhasesOK, phases
    <2>3. ServerOK'
      BY <1>0, <1>3 DEF ServerOK, Kill, Move, play
    <2> QED BY <2>1, <2>2, <2>3, TypeParts
  <1>4. ASSUME NEW p \in Players, Purchase(p) PROVE RoundsTypeOK'
    <2>1. TrackersOK'
      BY <1>4, PurchaseTypes
    <2>2. PhasesOK'
      BY <1>0, <1>4 DEF Purchase, PhasesOK, phases
    <2>3. ServerOK'
      BY <1>0, <1>4 DEF ServerOK, Purchase, Move, play
    <2> QED BY <2>1, <2>2, <2>3, TypeParts
  <1>5. ASSUME NEW p \in Players, JoinOrLeave(p) PROVE RoundsTypeOK'
    <2>1. TrackersOK' /\ PhasesOK'
      BY <1>0, <1>5 DEF JoinOrLeave, TrackersOK, PhasesOK, phases, trackers, windows
    <2>2. ServerOK'
      BY <1>0, <1>5 DEF ServerOK, JoinOrLeave, Move
    <2> QED BY <2>1, <2>2, TypeParts
  <1>6. CASE Mvp
    <2>1. TrackersOK'
      BY <1>6, MvpTypes
    <2>2. PhasesOK'
      BY <1>0, <1>6 DEF Mvp, PhasesOK, phases
    <2>3. ServerOK'
      BY <1>0, <1>6 DEF ServerOK, Mvp, play
    <2> QED BY <2>1, <2>2, <2>3, TypeParts
  <1>7. CASE WarmupStart
    <2>1. TrackersOK'
      BY <1>7, StartTypes DEF WarmupStart
    <2>2. PhasesOK'
      BY <1>0, <1>7 DEF WarmupStart, PhasesOK, phases
    <2>3. ServerOK'
      BY <1>0, <1>7 DEF ServerOK, WarmupStart
    <2> QED BY <2>1, <2>2, <2>3, TypeParts
  <1>8. CASE WarmupEnd
    <2>1. TrackersOK'
      BY <1>8, EndTypes DEF WarmupEnd
    <2>2. PhasesOK'
      BY <1>0, <1>8 DEF WarmupEnd, PhasesOK, phases
    <2>3. ServerOK'
      BY <1>0, <1>8 DEF ServerOK, WarmupEnd, play
    <2> QED BY <2>1, <2>2, <2>3, TypeParts
  <1>9. CASE BeginRound
    <2>1. TrackersOK'
      BY <1>9, StartTypes, UnheardTypes DEF BeginRound
    <2>2. PhasesOK'
      BY <1>9, UpdateTypes, UpdatesAreRules DEF BeginRound
    <2>3. ServerOK'
      <3>1. stage' = "freeze" /\ started' = started + 1 /\ UNCHANGED <<currentTick, present, ended, restarted, moves>>
        BY <1>9, Zenon DEF BeginRound
      <3> QED BY <1>0, <3>1 DEF ServerOK
    <2> QED BY <2>1, <2>2, <2>3, TypeParts
  <1>10. CASE Restart
    <2>1. TrackersOK'
      BY <1>10, StartTypes, UnheardTypes DEF Restart
    <2>2. PhasesOK'
      BY <1>10, UpdateTypes, UpdatesAreRules DEF Restart
    <2>3. ServerOK'
      <3>1. stage' = "freeze" /\ started' = started + 1 /\ restarted' = TRUE /\ UNCHANGED <<currentTick, present, ended, moves>>
        BY <1>10, Zenon DEF Restart
      <3> QED BY <1>0, <3>1 DEF ServerOK
    <2> QED BY <2>1, <2>2, <2>3, TypeParts
  <1>11. CASE GoLive
    <2>1. TrackersOK'
      BY <1>0, <1>11 DEF GoLive, TrackersOK, trackers, windows
    <2>2. PhasesOK'
      BY <1>11, UpdateTypes, UpdatesAreRules DEF GoLive
    <2>3. ServerOK'
      BY <1>0, <1>11 DEF ServerOK, GoLive
    <2> QED BY <2>1, <2>2, <2>3, TypeParts
  <1>12. ASSUME NEW freeze \in BOOLEAN, EndRound(freeze) PROVE RoundsTypeOK'
    <2>1. TrackersOK'
      BY <1>12, EndTypes, UnheardTypes DEF EndRound
    <2>2. PhasesOK'
      BY <1>12, UpdateTypes, UpdatesAreRules DEF EndRound
    <2>3. ServerOK'
      <3>1. stage' = "over" /\ ended' = ended + 1 /\ UNCHANGED <<currentTick, present, started, restarted, moves>>
        BY <1>12, Zenon DEF EndRound
      <3> QED BY <1>0, <3>1 DEF ServerOK
    <2> QED BY <2>1, <2>2, <2>3, TypeParts
  <1>13. ASSUME NEW g \in {4, 5}, NEW w \in BOOLEAN, Pause(g, w) PROVE RoundsTypeOK'
    <2>1. TrackersOK'
      BY <1>0, <1>13 DEF Pause, TrackersOK, trackers, windows
    <2>2. PhasesOK'
      BY <1>13, UpdateTypes, UpdatesAreRules DEF Pause
    <2>3. ServerOK'
      BY <1>0, <1>13 DEF ServerOK, Pause
    <2> QED BY <2>1, <2>2, <2>3, TypeParts
  <1>14. CASE Tick
    <2>1. TrackersOK' /\ PhasesOK'
      BY <1>0, <1>14 DEF Tick, TrackersOK, PhasesOK, phases, trackers, windows
    <2>2. ServerOK'
      BY <1>0, <1>14 DEF ServerOK, Tick, play
    <2> QED BY <2>1, <2>2, TypeParts
  <1> QED BY <1>1, <1>2, <1>3, <1>4, <1>5, <1>6, <1>7, <1>8, <1>9, <1>10, <1>11, <1>12,
             <1>13, <1>14 DEF NextRounds

-----------------------------------------------------------------------------
(* The phase follows the rounds *)

\* The phase an update computes, from the fields it looks at.
LEMMA ComputedPhases ==
    ASSUME NEW r
    PROVE  /\ r.gamePhase \in {4, 5} => ComputeRoundPhase(r) = "over"
           /\ r.gamePhase \notin {4, 5} /\ ~ r.warmup =>
                 /\ r.won => ComputeRoundPhase(r) = "over"
                 /\ ~ r.won /\ r.freeze => ComputeRoundPhase(r) = "freeze"
                 /\ ~ r.won /\ ~ r.freeze => ComputeRoundPhase(r) = "live"
           /\ ComputeRoundPhase(r) = "freeze" =>
                 r.gamePhase \notin {4, 5} /\ ~ r.warmup /\ ~ r.won
           /\ ComputeRoundPhase(r) = "live" => r.gamePhase \notin {4, 5} /\ ~ r.warmup
  BY DEF ComputeRoundPhase

LEMMA PhasesFollow ==
    ASSUME RoundsTypeOK, PhaseOfStage, OverPerRound, [NextRounds]_roundVars
    PROVE  PhaseOfStage' /\ OverPerRound'
  <1>0. rules \in Rules /\ overs \in Nat /\ overs = ended /\ phase = ComputeRoundPhase(rules)
    BY DEF RoundsTypeOK, Rules, PhaseOfStage, OverPerRound
  <1>1. ASSUME UNCHANGED <<stage, rules, phase, overs, ended>>
        PROVE  PhaseOfStage' /\ OverPerRound'
    BY <1>1 DEF PhaseOfStage, OverPerRound
  <1>2. ASSUME UNCHANGED roundVars \/ Mvp \/ WarmupStart \/ WarmupEnd \/ Tick
        PROVE  UNCHANGED <<stage, rules, phase, overs, ended>>
    BY <1>2 DEF roundVars, play, phases, Mvp, WarmupStart, WarmupEnd, Tick
  <1>3. ASSUME NEW a, NEW v, Hurt(a, v) \/ Kill(a, v) \/ Purchase(v) \/ JoinOrLeave(v)
        PROVE  UNCHANGED <<stage, rules, phase, overs, ended>>
    BY <1>3 DEF play, phases, Hurt, Kill, Purchase, JoinOrLeave
  <1>4. ASSUME NEW n, OnUpdate(RoundRules(n)), stage' = "freeze", ended' = ended
        PROVE  PhaseOfStage' /\ OverPerRound'
    <2>1. ComputeRoundPhase(RoundRules(n)) = "freeze"
      BY ComputedPhases DEF RoundRules
    <2> QED BY <1>0, <1>4, <2>1 DEF OnUpdate, PhaseOfStage, OverPerRound
  <1>5. CASE GoLive
    <2> DEFINE r == [rules EXCEPT !.freeze = FALSE]
    <2>1. phase = "freeze"
      BY <1>5 DEF GoLive, PhaseOfStage
    <2>2. r.gamePhase = rules.gamePhase /\ r.warmup = rules.warmup /\ r.won = rules.won
          /\ r.freeze = FALSE
      BY <1>0 DEF Rules
    <2> HIDE DEF r
    <2>3. ComputeRoundPhase(r) = "live"
      BY <1>0, <2>1, <2>2, ComputedPhases
    <2>4. OnUpdate(r) /\ stage' = "live" /\ ended' = ended
      BY <1>5, Zenon DEF GoLive, r
    <2> QED BY <1>0, <2>3, <2>4 DEF OnUpdate, PhaseOfStage, OverPerRound
  <1>6. ASSUME NEW f \in BOOLEAN, EndRound(f)
        PROVE  PhaseOfStage' /\ OverPerRound'
    <2> DEFINE r == [rules EXCEPT !.won = TRUE, !.freeze = f, !.played = @ + 1]
    <2>1. phase = "live"
      BY <1>6 DEF EndRound, PhaseOfStage
    <2>2. r.gamePhase = rules.gamePhase /\ r.warmup = rules.warmup /\ r.won = TRUE
      BY <1>0 DEF Rules
    <2> HIDE DEF r
    <2>3. ComputeRoundPhase(r) = "over"
      BY <1>0, <2>1, <2>2, ComputedPhases
    <2>4. OnUpdate(r) /\ stage' = "over" /\ ended' = ended + 1
      BY <1>6, Zenon DEF EndRound, r
    <2> QED BY <1>0, <2>1, <2>3, <2>4 DEF OnUpdate, PhaseOfStage, OverPerRound
  <1>7. ASSUME NEW g \in {4, 5}, NEW w \in BOOLEAN, Pause(g, w)
        PROVE  PhaseOfStage' /\ OverPerRound'
    <2> DEFINE r == [rules EXCEPT !.gamePhase = g, !.won = w]
    <2>1. phase = "over"
      BY <1>7 DEF Pause, PhaseOfStage
    <2>2. r.gamePhase \in {4, 5}
      BY <1>0 DEF Rules
    <2> HIDE DEF r
    <2>3. ComputeRoundPhase(r) = "over"
      BY <2>2, ComputedPhases
    <2>4. OnUpdate(r) /\ ended' = ended
      BY <1>7, Zenon DEF Pause, r
    <2>5. stage' \in {"halftime", "done"}
      BY <1>7 DEF Pause
    <2> QED BY <1>0, <2>1, <2>3, <2>4, <2>5 DEF OnUpdate, PhaseOfStage, OverPerRound
  <1>8. CASE BeginRound
    BY <1>4, <1>8 DEF BeginRound
  <1>9. CASE Restart
    BY <1>4, <1>9 DEF Restart
  <1> QED BY <1>1, <1>2, <1>3, <1>5, <1>6, <1>7, <1>8, <1>9 DEF NextRounds

-----------------------------------------------------------------------------
(* Awards and numbers *)

\* A window that closes becomes the last summary, with the number after the one the rules
\* show and no award.
LEMMA WindowCloses ==
    ASSUME RoundsTypeOK, RoundEnd, current # Undefined
    PROVE  /\ current' = Undefined
           /\ Len(rounds') = Len(rounds) + 1
           /\ \A i \in DOMAIN rounds : rounds'[i] = rounds[i]
           /\ rounds'[Len(rounds) + 1].number = rules.played + 1
           /\ rounds'[Len(rounds) + 1].mvp = Undefined
           /\ rounds'[Len(rounds) + 1].startTick = current.startTick
           /\ rounds'[Len(rounds) + 1].stats = current.stats
  <1>1. current' = Undefined /\ rounds' = Append(rounds, Summary)
    BY DEF RoundEnd
  <1>2. rounds \in Seq(RoundSummary)
    BY DEF RoundsTypeOK
  <1>3. /\ Len(rounds') = Len(rounds) + 1
        /\ \A i \in DOMAIN rounds : rounds'[i] = rounds[i]
        /\ rounds'[Len(rounds) + 1] = Summary
    BY <1>1, <1>2
  <1>4. /\ Summary.number = rules.played + 1
        /\ Summary.mvp = Undefined
        /\ Summary.startTick = current.startTick
        /\ Summary.stats = current.stats
    BY DEF Summary
  <1> QED BY <1>1, <1>3, <1>4

\* What the rules count after a round and otherwise.
LEMMA PlayedCounts ==
    ASSUME RoundsTypeOK
    PROVE  /\ rules.played \in Nat
           /\ \A n : RoundRules(n).played = n
           /\ [rules EXCEPT !.freeze = FALSE].played = rules.played
           /\ \A f \in BOOLEAN :
                 [rules EXCEPT !.won = TRUE, !.freeze = f, !.played = @ + 1].played
                   = rules.played + 1
           /\ \A g \in {4, 5}, w \in BOOLEAN :
                 [rules EXCEPT !.gamePhase = g, !.won = w].played = rules.played
  BY DEF RoundsTypeOK, RoundRules

\* The steps that leave the summaries, the rules and the stage alone, and the window open
\* or closed.
LEMMA QuietSteps ==
    ASSUME RoundsTypeOK,
           \/ UNCHANGED roundVars
           \/ Tick
           \/ \E a \in Players, v \in Players : Hurt(a, v)
           \/ \E a \in Players \cup {Undefined}, v \in Players : Kill(a, v)
           \/ \E p \in Players : Purchase(p) \/ JoinOrLeave(p)
    PROVE  /\ UNCHANGED <<rounds, rules, stage, restarted, mishaps>>
           /\ current' = Undefined <=> current = Undefined
  <1>0. Undefined \notin Window
    BY RoundsAssumption
  <1>1. CASE UNCHANGED roundVars \/ Tick
    BY <1>1 DEF roundVars, play, phases, trackers, windows, Tick
  <1>2. ASSUME NEW a \in Players, NEW v \in Players, Hurt(a, v)
        PROVE  /\ UNCHANGED <<rounds, rules, stage, restarted, mishaps>>
               /\ current' = Undefined <=> current = Undefined
    <2>1. current = Undefined => current' = Undefined
      BY <1>2, HurtTypes
    <2>2. current # Undefined => current' \in Window
      BY <1>2, HurtTypes
    <2> QED BY <1>0, <1>2, <2>1, <2>2 DEF Hurt, play, phases
  <1>3. ASSUME NEW a \in Players \cup {Undefined}, NEW v \in Players, Kill(a, v)
        PROVE  /\ UNCHANGED <<rounds, rules, stage, restarted, mishaps>>
               /\ current' = Undefined <=> current = Undefined
    <2>1. current \in Window /\ current' \in Window
      BY <1>3, KillTypes
    <2> QED BY <1>0, <1>3, <2>1 DEF Kill, play, phases
  <1>4. ASSUME NEW p \in Players, Purchase(p) \/ JoinOrLeave(p)
        PROVE  UNCHANGED <<rounds, rules, stage, restarted, mishaps, current>>
    BY <1>4 DEF Purchase, JoinOrLeave, play, phases, trackers, windows
  <1> QED BY <1>1, <1>2, <1>3, <1>4

LEMMA AwardsFollow ==
    ASSUME RoundsTypeOK, WindowOfRound, MvpOfItsRound, [NextRounds]_roundVars
    PROVE  WindowOfRound' /\ MvpOfItsRound'
  <1>0. /\ rounds \in Seq(RoundSummary)
        /\ Undefined \notin Window
        /\ rules.played \in Nat
    BY RoundsAssumption DEF RoundsTypeOK
  <1> DEFINE Heard == "start lost" \notin mishaps
             Awarded(r) == r.mvp \in {Undefined, r.number}
  <1>1. Heard => /\ \A i \in DOMAIN rounds : Awarded(rounds[i])
                 /\ stage \in {"freeze", "live"} => current # Undefined
                 /\ stage = "over" /\ current = Undefined =>
                       rounds # << >> /\ rounds[Len(rounds)].number = rules.played
    BY DEF WindowOfRound, MvpOfItsRound
  <1>2. ASSUME UNCHANGED <<rounds, rules, stage, mishaps>>, current' = Undefined <=> current = Undefined
        PROVE  WindowOfRound' /\ MvpOfItsRound'
    BY <1>2 DEF WindowOfRound, MvpOfItsRound
  <1>3. CASE Mvp
    <2>1. UNCHANGED <<rules, stage, current, mishaps>> /\ stage = "over" /\ current = Undefined
      BY <1>3 DEF Mvp, play, phases
    <2>2. /\ Len(rounds') = Len(rounds)
          /\ \A i \in DOMAIN rounds :
                \/ rounds'[i] = rounds[i]
                \/ i = Len(rounds) /\ rounds'[i] = [rounds[i] EXCEPT !.mvp = rules.played]
          /\ rounds' \in Seq(RoundSummary)
      BY <1>3, MvpTypes DEF TrackersOK
    <2>3. ASSUME NEW i \in DOMAIN rounds
          PROVE  /\ rounds'[i].number = rounds[i].number
                 /\ \/ rounds'[i].mvp = rounds[i].mvp
                    \/ i = Len(rounds) /\ rounds'[i].mvp = rules.played
      <3>1. rounds[i] \in RoundSummary
        BY <1>0
      <3> QED BY <2>2, <3>1 DEF RoundSummary
    <2>4. DOMAIN rounds' = DOMAIN rounds
      BY <1>0, <2>2
    <2>5. Heard => \A i \in DOMAIN rounds : Awarded(rounds'[i])
      BY <1>1, <2>1, <2>3
    <2>6. Heard => rounds # << >> /\ rounds' # << >> /\ rounds'[Len(rounds')].number = rules.played
      <3>1. SUFFICES ASSUME Heard
                     PROVE  rounds # << >> /\ rounds' # << >>
                            /\ rounds'[Len(rounds')].number = rules.played
        OBVIOUS
      <3>2. rounds # << >> /\ rounds[Len(rounds)].number = rules.played
        BY <1>1, <2>1, <3>1
      <3>3. Len(rounds) \in DOMAIN rounds /\ Len(rounds) > 0
        BY <1>0, <3>2
      <3>4. rounds' # << >>
        BY <2>2, <3>3
      <3> QED BY <2>2, <2>3, <3>2, <3>3, <3>4
    <2> QED BY <1>1, <2>1, <2>4, <2>5, <2>6 DEF WindowOfRound, MvpOfItsRound
  <1>4. CASE WarmupStart
    <2>1. stage' = "warmup" /\ UNCHANGED rounds /\ mishaps \subseteq mishaps'
      BY <1>4 DEF WarmupStart, RoundStart
    <2> QED BY <1>1, <2>1 DEF WindowOfRound, MvpOfItsRound
  <1>5. ASSUME RoundEnd
        PROVE  /\ mishaps \subseteq mishaps'
               /\ Heard => \A i \in DOMAIN rounds' : Awarded(rounds'[i])
    <2>1. mishaps \subseteq mishaps'
      BY <1>5 DEF RoundEnd
    <2>2. CASE current = Undefined
      BY <1>1, <1>5, <2>1, <2>2 DEF RoundEnd, windows
    <2>3. CASE current # Undefined
      <3>1. /\ Len(rounds') = Len(rounds) + 1
            /\ \A i \in DOMAIN rounds : rounds'[i] = rounds[i]
            /\ rounds'[Len(rounds) + 1].mvp = Undefined
            /\ rounds' = Append(rounds, Summary)
        BY <1>5, <2>3, WindowCloses DEF RoundEnd
      <3>2. DOMAIN rounds' = 1 .. Len(rounds) + 1
        BY <1>0, <3>1
      <3>3. DOMAIN rounds = 1 .. Len(rounds) /\ Len(rounds) \in Nat
        BY <1>0
      <3>4. Awarded(rounds'[Len(rounds) + 1])
        BY <3>1
      <3>5. Heard => \A i \in DOMAIN rounds : Awarded(rounds'[i])
        BY <1>1, <3>1
      <3> HIDE DEF Awarded
      <3>6. \A i \in DOMAIN rounds' : i \in DOMAIN rounds \/ i = Len(rounds) + 1
        BY <3>2, <3>3
      <3> QED BY <2>1, <3>4, <3>5, <3>6
    <2> QED BY <2>2, <2>3
  <1>6. CASE WarmupEnd
    <2>1. stage' = "warmup" /\ RoundEnd
      BY <1>6 DEF WarmupEnd, play
    <2> QED BY <1>5, <2>1 DEF WindowOfRound, MvpOfItsRound
  <1>7. ASSUME RoundStart \/ Unheard("start lost"), stage' = "freeze"
        PROVE  WindowOfRound' /\ MvpOfItsRound'
    <2>1. CASE Unheard("start lost")
      BY <2>1 DEF Unheard, WindowOfRound, MvpOfItsRound
    <2>2. CASE RoundStart
      <3>1. current' # Undefined
        BY <1>0, <2>2, StartTypes
      <3>2. UNCHANGED rounds /\ mishaps \subseteq mishaps'
        BY <2>2 DEF RoundStart
      <3> QED BY <1>1, <1>7, <3>1, <3>2 DEF WindowOfRound, MvpOfItsRound
    <2> QED BY <1>7, <2>1, <2>2
  <1>8. CASE BeginRound \/ Restart
    BY <1>7, <1>8 DEF BeginRound, Restart
  <1>9. CASE GoLive
    <2>1. UNCHANGED <<current, rounds, mishaps>> /\ stage = "freeze" /\ stage' = "live"
      BY <1>9 DEF GoLive, trackers, windows
    <2> QED BY <1>1, <2>1 DEF WindowOfRound, MvpOfItsRound
  <1>10. ASSUME NEW f \in BOOLEAN, EndRound(f)
         PROVE  WindowOfRound' /\ MvpOfItsRound'
    <2>1. stage = "live" /\ stage' = "over" /\ rules'.played = rules.played + 1
      BY <1>10, PlayedCounts DEF EndRound, OnUpdate
    <2>2. CASE Unheard("end lost")
      <3>1. UNCHANGED <<current, rounds>> /\ mishaps \subseteq mishaps'
        BY <2>2 DEF Unheard, trackers, windows
      <3> QED BY <1>1, <2>1, <3>1 DEF WindowOfRound, MvpOfItsRound
    <2>3. CASE RoundEnd
      <3>1. Heard => /\ rounds' # << >>
                     /\ rounds'[Len(rounds')].number = rules.played + 1
        <4>1. SUFFICES ASSUME Heard
                       PROVE  rounds' # << >> /\ rounds'[Len(rounds')].number = rules.played + 1
          OBVIOUS
        <4>2. current # Undefined
          BY <1>1, <2>1, <4>1
        <4>3. /\ Len(rounds') = Len(rounds) + 1
              /\ rounds'[Len(rounds) + 1].number = rules.played + 1
              /\ rounds' = Append(rounds, Summary)
          BY <2>3, <4>2, WindowCloses DEF RoundEnd
        <4> QED BY <1>0, <4>3
      <3> QED BY <1>5, <2>1, <2>3, <3>1 DEF WindowOfRound, MvpOfItsRound
    <2> QED BY <1>10, <2>2, <2>3 DEF EndRound
  <1>11. ASSUME NEW g \in {4, 5}, NEW w \in BOOLEAN, Pause(g, w)
         PROVE  WindowOfRound' /\ MvpOfItsRound'
    <2>1. UNCHANGED <<current, rounds, mishaps>> /\ stage' \in {"halftime", "done"}
      BY <1>11 DEF Pause, trackers, windows
    <2> QED BY <1>1, <2>1 DEF WindowOfRound, MvpOfItsRound
  <1> QED BY <1>2, <1>3, <1>4, <1>6, <1>8, <1>9, <1>10, <1>11, QuietSteps DEF NextRounds

\* The numbers of summaries rs when the rules have counted n rounds; whole if nothing was lost.
Numbered(rs, n, whole) ==
    /\ \A i \in DOMAIN rs : rs[i].number <= n
    /\ \A i \in DOMAIN rs, j \in DOMAIN rs : i < j => rs[i].number < rs[j].number
    /\ whole => Len(rs) = n /\ \A i \in DOMAIN rs : rs[i].number = i

Whole == mishaps \cap {"start lost", "end lost"} = {}
Trusted == ~ restarted /\ "warmup" \notin mishaps

LEMMA NumberedStep ==
    ASSUME RoundsTypeOK, NumbersCounted, NumbersIncrease,
           Trusted' => Trusted, Whole' => Whole,
           Trusted' => (Numbered(rounds, rules.played, Whole) => Numbered(rounds, rules.played, Whole)')
    PROVE  NumbersCounted' /\ NumbersIncrease'
  <1>1. Trusted => Numbered(rounds, rules.played, Whole)
    BY DEF NumbersCounted, NumbersIncrease, Trusted, Whole, Numbered
  <1>2. Trusted' => Numbered(rounds, rules.played, Whole)'
    BY <1>1
  <1> QED BY <1>2 DEF NumbersCounted, NumbersIncrease, Trusted, Whole, Numbered

LEMMA NumbersFollow ==
    ASSUME RoundsTypeOK, WindowOfRound, NumbersCounted, NumbersIncrease, [NextRounds]_roundVars
    PROVE  NumbersCounted' /\ NumbersIncrease'
  <1>0. /\ rounds \in Seq(RoundSummary)
        /\ rules.played \in Nat
        /\ \A i \in DOMAIN rounds : rounds[i].number \in Nat
    <2>1. rounds \in Seq(RoundSummary)
      BY DEF RoundsTypeOK
    <2>2. \A i \in DOMAIN rounds : rounds[i] \in RoundSummary
      BY <2>1
    <2> QED BY <2>1, <2>2 DEF RoundsTypeOK, RoundSummary
  <1>1. ASSUME UNCHANGED <<rounds, restarted>>, rules'.played = rules.played, mishaps \subseteq mishaps'
        PROVE  NumbersCounted' /\ NumbersIncrease'
    <2>1. (Trusted' => Trusted) /\ (Whole' => Whole)
      BY <1>1 DEF Trusted, Whole
    <2>2. Numbered(rounds, rules.played, Whole) => Numbered(rounds, rules.played, Whole)'
      BY <1>1, <2>1 DEF Numbered
    <2> QED BY <2>1, <2>2, NumberedStep
  <1>2. CASE Mvp
    <2>1. UNCHANGED <<rules, restarted, mishaps>>
      BY <1>2 DEF Mvp, play, phases
    <2>2. /\ Len(rounds') = Len(rounds)
          /\ \A i \in DOMAIN rounds :
                \/ rounds'[i] = rounds[i]
                \/ i = Len(rounds) /\ rounds'[i] = [rounds[i] EXCEPT !.mvp = rules.played]
          /\ rounds' \in Seq(RoundSummary)
      BY <1>2, MvpTypes DEF TrackersOK
    <2>3. ASSUME NEW i \in DOMAIN rounds
          PROVE  rounds'[i].number = rounds[i].number
      <3>1. rounds[i] \in RoundSummary
        BY <1>0
      <3> QED BY <2>2, <3>1 DEF RoundSummary
    <2>4. DOMAIN rounds' = DOMAIN rounds
      BY <1>0, <2>2
    <2>5. (Trusted' <=> Trusted) /\ (Whole' <=> Whole)
      BY <2>1 DEF Trusted, Whole
    <2>6. Numbered(rounds, rules.played, Whole) => Numbered(rounds, rules.played, Whole)'
      BY <2>1, <2>2, <2>3, <2>4, <2>5 DEF Numbered
    <2> QED BY <2>5, <2>6, NumberedStep
  <1>3. CASE WarmupStart
    BY <1>1, <1>3 DEF WarmupStart, RoundStart, phases
  <1>4. CASE WarmupEnd
    <2>1. CASE current = Undefined
      BY <1>1, <1>4, <2>1 DEF WarmupEnd, RoundEnd, play, phases, windows
    <2>2. CASE current # Undefined
      <3>1. "warmup" \in mishaps'
        BY <1>4, <2>2 DEF WarmupEnd, RoundEnd
      <3> QED BY <3>1 DEF NumbersCounted, NumbersIncrease
    <2> QED BY <2>1, <2>2
  <1>5. CASE BeginRound
    <2>1. rules'.played = rules.played /\ UNCHANGED restarted
      BY <1>5, PlayedCounts DEF BeginRound, OnUpdate
    <2>2. UNCHANGED rounds /\ mishaps \subseteq mishaps'
      BY <1>5 DEF BeginRound, RoundStart, Unheard, trackers, windows
    <2> QED BY <1>1, <2>1, <2>2
  <1>6. CASE Restart
    BY <1>6 DEF Restart, NumbersCounted, NumbersIncrease
  <1>7. CASE GoLive
    <2>1. rules'.played = rules.played
      BY <1>7, PlayedCounts DEF GoLive, OnUpdate
    <2> QED BY <1>1, <1>7, <2>1 DEF GoLive, trackers, windows
  <1>8. ASSUME NEW g \in {4, 5}, NEW w \in BOOLEAN, Pause(g, w)
        PROVE  NumbersCounted' /\ NumbersIncrease'
    <2>1. rules'.played = rules.played
      BY <1>8, PlayedCounts DEF Pause, OnUpdate
    <2> QED BY <1>1, <1>8, <2>1 DEF Pause, trackers, windows
  <1>9. ASSUME NEW f \in BOOLEAN, EndRound(f)
        PROVE  NumbersCounted' /\ NumbersIncrease'
    <2> DEFINE n == Len(rounds)
    <2>1. stage = "live" /\ rules'.played = rules.played + 1 /\ UNCHANGED restarted
      BY <1>9, PlayedCounts DEF EndRound, OnUpdate
    <2>2. CASE Unheard("end lost")
      <3>1. UNCHANGED rounds /\ mishaps \subseteq mishaps' /\ "end lost" \in mishaps'
        BY <2>2 DEF Unheard, trackers, windows
      <3>2. (Trusted' => Trusted) /\ ~ Whole'
        BY <2>1, <3>1 DEF Trusted, Whole
      <3>3. rounds' = rounds /\ ~ Whole'
        BY <3>1, <3>2
      <3>4. Numbered(rounds, rules.played, Whole) => Numbered(rounds, rules.played, Whole)'
        BY <1>0, <2>1, <3>3 DEF Numbered
      <3> QED BY <3>2, <3>4, NumberedStep
    <2>3. CASE RoundEnd /\ current = Undefined
      <3>1. UNCHANGED <<rounds, mishaps>>
        BY <2>3 DEF RoundEnd, windows
      <3>2. (Trusted' => Trusted) /\ ~ Whole /\ ~ Whole'
        BY <2>1, <2>3, <3>1 DEF WindowOfRound, Whole, Trusted
      <3>3. rounds' = rounds /\ ~ Whole'
        BY <3>1, <3>2
      <3>4. Numbered(rounds, rules.played, Whole) => Numbered(rounds, rules.played, Whole)'
        BY <1>0, <2>1, <3>3 DEF Numbered
      <3> QED BY <3>2, <3>4, NumberedStep
    <2>4. CASE RoundEnd /\ current # Undefined
      <3>1. mishaps' = mishaps
        BY <2>1, <2>4 DEF RoundEnd
      <3>2. (Trusted' => Trusted) /\ (Whole' => Whole)
        BY <2>1, <3>1 DEF Trusted, Whole
      <3>3. /\ Len(rounds') = n + 1
            /\ \A i \in DOMAIN rounds : rounds'[i] = rounds[i]
            /\ rounds'[n + 1].number = rules.played + 1
            /\ rounds' = Append(rounds, Summary)
        BY <2>4, WindowCloses DEF RoundEnd
      <3>4. DOMAIN rounds' = 1 .. n + 1 /\ DOMAIN rounds = 1 .. n /\ n \in Nat
        BY <1>0, <3>3
      <3>5. SUFFICES ASSUME Numbered(rounds, rules.played, Whole)
                     PROVE  Numbered(rounds, rules.played, Whole)'
        BY <3>2, NumberedStep
      <3>6. ASSUME NEW i \in DOMAIN rounds'
            PROVE  /\ rounds'[i].number \in Nat
                   /\ \/ /\ i \in DOMAIN rounds
                         /\ rounds'[i].number = rounds[i].number
                         /\ rounds'[i].number <= rules.played
                      \/ i = n + 1 /\ rounds'[i].number = rules.played + 1
        <4>1. CASE i \in DOMAIN rounds
          BY <1>0, <3>3, <3>5, <4>1 DEF Numbered
        <4>2. CASE i = n + 1
          BY <1>0, <3>3, <4>2
        <4> QED BY <3>4, <4>1, <4>2
      <3>7. \A i \in DOMAIN rounds' : rounds'[i].number <= rules'.played
        BY <1>0, <2>1, <3>6
      <3>8. ASSUME NEW i \in DOMAIN rounds', NEW j \in DOMAIN rounds', i < j
            PROVE  rounds'[i].number < rounds'[j].number
        <4>1. i \in DOMAIN rounds
          BY <3>4, <3>8
        <4>2. CASE j \in DOMAIN rounds
          BY <3>3, <3>5, <3>8, <4>1, <4>2 DEF Numbered
        <4>3. CASE j = n + 1
          BY <1>0, <3>3, <3>4, <3>6, <4>1, <4>3
        <4> QED BY <3>4, <4>2, <4>3
      <3>9. Whole' => Len(rounds') = rules'.played /\ \A i \in DOMAIN rounds' : rounds'[i].number = i
        BY <1>0, <2>1, <3>2, <3>3, <3>4, <3>5, <3>6 DEF Numbered
      <3> QED BY <3>7, <3>8, <3>9 DEF Numbered
    <2> QED BY <1>9, <2>2, <2>3, <2>4 DEF EndRound
  <1> QED BY <1>1, <1>2, <1>3, <1>4, <1>5, <1>6, <1>7, <1>8, <1>9, QuietSteps DEF NextRounds

-----------------------------------------------------------------------------
(* The join by index *)

\* Summaries, records and hits, entry by entry.
LEMMA EntryTypes ==
    ASSUME RoundsTypeOK
    PROVE  /\ \A i \in DOMAIN rounds :
                 /\ rounds[i] \in RoundSummary
                 /\ rounds[i].startTick \in Nat
                 /\ \A p \in Players : rounds[i].stats[p].damage \in Nat
           /\ \A i \in DOMAIN econ, p \in Players :
                 econ[i][p] # Undefined => /\ econ[i][p] \in Record
                                      /\ econ[i][p].start \in Nat
                                      /\ econ[i][p].end \in Nat
           /\ \A i \in DOMAIN damage :
                 /\ damage[i] \in [Pairs -> Nat]
                 /\ \A p \in Players : HitsBy(p, damage[i]) \in Nat
           /\ current # Undefined =>
                 /\ current \in Window
                 /\ current.startTick \in Nat
                 /\ \A p \in Players : current.stats[p].damage \in Nat
           /\ currentTick \in Nat
  <1>1. ASSUME NEW i \in DOMAIN rounds
        PROVE  /\ rounds[i] \in RoundSummary
               /\ rounds[i].startTick \in Nat
               /\ \A p \in Players : rounds[i].stats[p].damage \in Nat
    <2>1. rounds[i] \in RoundSummary
      BY DEF RoundsTypeOK
    <2> QED BY <2>1 DEF RoundSummary, Stats
  <1>2. ASSUME NEW i \in DOMAIN econ, NEW p \in Players, econ[i][p] # Undefined
        PROVE  econ[i][p] \in Record /\ econ[i][p].start \in Nat /\ econ[i][p].end \in Nat
    <2>1. econ[i] \in [Players -> Record \cup {Undefined}]
      BY DEF RoundsTypeOK
    <2>2. econ[i][p] \in Record
      BY <1>2, <2>1
    <2> QED BY <2>2 DEF Record
  <1>3. ASSUME NEW i \in DOMAIN damage
        PROVE  damage[i] \in [Pairs -> Nat] /\ \A p \in Players : HitsBy(p, damage[i]) \in Nat
    <2>1. damage[i] \in [Pairs -> Nat]
      BY DEF RoundsTypeOK
    <2> QED BY <2>1, HitsAdd
  <1>4. current # Undefined => /\ current \in Window
                          /\ current.startTick \in Nat
                          /\ \A p \in Players : current.stats[p].damage \in Nat
    BY DEF RoundsTypeOK, Window, Stats
  <1> QED BY <1>1, <1>2, <1>3, <1>4 DEF RoundsTypeOK

\* WindowsJoin for the i-th of summaries rs and window c, damage d and economy e.
JoinedAt(rs, c, d, e, i, p) ==
    /\ CreditOf(rs, c, i, p) <= HitsBy(p, d[i])
    /\ e[i][p] # Undefined =>
          /\ OpenedAt(rs, c, i) <= e[i][p].start
          /\ i < Len(e) => e[i][p].end <= OpenedAt(rs, c, i + 1)

Open(c) == IF c = Undefined THEN 0 ELSE 1

LEMMA JoinMeans ==
    /\ WindowsJoin <=>
          ("discarded" \notin mishaps =>
              /\ Len(econ) = Len(rounds) + Open(current)
              /\ Len(damage) = Len(econ)
              /\ \A i \in DOMAIN econ, p \in Players :
                    JoinedAt(rounds, current, damage, econ, i, p))
    /\ WindowsJoin' <=>
          ("discarded" \notin mishaps' =>
              /\ Len(econ') = Len(rounds') + Open(current')
              /\ Len(damage') = Len(econ')
              /\ \A i \in DOMAIN econ', p \in Players :
                    JoinedAt(rounds', current', damage', econ', i, p))
  BY DEF WindowsJoin, JoinedAt, Open

LEMMA StartJoins ==
    ASSUME RoundsTypeOK, NothingAhead, WindowsJoin, RoundStart, currentTick' = currentTick
    PROVE  NothingAhead' /\ WindowsJoin'
  <1> DEFINE n == Len(econ)
  <1>0. /\ econ \in Seq([Players -> Record \cup {Undefined}])
        /\ damage \in Seq([Pairs -> Nat])
        /\ rounds \in Seq(RoundSummary)
        /\ Undefined \notin Window
    BY RoundsAssumption DEF RoundsTypeOK
  <1>1. /\ current' \in Window /\ current' = NewWindow
        /\ rounds' = rounds
        /\ econ' = Append(econ, NewRecords)
        /\ damage' = Append(damage, NoHits)
    BY StartTypes DEF RoundStart
  <1>2. /\ Len(econ') = n + 1 /\ DOMAIN econ' = 1 .. n + 1 /\ DOMAIN econ = 1 .. n /\ n \in Nat
        /\ \A i \in DOMAIN econ : econ'[i] = econ[i]
        /\ econ'[n + 1] = NewRecords
    BY <1>0, <1>1
  <1>3. /\ Len(damage') = Len(damage) + 1
        /\ DOMAIN damage = 1 .. Len(damage) /\ Len(damage) \in Nat
        /\ \A i \in DOMAIN damage : damage'[i] = damage[i]
        /\ damage'[Len(damage) + 1] = NoHits
        /\ damage' # << >>
    <2>1. /\ Len(damage') = Len(damage) + 1
          /\ DOMAIN damage = 1 .. Len(damage) /\ Len(damage) \in Nat
          /\ \A i \in DOMAIN damage : damage'[i] = damage[i]
          /\ damage'[Len(damage) + 1] = NoHits
      BY <1>0, <1>1
    <2>2. damage' # << >>
      BY <2>1
    <2> QED BY <2>1, <2>2
  <1>4. ASSUME NEW p \in Players, NewRecords[p] # Undefined
        PROVE  NewRecords[p].start = currentTick /\ NewRecords[p].end = currentTick
    BY <1>4 DEF NewRecords, NewRecord
  <1>5. current'.startTick = currentTick /\ \A p \in Players : current'.stats[p].damage = 0
    BY <1>1 DEF NewWindow, NoStats
  <1>6. NothingAhead'
    <2>1. \A i \in DOMAIN rounds' : rounds'[i].startTick <= currentTick'
      BY <1>1 DEF NothingAhead
    <2>2. current'.startTick <= currentTick' /\ damage' # << >>
      BY <1>3, <1>5, EntryTypes
    <2>3. ASSUME NEW i \in DOMAIN econ', NEW p \in Players, econ'[i][p] # Undefined
          PROVE  econ'[i][p].start <= currentTick' /\ econ'[i][p].end <= currentTick'
      <3>1. CASE i \in DOMAIN econ
        BY <1>2, <2>3, <3>1 DEF NothingAhead
      <3>2. CASE i = n + 1
        BY <1>2, <1>4, <2>3, <3>2, EntryTypes
      <3> QED BY <1>2, <3>1, <3>2
    <2> QED BY <2>1, <2>2, <2>3 DEF NothingAhead
  <1>7. WindowsJoin'
    <2>1. SUFFICES ASSUME "discarded" \notin mishaps'
                   PROVE  /\ Len(econ') = Len(rounds') + Open(current')
                          /\ Len(damage') = Len(econ')
                          /\ \A i \in DOMAIN econ', p \in Players :
                                JoinedAt(rounds', current', damage', econ', i, p)
      BY JoinMeans
    <2>2. current = Undefined /\ "discarded" \notin mishaps
      BY <2>1 DEF RoundStart
    <2>3. /\ Len(rounds) = n /\ Len(damage) = n
          /\ \A i \in DOMAIN econ, p \in Players :
                JoinedAt(rounds, current, damage, econ, i, p)
      BY <1>0, <2>2, JoinMeans DEF Open
    <2>4. Len(econ') = Len(rounds') + Open(current') /\ Len(damage') = Len(econ')
      BY <1>0, <1>1, <1>2, <1>3, <2>3 DEF Open
    <2>5. ASSUME NEW i \in DOMAIN econ', NEW p \in Players
          PROVE  JoinedAt(rounds', current', damage', econ', i, p)
      <3>1. CASE i \in DOMAIN econ
        <4>1. i \in 1 .. n /\ JoinedAt(rounds, current, damage, econ, i, p)
          BY <1>2, <2>3, <3>1
        <4>2. econ'[i] = econ[i] /\ damage'[i] = damage[i]
          BY <1>2, <1>3, <2>3, <3>1
        <4>3. /\ CreditOf(rounds', current', i, p) = CreditOf(rounds, current, i, p)
              /\ OpenedAt(rounds', current', i) = OpenedAt(rounds, current, i)
              /\ i < n => OpenedAt(rounds', current', i + 1) = OpenedAt(rounds, current, i + 1)
              /\ i = n => OpenedAt(rounds', current', i + 1) = currentTick
          BY <1>1, <1>2, <1>5, <2>3, <4>1 DEF CreditOf, OpenedAt
        <4>4. econ[i][p] # Undefined => econ[i][p].end <= currentTick
          BY <3>1 DEF NothingAhead
        <4>5. i < n \/ i = n
          BY <1>2, <4>1
        <4> QED BY <4>1, <4>2, <4>3, <4>4, <4>5 DEF JoinedAt
      <3>2. CASE i = n + 1
        <4>1. econ'[i] = NewRecords /\ damage'[i] = NoHits /\ ~ (i < Len(econ'))
          BY <1>2, <1>3, <2>3, <3>2
        <4>2. CreditOf(rounds', current', i, p) = 0 /\ OpenedAt(rounds', current', i) = currentTick
          BY <1>1, <1>2, <1>5, <2>3, <3>2 DEF CreditOf, OpenedAt
        <4>3. HitsBy(p, NoHits) \in Nat
          <5>1. NoHits \in [Pairs -> Nat]
            BY DEF NoHits
          <5> QED BY <5>1, HitsAdd
        <4>4. currentTick \in Nat
          BY EntryTypes
        <4> QED BY <1>4, <4>1, <4>2, <4>3, <4>4 DEF JoinedAt
      <3> QED BY <1>2, <3>1, <3>2
    <2> QED BY <2>4, <2>5
  <1> QED BY <1>6, <1>7

LEMMA EndJoins ==
    ASSUME RoundsTypeOK, NothingAhead, WindowsJoin, RoundEnd, currentTick' = currentTick
    PROVE  NothingAhead' /\ WindowsJoin'
  <1> DEFINE n == Len(econ)
  <1>0. /\ econ \in Seq([Players -> Record \cup {Undefined}])
        /\ rounds \in Seq(RoundSummary)
        /\ n \in Nat /\ DOMAIN econ = 1 .. n
        /\ Len(rounds) \in Nat /\ DOMAIN rounds = 1 .. Len(rounds)
        /\ currentTick \in Nat
    BY DEF RoundsTypeOK
  <1>1. /\ econ' \in Seq([Players -> Record \cup {Undefined}])
        /\ Len(econ') = n
        /\ \A i \in DOMAIN econ, p \in Players :
              /\ econ'[i][p] = Undefined <=> econ[i][p] = Undefined
              /\ econ[i][p] # Undefined =>
                    /\ econ'[i][p].start = econ[i][p].start
                    /\ \/ econ'[i][p].end = econ[i][p].end
                       \/ i = n /\ econ'[i][p].end = currentTick
    BY EndMoneyTypes DEF RoundEnd
  <1>2. DOMAIN econ' = DOMAIN econ
    BY <1>0, <1>1
  <1>3. UNCHANGED damage
    BY DEF RoundEnd
  \* The window that closes stays where it was.
  <1>4. /\ Len(rounds') + Open(current') = Len(rounds) + Open(current)
        /\ \A i \in 1 .. Len(rounds) + Open(current) :
              /\ OpenedAt(rounds', current', i) = OpenedAt(rounds, current, i)
              /\ \A p \in Players :
                    CreditOf(rounds', current', i, p) = CreditOf(rounds, current, i, p)
        /\ current' = Undefined
        /\ \A i \in DOMAIN rounds' : rounds'[i].startTick <= currentTick
    <2>1. CASE current = Undefined
      BY <2>1 DEF RoundEnd, windows, NothingAhead
    <2>2. CASE current # Undefined
      <3>1. /\ current' = Undefined
            /\ Len(rounds') = Len(rounds) + 1
            /\ \A i \in DOMAIN rounds : rounds'[i] = rounds[i]
            /\ rounds'[Len(rounds) + 1].startTick = current.startTick
            /\ rounds'[Len(rounds) + 1].stats = current.stats
            /\ rounds' = Append(rounds, Summary)
        BY <2>2, WindowCloses DEF RoundEnd
      <3>2. DOMAIN rounds' = 1 .. Len(rounds) + 1
        BY <1>0, <3>1
      <3>3. \A i \in DOMAIN rounds' : i \in DOMAIN rounds \/ i = Len(rounds) + 1
        BY <1>0, <3>2
      <3>4. \A i \in DOMAIN rounds' : rounds'[i].startTick <= currentTick
        BY <2>2, <3>1, <3>3 DEF NothingAhead
      <3>5. ASSUME NEW i \in 1 .. Len(rounds) + 1
            PROVE  /\ OpenedAt(rounds', current', i) = OpenedAt(rounds, current, i)
                   /\ \A p \in Players :
                         CreditOf(rounds', current', i, p) = CreditOf(rounds, current, i, p)
        <4>1. CASE i \in DOMAIN rounds
          BY <1>0, <3>1, <4>1 DEF OpenedAt, CreditOf
        <4>2. CASE i = Len(rounds) + 1
          BY <1>0, <3>1, <4>2 DEF OpenedAt, CreditOf
        <4> QED BY <3>2, <3>3, <4>1, <4>2
      <3> QED BY <1>0, <2>2, <3>1, <3>4, <3>5 DEF Open
    <2> QED BY <2>1, <2>2
  <1>5. NothingAhead'
    <2>1. ASSUME NEW i \in DOMAIN econ', NEW p \in Players, econ'[i][p] # Undefined
          PROVE  econ'[i][p].start <= currentTick' /\ econ'[i][p].end <= currentTick'
      <3>1. econ[i][p] # Undefined /\ econ[i][p].start <= currentTick /\ econ[i][p].end <= currentTick
        BY <1>1, <1>2, <2>1 DEF NothingAhead
      <3> QED BY <1>0, <1>1, <1>2, <2>1, <3>1
    <2> QED BY <1>4, <2>1 DEF NothingAhead
  <1>6. WindowsJoin'
    <2>1. SUFFICES ASSUME "discarded" \notin mishaps'
                   PROVE  /\ Len(econ') = Len(rounds') + Open(current')
                          /\ Len(damage') = Len(econ')
                          /\ \A i \in DOMAIN econ', p \in Players :
                                JoinedAt(rounds', current', damage', econ', i, p)
      BY JoinMeans
    <2>2. "discarded" \notin mishaps
      BY <2>1 DEF RoundEnd
    <2>3. /\ n = Len(rounds) + Open(current) /\ Len(damage) = n
          /\ \A i \in DOMAIN econ, p \in Players :
                JoinedAt(rounds, current, damage, econ, i, p)
      BY <2>2, JoinMeans
    <2>4. ASSUME NEW i \in DOMAIN econ', NEW p \in Players
          PROVE  JoinedAt(rounds', current', damage', econ', i, p)
      <3>1. i \in 1 .. n /\ i \in DOMAIN econ /\ JoinedAt(rounds, current, damage, econ, i, p)
        BY <1>0, <1>2, <2>3
      <3>2. /\ CreditOf(rounds', current', i, p) = CreditOf(rounds, current, i, p)
            /\ OpenedAt(rounds', current', i) = OpenedAt(rounds, current, i)
            /\ i < n => OpenedAt(rounds', current', i + 1) = OpenedAt(rounds, current, i + 1)
        BY <1>0, <1>4, <2>3, <3>1
      <3>3. econ'[i][p] # Undefined =>
              /\ econ[i][p] # Undefined
              /\ econ'[i][p].start = econ[i][p].start
              /\ i < n => econ'[i][p].end = econ[i][p].end
        BY <1>0, <1>1, <3>1
      <3> QED BY <1>1, <1>3, <3>1, <3>2, <3>3 DEF JoinedAt
    <2> QED BY <1>1, <1>3, <1>4, <2>3, <2>4
  <1> QED BY <1>5, <1>6

\* A hit is a hit of the matrix for each hit credited.
LEMMA HurtJoins ==
    ASSUME RoundsTypeOK, NothingAhead, WindowsJoin, NEW a \in Players, NEW v \in Players, Hurt(a, v)
    PROVE  NothingAhead' /\ WindowsJoin'
  <1> DEFINE Hit(p) == IF p = a THEN 1 ELSE 0
  <1>0. /\ damage \in Seq([Pairs -> Nat])
        /\ Len(damage) \in Nat /\ DOMAIN damage = 1 .. Len(damage)
        /\ Len(rounds) \in Nat /\ DOMAIN econ = 1 .. Len(econ)
        /\ Undefined \notin Window
    BY RoundsAssumption DEF RoundsTypeOK
  <1>1. UNCHANGED <<currentTick, rounds, econ, mishaps>>
    BY DEF Hurt
  <1>2. /\ current = Undefined => current' = Undefined
        /\ current # Undefined =>
              /\ current' # Undefined
              /\ current'.startTick = current.startTick
              /\ \A p \in Players :
                    current'.stats[p].damage = current.stats[p].damage + Hit(p)
    BY <1>0, HurtTypes
  <1>3. /\ Len(damage') = Len(damage)
        /\ \A i \in DOMAIN damage :
              damage'[i] = IF i = Len(damage) THEN OneMore(damage[i], a, v)
                                              ELSE damage[i]
    BY HurtTypes
  <1>4. ASSUME NEW i \in DOMAIN damage, NEW p \in Players
        PROVE  /\ HitsBy(p, damage[i]) \in Nat
               /\ HitsBy(p, damage'[i]) = HitsBy(p, damage[i])
                                            + IF i = Len(damage) THEN Hit(p) ELSE 0
    <2> DEFINE h == damage[i]
    <2>1. h \in [Pairs -> Nat]
      BY <1>0
    <2> HIDE DEF h
    <2>2. /\ HitsBy(p, h) \in Nat
          /\ HitsBy(p, OneMore(h, a, v)) = HitsBy(p, h) + Hit(p)
      BY <2>1, HitsAdd
    <2> QED BY <1>3, <2>2 DEF h
  <1>5. NothingAhead'
    <2>1. damage # << >> => damage' # << >>
      BY <1>0, <1>3
    <2> QED BY <1>1, <1>2, <2>1 DEF NothingAhead
  <1>6. WindowsJoin'
    <2>1. SUFFICES ASSUME "discarded" \notin mishaps
                   PROVE  /\ Len(econ') = Len(rounds') + Open(current')
                          /\ Len(damage') = Len(econ')
                          /\ \A i \in DOMAIN econ', p \in Players :
                                JoinedAt(rounds', current', damage', econ', i, p)
      BY <1>1, JoinMeans
    <2>2. /\ Len(econ) = Len(rounds) + Open(current) /\ Len(damage) = Len(econ)
          /\ \A i \in DOMAIN econ, p \in Players :
                JoinedAt(rounds, current, damage, econ, i, p)
      BY <2>1, JoinMeans
    <2>3. Open(current') = Open(current)
      BY <1>2 DEF Open
    <2>4. ASSUME NEW i \in DOMAIN econ, NEW p \in Players
          PROVE  JoinedAt(rounds, current', damage', econ, i, p)
      <3>1. /\ i \in 1 .. Len(econ) /\ i \in DOMAIN damage
            /\ JoinedAt(rounds, current, damage, econ, i, p)
        BY <1>0, <2>2
      <3>2. /\ OpenedAt(rounds, current', i) = OpenedAt(rounds, current, i)
            /\ i < Len(econ) => OpenedAt(rounds, current', i + 1) = OpenedAt(rounds, current, i + 1)
        BY <1>0, <1>2, <2>2, <3>1 DEF OpenedAt, Open
      <3>3. CASE i <= Len(rounds)
        <4>1. /\ CreditOf(rounds, current', i, p) = CreditOf(rounds, current, i, p)
              /\ CreditOf(rounds, current, i, p) \in Nat
          BY <1>0, <3>1, <3>3, EntryTypes DEF CreditOf
        <4>2. HitsBy(p, damage[i]) <= HitsBy(p, damage'[i])
          BY <1>4, <3>1
        <4>3. HitsBy(p, damage[i]) \in Nat /\ HitsBy(p, damage'[i]) \in Nat
          BY <1>4, <3>1
        <4>4. CreditOf(rounds, current, i, p) <= HitsBy(p, damage[i])
          BY <3>1 DEF JoinedAt
        <4>5. CreditOf(rounds, current', i, p) <= HitsBy(p, damage'[i])
          BY <4>1, <4>2, <4>3, <4>4
        <4> QED BY <3>1, <3>2, <4>5 DEF JoinedAt
      <3>4. CASE ~ (i <= Len(rounds))
        <4>1. current # Undefined /\ i = Len(damage)
          BY <1>0, <2>2, <3>1, <3>4 DEF Open
        <4>2. /\ CreditOf(rounds, current', i, p) = CreditOf(rounds, current, i, p) + Hit(p)
              /\ CreditOf(rounds, current, i, p) \in Nat
          BY <1>2, <3>4, <4>1, EntryTypes DEF CreditOf
        <4>3. HitsBy(p, damage'[i]) = HitsBy(p, damage[i]) + Hit(p)
          BY <1>4, <3>1, <4>1
        <4>4. CreditOf(rounds, current, i, p) <= HitsBy(p, damage[i])
          BY <3>1 DEF JoinedAt
        <4>5. CreditOf(rounds, current', i, p) <= HitsBy(p, damage'[i])
          BY <1>4, <3>1, <4>2, <4>3, <4>4
        <4> QED BY <3>1, <3>2, <4>5 DEF JoinedAt
      <3> QED BY <3>3, <3>4
    <2> QED BY <1>1, <1>3, <2>2, <2>3, <2>4
  <1> QED BY <1>5, <1>6

LEMMA KillJoins ==
    ASSUME RoundsTypeOK, NothingAhead, WindowsJoin,
           NEW a \in Players \cup {Undefined}, NEW v \in Players, Kill(a, v)
    PROVE  NothingAhead' /\ WindowsJoin'
  <1>1. UNCHANGED <<currentTick, rounds, econ, damage, mishaps>>
    BY DEF Kill
  <1>2. /\ current # Undefined /\ current' # Undefined
        /\ current'.startTick = current.startTick
        /\ \A p \in Players : current'.stats[p].damage = current.stats[p].damage
    BY KillTypes, RoundsAssumption
  <1>3. ASSUME NEW i, NEW p \in Players
        PROVE  /\ CreditOf(rounds, current', i, p) = CreditOf(rounds, current, i, p)
               /\ OpenedAt(rounds, current', i) = OpenedAt(rounds, current, i)
    BY <1>2 DEF CreditOf, OpenedAt
  <1>4. Open(current') = Open(current)
    BY <1>2 DEF Open
  <1>5. \A i \in DOMAIN econ, p \in Players :
           JoinedAt(rounds, current, damage, econ, i, p)
             => JoinedAt(rounds, current', damage, econ, i, p)
    BY <1>3 DEF JoinedAt
  <1>6. WindowsJoin'
    BY <1>1, <1>4, <1>5, JoinMeans
  <1> QED BY <1>1, <1>2, <1>6 DEF NothingAhead

LEMMA PurchaseJoins ==
    ASSUME RoundsTypeOK, NothingAhead, WindowsJoin, NEW q \in Players, Purchase(q)
    PROVE  NothingAhead' /\ WindowsJoin'
  <1>0. /\ Len(rounds) \in Nat /\ DOMAIN rounds = 1 .. Len(rounds)
        /\ Len(econ) \in Nat /\ DOMAIN econ = 1 .. Len(econ)
        /\ currentTick \in Nat
    BY DEF RoundsTypeOK
  <1>1. UNCHANGED <<currentTick, current, rounds, damage, mishaps>>
    BY DEF Purchase, windows
  <1>2. /\ econ' \in Seq([Players -> Record \cup {Undefined}])
        /\ Len(econ') = Len(econ)
        /\ \A i \in DOMAIN econ, p \in Players :
              \/ econ'[i][p] = econ[i][p]
              \/ i = Len(econ) /\ econ'[i][p] = NewRecord
    BY PurchaseTypes DEF TrackersOK
  <1>3. DOMAIN econ' = DOMAIN econ
    BY <1>0, <1>2
  <1>4. NewRecord.start = currentTick /\ NewRecord.end = currentTick
    BY DEF NewRecord
  <1>5. ASSUME NEW i \in DOMAIN econ, NEW p \in Players, econ'[i][p] # Undefined
        PROVE  \/ econ'[i][p] = econ[i][p] /\ econ[i][p] # Undefined
               \/ i = Len(econ) /\ econ'[i][p].start = currentTick /\ econ'[i][p].end = currentTick
    BY <1>2, <1>4, <1>5
  <1>6. NothingAhead'
    <2>1. ASSUME NEW i \in DOMAIN econ', NEW p \in Players, econ'[i][p] # Undefined
          PROVE  econ'[i][p].start <= currentTick' /\ econ'[i][p].end <= currentTick'
      BY <1>0, <1>1, <1>3, <1>5, <2>1 DEF NothingAhead
    <2> QED BY <1>1, <2>1 DEF NothingAhead
  <1>7. WindowsJoin'
    <2>1. SUFFICES ASSUME "discarded" \notin mishaps
                   PROVE  /\ Len(econ') = Len(rounds') + Open(current')
                          /\ Len(damage') = Len(econ')
                          /\ \A i \in DOMAIN econ', p \in Players :
                                JoinedAt(rounds', current', damage', econ', i, p)
      BY <1>1, JoinMeans
    <2>2. /\ Len(econ) = Len(rounds) + Open(current) /\ Len(damage) = Len(econ)
          /\ \A i \in DOMAIN econ, p \in Players :
                JoinedAt(rounds, current, damage, econ, i, p)
      BY <2>1, JoinMeans
    <2>3. ASSUME NEW i \in DOMAIN econ, NEW p \in Players
          PROVE  JoinedAt(rounds, current, damage, econ', i, p)
      <3>1. JoinedAt(rounds, current, damage, econ, i, p)
        BY <2>2
      <3>2. OpenedAt(rounds, current, i) <= currentTick
        <4>1. i \in 1 .. Len(econ)
          BY <1>0
        <4>2. i <= Len(rounds) \/ current # Undefined
          BY <1>0, <2>2, <4>1 DEF Open
        <4> QED BY <1>0, <4>1, <4>2 DEF OpenedAt, NothingAhead
      <3>3. i = Len(econ) => ~ (i < Len(econ'))
        BY <1>0, <1>2
      <3> QED BY <1>2, <1>5, <3>1, <3>2, <3>3 DEF JoinedAt
    <2> QED BY <1>1, <1>2, <1>3, <2>2, <2>3
  <1> QED BY <1>6, <1>7

LEMMA MvpJoins ==
    ASSUME RoundsTypeOK, NothingAhead, WindowsJoin, Mvp
    PROVE  NothingAhead' /\ WindowsJoin'
  <1>1. UNCHANGED <<currentTick, current, econ, damage, mishaps>>
    BY DEF Mvp
  <1>2. /\ rounds' \in Seq(RoundSummary)
        /\ Len(rounds') = Len(rounds)
        /\ \A i \in DOMAIN rounds :
              \/ rounds'[i] = rounds[i]
              \/ i = Len(rounds) /\ rounds'[i] = [rounds[i] EXCEPT !.mvp = rules.played]
    BY MvpTypes DEF TrackersOK
  <1>3. /\ DOMAIN rounds' = DOMAIN rounds /\ DOMAIN rounds = 1 .. Len(rounds)
        /\ Len(rounds) \in Nat /\ DOMAIN econ = 1 .. Len(econ) /\ Len(econ) \in Nat
    BY <1>2 DEF RoundsTypeOK
  <1>4. ASSUME NEW i \in DOMAIN rounds
        PROVE  rounds'[i].startTick = rounds[i].startTick /\ rounds'[i].stats = rounds[i].stats
    <2>1. rounds[i] \in RoundSummary
      BY EntryTypes
    <2> QED BY <1>2, <2>1 DEF RoundSummary
  <1>5. \A i \in Nat \ {0}, p \in Players :
           /\ CreditOf(rounds', current, i, p) = CreditOf(rounds, current, i, p)
           /\ OpenedAt(rounds', current, i) = OpenedAt(rounds, current, i)
    BY <1>2, <1>3, <1>4 DEF CreditOf, OpenedAt
  <1>6. ASSUME NEW i \in DOMAIN econ, NEW p \in Players,
               JoinedAt(rounds, current, damage, econ, i, p)
        PROVE  JoinedAt(rounds', current, damage, econ, i, p)
    <2>1. i \in Nat \ {0} /\ i + 1 \in Nat \ {0}
      BY <1>3
    <2> QED BY <1>5, <1>6, <2>1 DEF JoinedAt
  <1>7. WindowsJoin'
    BY <1>1, <1>2, <1>6, JoinMeans
  <1> QED BY <1>1, <1>3, <1>4, <1>7 DEF NothingAhead

LEMMA RoundsJoin ==
    ASSUME RoundsTypeOK, NothingAhead, WindowsJoin, [NextRounds]_roundVars
    PROVE  NothingAhead' /\ WindowsJoin'
  <1>0. currentTick \in Nat
    BY DEF RoundsTypeOK
  <1>1. ASSUME UNCHANGED <<currentTick, trackers>>, mishaps \subseteq mishaps'
        PROVE  NothingAhead' /\ WindowsJoin'
    <2>1. UNCHANGED <<currentTick, current, rounds, damage, econ>>
      BY <1>1 DEF trackers, windows
    <2> QED BY <1>1, <2>1, JoinMeans DEF NothingAhead
  <1>2. CASE UNCHANGED roundVars
    BY <1>1, <1>2 DEF roundVars
  <1>3. CASE Tick
    <2>1. UNCHANGED <<current, rounds, damage, econ, mishaps>> /\ currentTick' = currentTick + 1
      BY <1>3 DEF Tick, trackers, windows
    <2>2. NothingAhead'
      <3>1. \A i \in DOMAIN rounds : rounds[i].startTick <= currentTick + 1
        BY <1>0, EntryTypes DEF NothingAhead
      <3>2. current # Undefined => current.startTick <= currentTick + 1 /\ damage # << >>
        BY <1>0, EntryTypes DEF NothingAhead
      <3>3. \A i \in DOMAIN econ, p \in Players :
               econ[i][p] # Undefined => econ[i][p].start <= currentTick + 1 /\ econ[i][p].end <= currentTick + 1
        BY <1>0, EntryTypes DEF NothingAhead
      <3> QED BY <2>1, <3>1, <3>2, <3>3 DEF NothingAhead
    <2> QED BY <2>1, <2>2, JoinMeans
  <1>4. ASSUME NEW p \in Players, JoinOrLeave(p)
        PROVE  NothingAhead' /\ WindowsJoin'
    BY <1>1, <1>4 DEF JoinOrLeave
  <1>5. CASE WarmupStart
    BY <1>5, StartJoins DEF WarmupStart
  <1>6. CASE WarmupEnd
    BY <1>6, EndJoins DEF WarmupEnd
  <1>7. CASE BeginRound \/ Restart
    <2>1. (RoundStart \/ Unheard("start lost")) /\ currentTick' = currentTick
      BY <1>7 DEF BeginRound, Restart
    <2> QED BY <1>1, <2>1, StartJoins DEF Unheard
  <1>8. CASE GoLive
    BY <1>1, <1>8 DEF GoLive
  <1>9. ASSUME NEW f \in BOOLEAN, EndRound(f)
        PROVE  NothingAhead' /\ WindowsJoin'
    <2>1. (RoundEnd \/ Unheard("end lost")) /\ currentTick' = currentTick
      BY <1>9 DEF EndRound
    <2> QED BY <1>1, <2>1, EndJoins DEF Unheard
  <1>10. ASSUME NEW g \in {4, 5}, NEW w \in BOOLEAN, Pause(g, w)
         PROVE  NothingAhead' /\ WindowsJoin'
    BY <1>1, <1>10 DEF Pause
  <1> QED BY <1>2, <1>3, <1>4, <1>5, <1>6, <1>7, <1>8, <1>9, <1>10, HurtJoins, KillJoins,
             PurchaseJoins, MvpJoins DEF NextRounds

-----------------------------------------------------------------------------
(* The theorems *)

LEMMA RoundsInit == InitRounds => IInv
  <1> SUFFICES ASSUME InitRounds PROVE IInv
    OBVIOUS
  <1>1. RoundsTypeOK
    BY InitTypes
  <1>2. current = Undefined /\ rounds = << >> /\ damage = << >> /\ econ = << >> /\ overs = ended
    BY DEF InitRounds
  <1>3. DOMAIN rounds = {} /\ DOMAIN econ = {} /\ Len(rounds) = 0 /\ Len(econ) = 0 /\ Len(damage) = 0
    BY <1>2
  <1>4. PhaseOfStage
    <2>1. /\ rules.gamePhase = 2 /\ ~ rules.won
          /\ rules.warmup <=> stage = "warmup"
          /\ rules.freeze <=> stage = "freeze"
      BY DEF InitRounds
    <2>2. stage \in {"warmup", "freeze", "live"} /\ phase = stage
      BY DEF InitRounds
    <2>3. ComputeRoundPhase(rules) = stage
      BY <2>1, <2>2 DEF ComputeRoundPhase
    <2> QED BY <2>2, <2>3 DEF PhaseOfStage
  <1>5. WindowOfRound
    BY DEF InitRounds, WindowOfRound
  <1>6. NumbersCounted
    BY <1>3 DEF InitRounds, NumbersCounted
  <1>7. MvpOfItsRound /\ NumbersIncrease /\ OverPerRound
    BY <1>2, <1>3 DEF MvpOfItsRound, NumbersIncrease, OverPerRound
  <1>8. NothingAhead /\ WindowsJoin
    BY <1>2, <1>3 DEF NothingAhead, WindowsJoin
  <1> QED BY <1>1, <1>4, <1>5, <1>6, <1>7, <1>8 DEF IInv

LEMMA RoundsNext == IInv /\ [NextRounds]_roundVars => IInv'
  <1> SUFFICES ASSUME IInv, [NextRounds]_roundVars PROVE IInv'
    OBVIOUS
  <1> USE DEF IInv
  <1>1. RoundsTypeOK'
    BY NextTypes
  <1>2. PhaseOfStage' /\ OverPerRound'
    BY PhasesFollow
  <1>3. WindowOfRound' /\ MvpOfItsRound'
    BY AwardsFollow
  <1>4. NumbersCounted' /\ NumbersIncrease'
    BY NumbersFollow
  <1>5. NothingAhead' /\ WindowsJoin'
    BY RoundsJoin
  <1> QED BY <1>1, <1>2, <1>3, <1>4, <1>5

\* Every step of the trackers, lost events and restarts included, keeps the summaries
\* typed, numbered, awarded and joined as IInv says.
THEOREM RoundsHold == RoundsSpec => []IInv
  <1>1. InitRounds => IInv
    BY RoundsInit
  <1>2. IInv /\ [NextRounds]_roundVars => IInv'
    BY RoundsNext
  <1> QED BY <1>1, <1>2, PTL DEF RoundsSpec

\* state/RoundTracker.ts: the changes to "over" count the rounds that ended.
THEOREM PhaseCountsRounds == RoundsSpec => []OverPerRound
  <1>1. IInv => OverPerRound
    BY DEF IInv
  <1> QED BY <1>1, RoundsHold, PTL

\* convenience/RoundTracker.ts: an award goes to the summary of its round or to none,
\* unless the start of a round was lost.
THEOREM AwardsInTheirRound == RoundsSpec => []MvpOfItsRound
  <1>1. IInv => MvpOfItsRound
    BY DEF IInv
  <1> QED BY <1>1, RoundsHold, PTL

\* convenience/RoundTracker.ts: the numbers of the summaries increase, and are their
\* positions while nothing is lost.
THEOREM NumbersAscend == RoundsSpec => []NumbersIncrease
  <1>1. IInv => NumbersIncrease
    BY DEF IInv
  <1> QED BY <1>1, RoundsHold, PTL

\* DemoParser.parse: while no window was discarded, summary, economy and damage of an
\* index are of one round.
THEOREM IndexJoins == RoundsSpec => []JoinedByIndex
  <1>1. IInv => JoinedByIndex
    <2> SUFFICES ASSUME IInv, "discarded" \notin mishaps
                 PROVE  /\ Len(econ) = Len(rounds) + IF current = Undefined THEN 0 ELSE 1
                        /\ Len(damage) = Len(econ)
                        /\ \A i \in DOMAIN rounds, p \in Players :
                              /\ rounds[i].stats[p].damage <= HitsBy(p, damage[i])
                              /\ econ[i][p] # Undefined =>
                                    /\ rounds[i].startTick <= econ[i][p].start
                                    /\ i + 1 \in DOMAIN rounds =>
                                          econ[i][p].end <= rounds[i + 1].startTick
      BY DEF JoinedByIndex
    <2>1. /\ Len(econ) = Len(rounds) + IF current = Undefined THEN 0 ELSE 1
          /\ Len(damage) = Len(econ)
          /\ \A i \in DOMAIN econ, p \in Players :
                JoinedAt(rounds, current, damage, econ, i, p)
      BY JoinMeans DEF IInv, Open
    <2>2. /\ Len(rounds) \in Nat /\ DOMAIN rounds = 1 .. Len(rounds)
          /\ Len(econ) \in Nat /\ DOMAIN econ = 1 .. Len(econ)
      BY DEF IInv, RoundsTypeOK
    <2>3. ASSUME NEW i \in DOMAIN rounds, NEW p \in Players
          PROVE  /\ rounds[i].stats[p].damage <= HitsBy(p, damage[i])
                 /\ econ[i][p] # Undefined =>
                       /\ rounds[i].startTick <= econ[i][p].start
                       /\ i + 1 \in DOMAIN rounds => econ[i][p].end <= rounds[i + 1].startTick
      <3>1. i \in DOMAIN econ /\ i <= Len(rounds) /\ i \in Nat
        BY <2>1, <2>2
      <3>2. JoinedAt(rounds, current, damage, econ, i, p)
        BY <2>1, <3>1
      <3>3. i + 1 \in DOMAIN rounds => i < Len(econ) /\ i + 1 <= Len(rounds)
        BY <2>1, <2>2, <3>1
      <3> QED BY <3>1, <3>2, <3>3 DEF JoinedAt, CreditOf, OpenedAt
    <2> QED BY <2>1, <2>3
  <1> QED BY <1>1, RoundsHold, PTL

\* convenience/RoundTracker.ts: a summary handed out is final but for its award.
THEOREM SummariesFinal == RoundsSpec => SummariesKept
  <1>1. IInv /\ [NextRounds]_roundVars
          => [\A i \in DOMAIN rounds :
                 /\ i \in DOMAIN rounds'
                 /\ [rounds'[i] EXCEPT !.mvp = rounds[i].mvp] = rounds[i]]_roundVars
    <2> SUFFICES ASSUME IInv, [NextRounds]_roundVars, NEW i \in DOMAIN rounds
                 PROVE  i \in DOMAIN rounds' /\ [rounds'[i] EXCEPT !.mvp = rounds[i].mvp] = rounds[i]
      OBVIOUS
    <2>1. RoundsTypeOK /\ rounds \in Seq(RoundSummary) /\ rounds[i] \in RoundSummary
      BY DEF IInv, RoundsTypeOK
    <2>2. ASSUME rounds'[i] = rounds[i]
          PROVE  [rounds'[i] EXCEPT !.mvp = rounds[i].mvp] = rounds[i]
      BY <2>1, <2>2 DEF RoundSummary
    <2>3. CASE Mvp
      <3>1. /\ rounds' \in Seq(RoundSummary) /\ Len(rounds') = Len(rounds)
            /\ rounds'[i] = rounds[i] \/ rounds'[i] = [rounds[i] EXCEPT !.mvp = rules.played]
        BY <2>1, <2>3, MvpTypes DEF TrackersOK
      <3>2. i \in DOMAIN rounds'
        BY <2>1, <3>1
      <3>3. ASSUME rounds'[i] = [rounds[i] EXCEPT !.mvp = rules.played]
            PROVE  [rounds'[i] EXCEPT !.mvp = rounds[i].mvp] = rounds[i]
        BY <2>1, <3>3 DEF RoundSummary
      <3> QED BY <2>2, <3>1, <3>2, <3>3
    <2>4. CASE rounds' = rounds
      BY <2>2, <2>4
    <2>5. CASE RoundEnd
      <3>1. CASE current = Undefined
        BY <2>4, <2>5, <3>1 DEF RoundEnd, windows
      <3>2. CASE current # Undefined
        <4>1. rounds' = Append(rounds, Summary)
          BY <2>5, <3>2 DEF RoundEnd
        <4>2. i \in DOMAIN rounds' /\ rounds'[i] = rounds[i]
          BY <2>1, <4>1
        <4> QED BY <2>2, <4>2
      <3> QED BY <3>1, <3>2
    <2>6. CASE UNCHANGED roundVars \/ Tick \/ WarmupStart \/ GoLive \/ BeginRound \/ Restart
      <3>1. rounds' = rounds
        BY <2>6 DEF roundVars, trackers, windows, Tick, WarmupStart, GoLive, BeginRound, Restart,
                    RoundStart, Unheard
      <3> QED BY <2>4, <3>1
    <2>7. ASSUME NEW a, NEW v, Hurt(a, v) \/ Kill(a, v) \/ Purchase(v) \/ JoinOrLeave(v)
          PROVE  rounds' = rounds
      BY <2>7 DEF Hurt, Kill, Purchase, JoinOrLeave, trackers, windows
    <2>8. CASE WarmupEnd
      BY <2>5, <2>8 DEF WarmupEnd
    <2>9. ASSUME NEW f \in BOOLEAN, EndRound(f) PROVE RoundEnd \/ rounds' = rounds
      BY <2>9 DEF EndRound, Unheard, trackers, windows
    <2>10. ASSUME NEW g \in {4, 5}, NEW w \in BOOLEAN, Pause(g, w) PROVE rounds' = rounds
      BY <2>10 DEF Pause, trackers, windows
    <2> QED BY <2>3, <2>4, <2>5, <2>6, <2>7, <2>8, <2>9, <2>10 DEF NextRounds
  <1> QED BY <1>1, RoundsHold, PTL DEF RoundsSpec, SummariesKept

=============================================================================
