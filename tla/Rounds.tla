-------------------------------- MODULE Rounds --------------------------------
(***************************************************************************)
(* The three trackers that DemoParser.parse attaches to count rounds       *)
(* (src/convenience/RoundTracker.ts, DamageMatrix.ts, EconomyTracker.ts)   *)
(* and the phase tracker of src/state/RoundTracker.ts.                     *)
(*                                                                         *)
(* Each tracker keeps its own idea of which round it is: the summaries     *)
(* count windows closed by round_end, the other two count round_starts.    *)
(* Their results are joined by index after the parse.                      *)
(*                                                                         *)
(* The game server is the environment.  It plays warmup, rounds, halftime  *)
(* and the end of the match, and may restart the match at any time; an     *)
(* event may be lost.  Money is the tick at which it was read, an award is *)
(* the round it was given for, and damage is counted in hits.              *)
(***************************************************************************)
EXTENDS Integers, Sequences, FiniteSets, FiniteSetsExt

CONSTANTS
    Players,        \* by slot
    Undefined,
    LastTick,       \* bounds: the tick,
    MaxStarts,      \* the rounds the server starts,
    MaxMoves         \* what players do

\* An open window, and an entry of the economy; what a summary adds to its window.
Stats == [kills : Nat, deaths : Nat, damage : Nat]
Window == [startTick : Nat, kills : Nat, stats : [Players -> Stats]]
Record == [start : Nat, end : Nat]
RoundSummary ==
    [number : Nat, mvp : Nat \cup {Undefined}, startTick : Nat, endTick : Nat, kills : Nat,
     stats : [Players -> Stats]]

ASSUME RoundsAssumption ==
    /\ IsFiniteSet(Players)
    /\ Undefined \notin Players
    /\ Undefined \notin Int
    /\ Undefined \notin Window
    /\ Undefined \notin Record
    /\ LastTick \in Nat
    /\ MaxStarts \in Nat
    /\ MaxMoves \in Nat

VARIABLES
    currentTick,    \* DemoParser.currentTick
    stage,          \* what the server is doing
    present,        \* the players in the game
    rules,          \* the networked props of CCSGameRulesProxy
    phase,          \* RoundTracker._phase
    overs,          \* how often roundStateChanged said "over"
    current,        \* the open window of ConvenienceRoundTracker, or Undefined
    rounds,         \* its summaries
    damage,         \* DamageMatrix.perRound: pair -> hits
    match,          \* DamageMatrix.match
    econ,           \* EconomyTracker.perRound
    ended,          \* rounds the server has ended
    started,        \* and started, for the bound
    moves,          \* what MaxMoves bounds
    restarted,      \* the server has counted from 0 again
    mishaps         \* what has gone wrong so far

play == <<stage, present, ended, started, restarted>>
phases == <<rules, phase, overs>>
windows == <<current, rounds>>
trackers == <<windows, damage, match, econ>>
roundVars == <<currentTick, play, phases, trackers, moves, mishaps>>

Mishaps ==
    {"discarded",   \* a round_start found a window open
     "warmup",      \* a round_end of the warmup closed one
     "start lost", "end lost"}

Pairs == Players \X Players
NoHits == [pair \in Pairs |-> 0]
NoStats == [p \in Players |-> [kills |-> 0, deaths |-> 0, damage |-> 0]]

\* The recording begins in the warmup or in a round, of which no start is heard.
InitRounds ==
    /\ currentTick = 0
    /\ stage \in {"warmup", "freeze", "live"}
    /\ present \in SUBSET Players
    /\ rules = [gamePhase |-> 2, warmup |-> stage = "warmup", freeze |-> stage = "freeze",
                won |-> FALSE, played |-> 0]
    /\ phase = stage
    /\ overs = 0
    /\ current = Undefined
    /\ rounds = << >>
    /\ damage = << >>
    /\ match = NoHits
    /\ econ = << >>
    /\ ended = 0
    /\ started = 0
    /\ moves = 0
    /\ restarted = FALSE
    /\ mishaps = IF stage = "warmup" THEN {} ELSE {"start lost"}

-----------------------------------------------------------------------------
(* The phase tracker *)

FreezeFirst(r) ==               \* variant: freeze is looked at before the win status
    IF r.gamePhase \in {4, 5} THEN "over"
    ELSE IF r.warmup THEN "warmup"
    ELSE IF r.freeze THEN "freeze"
    ELSE IF r.won THEN "over"
    ELSE "live"

\* gamePhase 4 is halftime, 5 postgame; won is roundWinStatus # 0.
ComputeRoundPhase(r) ==
    IF r.gamePhase \in {4, 5} THEN "over"
    ELSE IF r.warmup THEN "warmup"
    ELSE IF r.won THEN "over"
    ELSE IF r.freeze THEN "freeze"
    ELSE "live"

\* An update of the rules entity; roundStateChanged is emitted when the phase changes.
OnUpdate(r) ==
    /\ rules' = r
    /\ phase' = ComputeRoundPhase(r)
    /\ overs' = IF phase' # phase /\ phase' = "over" THEN overs + 1 ELSE overs

-----------------------------------------------------------------------------
(* round_start *)

NewWindow == [startTick |-> currentTick, kills |-> 0, stats |-> NoStats]
NewRecord == [start |-> currentTick, end |-> currentTick]

NewRecords == [p \in Players |-> IF p \in present THEN NewRecord ELSE Undefined]

RoundStartKeepsWindow ==        \* variant: an open window is kept
    /\ current' = IF current = Undefined THEN NewWindow ELSE current
    /\ econ' = Append(econ, NewRecords)
    /\ damage' = Append(damage, NoHits)
    /\ UNCHANGED <<rounds, match, mishaps>>

\* An open window is discarded; economy and damage go on to their next round.
RoundStart ==
    /\ current' = NewWindow
    /\ econ' = Append(econ, NewRecords)
    /\ damage' = Append(damage, NoHits)
    /\ mishaps' = IF current = Undefined THEN mishaps ELSE mishaps \cup {"discarded"}
    /\ UNCHANGED <<rounds, match>>

-----------------------------------------------------------------------------
(* round_end *)

\* The economy tracker reads the money of the players it has a record of.
EndMoney ==
    IF econ = << >> THEN econ
    ELSE [econ EXCEPT ![Len(econ)] =
             [p \in Players |-> IF @[p] # Undefined /\ p \in present THEN [@[p] EXCEPT !.end = currentTick]
                                                                ELSE @[p]]]

SummaryUncounted ==             \* variant: numbered from 0
    [number |-> rules.played, mvp |-> Undefined,
     startTick |-> current.startTick, endTick |-> currentTick,
     kills |-> current.kills, stats |-> current.stats]

\* The rules do not count the round yet.
Summary ==
    [number |-> rules.played + 1, mvp |-> Undefined,
     startTick |-> current.startTick, endTick |-> currentTick,
     kills |-> current.kills, stats |-> current.stats]

\* Without an open window there is no summary.
RoundEnd ==
    /\ econ' = EndMoney
    /\ \/ /\ current = Undefined
          /\ UNCHANGED <<windows, mishaps>>
       \/ /\ current # Undefined
          /\ mishaps' = IF stage = "warmup" THEN mishaps \cup {"warmup"} ELSE mishaps
          /\ rounds' = Append(rounds, Summary)
          /\ current' = Undefined
    /\ UNCHANGED <<damage, match>>

-----------------------------------------------------------------------------
(* What happens in a round *)

Move == moves < MaxMoves /\ moves' = moves + 1

HurtLate(attacker, victim) ==   \* variant: with no window open, the last summary is credited
    /\ Move
    /\ match' = [match EXCEPT ![<<attacker, victim>>] = @ + 1]
    /\ damage' = IF damage = << >> THEN damage
                 ELSE [damage EXCEPT ![Len(damage)][<<attacker, victim>>] = @ + 1]
    /\ current' = IF current = Undefined THEN current
                  ELSE [current EXCEPT !.stats[attacker].damage = @ + 1]
    /\ rounds' = IF current = Undefined /\ rounds # << >>
                   THEN [rounds EXCEPT ![Len(rounds)].stats[attacker].damage = @ + 1]
                   ELSE rounds
    /\ UNCHANGED <<currentTick, play, phases, econ, mishaps>>

\* The matrix counts a hit for the match and for its current round; the summaries credit
\* the attacker while a window is open.
Hurt(attacker, victim) ==
    /\ Move
    /\ match' = [match EXCEPT ![<<attacker, victim>>] = @ + 1]
    /\ damage' = IF damage = << >> THEN damage
                 ELSE [damage EXCEPT ![Len(damage)][<<attacker, victim>>] = @ + 1]
    /\ current' = IF current = Undefined THEN current
                  ELSE [current EXCEPT !.stats[attacker].damage = @ + 1]
    /\ UNCHANGED <<currentTick, play, phases, rounds, econ, mishaps>>

\* The attacker is Undefined when the world killed.  Assists and the bomb's events are kept in
\* the same way and left out.
Scores(attacker, victim) ==
    [p \in Players |->
        [current.stats[p] EXCEPT !.kills = IF p = attacker THEN @ + 1 ELSE @,
                                 !.deaths = IF p = victim THEN @ + 1 ELSE @]]

Kill(attacker, victim) ==
    /\ Move
    /\ current # Undefined
    /\ current' = [current EXCEPT !.kills = @ + 1, !.stats = Scores(attacker, victim)]
    /\ UNCHANGED <<currentTick, play, phases, rounds, damage, match, econ, mishaps>>

\* A player with no record of the round gets one; the purchases are left out.
Purchase(p) ==
    /\ Move
    /\ econ # << >>
    /\ econ' = IF econ[Len(econ)][p] # Undefined THEN econ
               ELSE [econ EXCEPT ![Len(econ)][p] = NewRecord]
    /\ UNCHANGED <<currentTick, play, phases, windows, damage, match, mishaps>>

-----------------------------------------------------------------------------
(* The server: one step is what it sends at once, with the handlers' work *)

MvpAnyTime ==                   \* variant: an open window is no obstacle
    /\ stage = "over"
    /\ rounds # << >>
    /\ rounds' = [rounds EXCEPT ![Len(rounds)].mvp = rules.played]
    /\ UNCHANGED <<currentTick, play, phases, current, damage, match, econ, moves, mishaps>>

\* The award goes to the last summary; with a window open it is dropped.
Mvp ==
    /\ stage = "over"
    /\ rounds # << >>
    /\ current = Undefined
    /\ rounds' = [rounds EXCEPT ![Len(rounds)].mvp = rules.played]
    /\ UNCHANGED <<currentTick, play, phases, current, damage, match, econ, moves, mishaps>>

Unheard(mishap) ==
    /\ mishaps' = mishaps \cup {mishap}
    /\ UNCHANGED trackers

\* In the warmup rounds may start and end; the rules do not tell.
WarmupStart ==
    /\ stage = "warmup"
    /\ started < MaxStarts
    /\ started' = started + 1
    /\ RoundStart
    /\ UNCHANGED <<currentTick, stage, present, ended, restarted, phases, moves>>

WarmupEnd ==
    /\ stage = "warmup"
    /\ RoundEnd
    /\ UNCHANGED <<currentTick, play, phases, moves>>

\* At the beginning of a round.
RoundRules(played) ==
    [gamePhase |-> 2, warmup |-> FALSE, freeze |-> TRUE, won |-> FALSE, played |-> played]

BeginRound ==
    /\ stage \in {"warmup", "over", "halftime"}
    /\ started < MaxStarts
    /\ started' = started + 1
    /\ stage' = "freeze"
    /\ OnUpdate(RoundRules(rules.played))
    /\ RoundStart \/ Unheard("start lost")
    /\ UNCHANGED <<currentTick, present, ended, restarted, moves>>

\* The round in progress never ends, and the count of rounds starts again.
Restart ==
    /\ stage \in {"freeze", "live", "over"}
    /\ started < MaxStarts
    /\ started' = started + 1
    /\ stage' = "freeze"
    /\ OnUpdate(RoundRules(0))
    /\ restarted' = TRUE
    /\ RoundStart \/ Unheard("start lost")
    /\ UNCHANGED <<currentTick, present, ended, moves>>

GoLive ==
    /\ stage = "freeze"
    /\ stage' = "live"
    /\ OnUpdate([rules EXCEPT !.freeze = FALSE])
    /\ UNCHANGED <<currentTick, present, ended, started, restarted, trackers, moves, mishaps>>

\* round_end goes out before the update that counts the round, which may already carry
\* the next freeze.
EndRound(freeze) ==
    /\ stage = "live"
    /\ stage' = "over"
    /\ ended' = ended + 1
    /\ RoundEnd \/ Unheard("end lost")
    /\ OnUpdate([rules EXCEPT !.won = TRUE, !.freeze = freeze, !.played = @ + 1])
    /\ UNCHANGED <<currentTick, present, started, restarted, moves>>

\* Halftime and the end of the match, the win status kept or reset.
Pause(gamePhase, won) ==
    /\ stage = "over"
    /\ stage' = IF gamePhase = 4 THEN "halftime" ELSE "done"
    /\ OnUpdate([rules EXCEPT !.gamePhase = gamePhase, !.won = won])
    /\ UNCHANGED <<currentTick, present, ended, started, restarted, trackers, moves, mishaps>>

JoinOrLeave(p) ==
    /\ Move
    /\ present' = IF p \in present THEN present \ {p} ELSE present \cup {p}
    /\ UNCHANGED <<currentTick, stage, ended, started, restarted, phases, trackers, mishaps>>

Tick ==
    /\ currentTick < LastTick
    /\ currentTick' = currentTick + 1
    /\ UNCHANGED <<play, phases, trackers, moves, mishaps>>

NextRounds ==
    \/ \E a \in Players, v \in Players : Hurt(a, v)
    \/ \E a \in Players \cup {Undefined}, v \in Players : Kill(a, v)
    \/ \E p \in Players : Purchase(p) \/ JoinOrLeave(p)
    \/ Mvp
    \/ WarmupStart
    \/ WarmupEnd
    \/ BeginRound
    \/ Restart
    \/ GoLive
    \/ \E freeze \in BOOLEAN : EndRound(freeze)
    \/ \E gamePhase \in {4, 5}, won \in BOOLEAN : Pause(gamePhase, won)
    \/ Tick

RoundsSpec == InitRounds /\ [][NextRounds]_roundVars

-----------------------------------------------------------------------------
(* The inductive invariant *)

\* The type of the trackers' state, the server's and the bounds'.
RoundsTypeOK ==
    /\ currentTick \in Nat
    /\ stage \in {"warmup", "freeze", "live", "over", "halftime", "done"}
    /\ present \in SUBSET Players
    /\ rules \in [gamePhase : Nat, warmup : BOOLEAN, freeze : BOOLEAN, won : BOOLEAN,
                  played : Nat]
    /\ phase \in {"warmup", "freeze", "live", "over"}
    /\ overs \in Nat
    /\ current \in Window \cup {Undefined}
    /\ rounds \in Seq(RoundSummary)
    /\ damage \in Seq([Pairs -> Nat])
    /\ match \in [Pairs -> Nat]
    /\ econ \in Seq([Players -> Record \cup {Undefined}])
    /\ ended \in Nat
    /\ started \in Nat
    /\ moves \in Nat
    /\ restarted \in BOOLEAN
    /\ mishaps \in SUBSET Mishaps

\* The tracker's phase is what the rules say, and at each stage what the stage says.
PhaseOfStage ==
    /\ phase = ComputeRoundPhase(rules)
    /\ stage = "warmup" => phase = "warmup"
    /\ stage = "freeze" => phase = "freeze"
    /\ stage = "live" => phase = "live"
    /\ stage \in {"over", "halftime", "done"} => phase = "over"

\* While no start was lost, a round in progress has a window, and a window that closed
\* closed with the number that the rules show until the next round.
WindowOfRound ==
    "start lost" \notin mishaps =>
        /\ stage \in {"freeze", "live"} => current # Undefined
        /\ stage = "over" /\ current = Undefined =>
              rounds # << >> /\ rounds[Len(rounds)].number = rules.played

\* Until the server counts again from 0, no summary is ahead of the rules, and without
\* mishaps there is one for every round that the rules have counted.
NumbersCounted ==
    ~ restarted /\ "warmup" \notin mishaps =>
        /\ \A i \in DOMAIN rounds : rounds[i].number <= rules.played
        /\ mishaps \cap {"start lost", "end lost"} = {} => Len(rounds) = rules.played

\* The i-th window, closed or open: when it opened, and what it credits p with.
OpenedAt(rs, c, i) == IF i <= Len(rs) THEN rs[i].startTick ELSE c.startTick

CreditOf(rs, c, i, p) == IF i <= Len(rs) THEN rs[i].stats[p].damage ELSE c.stats[p].damage

HitsBy(p, h) == MapThenSumSet(LAMBDA v : h[<<p, v>>], Players)

\* Nothing carries a tick that is still to come.
NothingAhead ==
    /\ \A i \in DOMAIN rounds : rounds[i].startTick <= currentTick
    /\ current # Undefined => current.startTick <= currentTick /\ damage # << >>
    /\ \A i \in DOMAIN econ, p \in Players :
          econ[i][p] # Undefined => econ[i][p].start <= currentTick /\ econ[i][p].end <= currentTick

\* The open window takes part in the join: it is the last of all.
WindowsJoin ==
    "discarded" \notin mishaps =>
        /\ Len(econ) = Len(rounds) + IF current = Undefined THEN 0 ELSE 1
        /\ Len(damage) = Len(econ)
        /\ \A i \in DOMAIN econ, p \in Players :
              /\ CreditOf(rounds, current, i, p) <= HitsBy(p, damage[i])
              /\ econ[i][p] # Undefined =>
                    /\ OpenedAt(rounds, current, i) <= econ[i][p].start
                    /\ i < Len(econ) =>
                          econ[i][p].end <= OpenedAt(rounds, current, i + 1)

-----------------------------------------------------------------------------
(* Properties *)

\* The join by index of DemoParser.parse: as long as no window was discarded, summary,
\* economy and damage of an index are of the same round, lost events, restarts, late
\* purchases and players who come and go notwithstanding.
JoinedByIndex ==
    "discarded" \notin mishaps =>
        /\ Len(econ) = Len(rounds) + IF current = Undefined THEN 0 ELSE 1
        /\ Len(damage) = Len(econ)
        /\ \A i \in DOMAIN rounds, p \in Players :
              /\ rounds[i].stats[p].damage <= HitsBy(p, damage[i])
              /\ econ[i][p] # Undefined =>
                    /\ rounds[i].startTick <= econ[i][p].start
                    /\ i + 1 \in DOMAIN rounds => econ[i][p].end <= rounds[i + 1].startTick

\* A summary handed out is final but for its award: what happens after round_end, before
\* the next round_start, is not added to it.
SummariesKept ==
    [][\A i \in DOMAIN rounds :
          /\ i \in DOMAIN rounds'
          /\ [rounds'[i] EXCEPT !.mvp = rounds[i].mvp] = rounds[i]]_roundVars

\* Where the end of a round was lost its award is dropped, it does not go to the round
\* before; only a lost start lets one be given to the wrong round.
MvpOfItsRound ==
    "start lost" \notin mishaps =>
        \A i \in DOMAIN rounds : rounds[i].mvp \in {Undefined, rounds[i].number}

\* The numbers of the summaries increase whatever is lost, and are their positions when
\* nothing is; a round_end in the warmup is not counted.
NumbersIncrease ==
    ~ restarted /\ "warmup" \notin mishaps =>
        \A i \in DOMAIN rounds :
            /\ mishaps \cap {"start lost", "end lost"} = {} => rounds[i].number = i
            /\ \A j \in DOMAIN rounds : i < j => rounds[i].number < rounds[j].number

\* state/RoundTracker.ts, 38-41: counting the changes to "over" counts the rounds that
\* ended, when the next freeze comes with the win status, at halftime and after the match.
OverPerRound == overs = ended

\* The inductive invariant.
IInv ==
    /\ RoundsTypeOK
    /\ PhaseOfStage
    /\ OverPerRound
    /\ WindowOfRound
    /\ MvpOfItsRound
    /\ NumbersCounted
    /\ NumbersIncrease
    /\ NothingAhead
    /\ WindowsJoin

-----------------------------------------------------------------------------
(* What the comments say *)

\* EconomyTracker.ts, 24-25 and 103, and DamageMatrix.ts, 17: their round index matches
\* DemoResult.rounds, so that a summary is joined with money read during its round.
IndicesMatch ==
    \A i \in DOMAIN rounds, p \in Players :
        econ[i][p] # Undefined => econ[i][p].end >= rounds[i].startTick

=============================================================================
