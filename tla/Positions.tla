------------------------------- MODULE Positions -------------------------------
(***************************************************************************)
(* PositionTracker (src/convenience/PositionTracker.ts): where every       *)
(* player is, every few ticks.  There is no per-tick event, so any         *)
(* entityUpdated serves as one, and only the tick tells it whether to      *)
(* sample.                                                                 *)
(***************************************************************************)
EXTENDS Integers, Sequences

CONSTANTS
    SampleRateTicks,    \* the option, whatever the caller passed
    None

ASSUME PositionsAssumption == SampleRateTicks \in Int /\ None \notin Int

VARIABLES
    tick,               \* DemoParser.currentTick: the tick of the frame being read
    lastSampledTick,    \* None stands for -Infinity
    samples             \* a tick and the players found at it, per sampling

positions == <<lastSampledTick, samples>>

PositionsInit == lastSampledTick = None /\ samples = << >>

RateAsGiven == SampleRateTicks          \* variant: the option is not coerced

SampleRate == IF SampleRateTicks > 0 THEN SampleRateTicks ELSE 1

\* onEntityUpdated; players is parser.players.
Sample(players) ==
    IF lastSampledTick # None /\ tick - lastSampledTick < SampleRate
    THEN UNCHANGED positions
    ELSE /\ lastSampledTick' = tick
         /\ samples' = Append(samples, [tick |-> tick, players |-> players])

-----------------------------------------------------------------------------
\* The samples are in tick-ascending order, at least the asked-for number of ticks
\* apart and never two of one tick: however many entities a tick updates, whatever
\* rate was asked for, and also when the ticks of the frames run backwards.
PositionsAscend ==
    \A m, n \in DOMAIN samples : m < n =>
        /\ samples[n].tick > samples[m].tick
        /\ samples[n].tick - samples[m].tick >= SampleRateTicks
=============================================================================
