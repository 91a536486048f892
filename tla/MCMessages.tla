----------------------------- MODULE MCMessages -----------------------------
(***************************************************************************)
(* ParseLoop and Codec for TLC, one of them in a behaviour: the frames of  *)
(* a demo and the turns of their messages, or what a generated decoder     *)
(* takes from the bytes of a message, for every type of message.           *)
(***************************************************************************)
EXTENDS MCParseLoop, Codec

MCTypes == DOMAIN messages

VARIABLE half       \* the module that takes the steps; the other stays as it is

\* No message is there to decode.
NoCodec ==
    /\ sent = NoMessage /\ buffer = << >> /\ whole = FALSE /\ readerPos = 0
    /\ calls = << >> /\ status = "thrown"

\* An empty buffer, which was refused.
NoDemo ==
    /\ size = 0 /\ pos = 0 /\ frameStart = 0 /\ frame = "none" /\ left = 0
    /\ file = [o \in 0 .. MaxSize - 1 |-> Unread]
    /\ sendTables = None /\ serverClasses = None /\ stringTables = FALSE /\ descriptors = FALSE
    /\ lastError = None /\ fatals = 0
    /\ at = "over" /\ outcome = "escaped" /\ met = {"header"}

MCInit ==
    \/ half = "loop" /\ Init /\ NoCodec
    \/ half = "codec" /\ NoDemo /\ InitCodec

MCNext ==
    /\ UNCHANGED half
    /\ \/ half = "loop" /\ Next /\ UNCHANGED codecVars
       \/ half = "codec" /\ NextCodec /\ UNCHANGED vars

MCVars == <<half, vars, codecVars>>

\* The parse is one synchronous call, which runs to its end.
MCSpec == MCInit /\ [][MCNext]_MCVars /\ WF_MCVars(MCNext)

=============================================================================
