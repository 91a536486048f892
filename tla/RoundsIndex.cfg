SPECIFICATION RoundsSpec
CONSTANTS
    ann = ann
    Undefined = Undefined
    Players <- MCPlayers
    LastTick = 2
    MaxStarts = 2
    MaxMoves = 2
INVARIANT IndicesMatch
