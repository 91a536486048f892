SPECIFICATION MCSpec
CONSTANTS
    ann = ann
    None = None
    Undefined = Undefined
    Players <- MCPlayers
    LastTick = 2
    MaxStarts = 2
    MaxMoves = 2
    Indices = 4
    Serials = 2
    RawSerials = 4
    SampleRateTicks = 0
    a = a
    b = b
    PlayerIds <- MCPlayerIds
    ProjectileIds <- MCProjectileIds
    Classes <- MCClasses
    Places <- MCPlaces
    MaxTick = 1
    MaxUses = 3
    MaxSteps = 10
SYMMETRY PlaceSymmetry
CHECK_DEADLOCK FALSE
INVARIANTS
    JoinedByIndex
    MvpOfItsRound
    NumbersIncrease
    OverPerRound
    PositionsAscend
    FlightIsWhole
    ThrowerIsThrower
PROPERTIES
    SummariesKept
