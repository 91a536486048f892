SPECIFICATION Spec
CONSTANTS
    Indices = 4
    Serials = 2
    RawSerials = 4
    SampleRateTicks = 0
    None = None
    a = a
    b = b
    PlayerIds <- MCPlayerIds
    ProjectileIds <- MCProjectileIds
    Classes <- MCClasses
    Places <- MCPlaces
    MaxTick = 1
    MaxUses = 3
    MaxSteps = 10
SYMMETRY PlaceSymmetry
CHECK_DEADLOCK FALSE
INVARIANT EveryFlightIsWhole
