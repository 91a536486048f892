SPECIFICATION MCSpec
CONSTANTS
    userinfo = userinfo
    downloadables = downloadables
    ann = ann
    bob = bob
    key0 = key0
    blank = blank
    None = None
    Names <- MCNames
    UserInfo = userinfo
    Keys <- MCKeys
    Blank = blank
    Users <- MCUsers
    Capacities <- MCCapacities
    SnapshotCapacity = 2
    MaxCapacity = 2
    NoValue = NoValue
    HistorySize = 2
    ServerHistory = 2
    MaxStringLength = 4
    Creates <- MCCreates
    Updates <- MCUpdates
    Snapshots <- MCSnapshots
    MaxMessages = 3
INVARIANTS
    TypeOK
    KeyLookupSound
    IdsFollowServer
    IndexFollowsUserinfo
    LookupsAgree
    EntriesAsSent
SYMMETRY UserSymmetry
PROPERTIES
    KeyNotLost
    TablesOnlyGrow
