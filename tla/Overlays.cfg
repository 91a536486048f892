SPECIFICATION SpecOverlays
CONSTANTS
    player = player
    team = team
    rules = rules
    resource = resource
    weapon = weapon
    Props = {}
    Values = {0}
    Zero = 0
    Undefined = undefined
    VersionMod = 8
    EntityIds = {0, 1, 2}
    MAX_EDICTS = 2
    Classes = {player, rules}
    ProxyClasses = {rules}
    DefaultCapacity = 1
    Absent = absent
    Corrupt = corrupt
    Blobs = {}
    Changes <- MCChanges
    MaxObjects = 3
    PlayerClass = player
    TeamClass = team
    RulesClass = rules
    ResourceClass = resource
    Clip1Classes = {weapon}
    NotBuilt = notBuilt
    Reads <- MCReads
    DeleteReads <- MCDeleteReads
INVARIANTS
    CacheComplete
    CacheSound
    SingletonFollows
    DeathIsAnnounced
