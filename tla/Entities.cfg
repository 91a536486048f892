SPECIFICATION MCSpec
CONSTANTS
    hp = hp
    Props = {hp}
    Values = {0, 1}
    Zero = 0
    Undefined = undefined
    VersionMod = 8
    EntityIds = {0, 1}
    MAX_EDICTS = 2
    Classes = {player, rules}
    ProxyClasses = {rules}
    DefaultCapacity = 1
    Absent = absent
    Corrupt = corrupt
    Blobs <- MCBlobs
    Changes <- MCChanges
    MaxObjects = 3
    None = None
    Payloads <- MCPayloads
    FlatProps <- MCFlatProps
    Messages <- MCMessages
    Known <- MCKnown
    ParsedClasses <- MCParsedClasses
    SlotNames <- MCSlotNames
    MaxPlayerSlots = 2
INVARIANTS
    TypeOK
    SlotsExclusive
    NoSlotLeak
    StaleIffUnlisted
    FlattensAsServer
    SortedByPriority
    DeltaRoundTrip
    ViewsShowWhatWasSent
PROPERTIES
    ImplementsEntityMap
    EntriesMatchMap
