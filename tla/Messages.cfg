SPECIFICATION MCSpec
CONSTANTS
    HeaderLength = 2
    MaxSize = 5
    Lengths <- MCLengths
    MaxMessages = 2
    Unread = Unread
    None = None
    Types <- MCTypes
    NoMessage = NoMessage
CHECK_DEADLOCK FALSE
INVARIANTS
    TypeOK
    FatalEndsParse
    DamageIsLocal
    SchemaAllOrNothing
    DecodesAsSent
PROPERTIES
    SchemaIsStable
    PacketsFinish
    ParseEnds
