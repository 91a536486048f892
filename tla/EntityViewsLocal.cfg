SPECIFICATION GameSpec
CONSTANTS
    None = None
    Payloads <- MCPayloads
    FlatProps <- MCFlatProps
    Messages <- MCMessages
    Known <- MCKnown
    ParsedClasses <- MCParsedClasses
    SlotNames <- MCSlotNames
    MaxPlayerSlots = 2
CHECK_DEADLOCK FALSE
INVARIANT PositionOfEveryPlayer
