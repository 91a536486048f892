SPECIFICATION Spec
CONSTANTS
    Slots <- MCSlots
    Users <- MCUsers
    Lists <- MCLists
    UserKeys <- MCUserKeys
    Speeches <- MCSpeeches
    TeamNames = {20}
    MaxSafeInteger = 2
    None = None
INVARIANTS RightPlayer PayloadAsSent
