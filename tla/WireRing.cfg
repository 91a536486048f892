SPECIFICATION StringSpec
CONSTANTS
    NoValue = NoValue
    HistorySize = 2
    ServerHistory = 3
    MaxStringLength = 4
    Creates <- MCCreates
    Updates <- MCUpdates
    Snapshots <- MCSnapshots
    MaxMessages = 3
CHECK_DEADLOCK FALSE
INVARIANT EntriesOfAnyRing
