SPECIFICATION Spec
CONSTANTS
    HeaderLength = 2
    MaxSize = 5
    Lengths <- MCLengths
    MaxMessages = 2
    Unread = Unread
    None = None
CHECK_DEADLOCK FALSE
INVARIANT ChatDamageIsLocal
