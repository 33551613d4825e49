\* All pairs of strings of up to five characters: a whole turn and a second one.
SPECIFICATION Spec
CONSTANTS
    Byte = 4
    Chars <- MCChars
    BlockSize = 8
    Bit <- MCBit
    key <- MCKey
    Underscore <- MCUnderscore
    LOGIN <- MCLogin
    Slash <- MCSlash
    MaxLen = 5
    Code <- MCCode
INVARIANTS
    ShortNamesDiffer
    OwnPasswordOnly
    ParsedAsSent
    SentUnderItsName
CHECK_DEADLOCK FALSE
