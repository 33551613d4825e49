\* A directory and its file, the user edits three times.
SPECIFICATION Spec
CONSTANTS
    d = d
    f = f
    a = a
    b = b
    Junk = Junk
    Paths = {d, f}
    Above <- MCAbove
    Data = {a, b}
    Holds <- MCHolds
    MaxEdits = 3
    MaxTime = 1
INVARIANTS
    TypeOK
    BackedUp
    SyncIsAlone
    NotLeftFrozen
CHECK_DEADLOCK FALSE
