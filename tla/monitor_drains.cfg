\* A directory with a file, which the user may remove both.
SPECIFICATION FairSpec
CONSTANTS
    d = d
    f = f
    a = a
    b = b
    Junk = Junk
    Paths = {d, f}
    Above <- MCAbove
    Data = {a, b}
    Holds <- MCOneContent
    MaxEdits = 2
    MaxTime = 1
PROPERTIES
    QueueDrains
CHECK_DEADLOCK FALSE
