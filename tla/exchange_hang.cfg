\* The file being sent is removed.
SPECIFICATION FairSpec
CONSTANTS
    d = d
    f = f
    a = a
    b = b
    Junk = Junk
    Paths = {d, f}
    Above <- MCAbove
    Data = {a, b}
    Contents <- MCBlockContents
    SizeMessageText = 2
    Racy = TRUE
PROPERTIES
    FinalAckArrives
CHECK_DEADLOCK FALSE
