\* The user leaves alone what is being sent.
SPECIFICATION FairSpec
CONSTANTS
    d = d
    f = f
    a = a
    b = b
    Junk = Junk
    Paths = {d, f}
    Above <- MCAbove
    Data = {a, b}
    Contents <- MCBlockContents
    SizeMessageText = 2
    Racy = FALSE
PROPERTIES
    ExchangeEnds
    ImplementsTransfer
