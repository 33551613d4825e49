\* The user edits anything at any time.
SPECIFICATION Spec
CONSTANTS
    d = d
    f = f
    a = a
    b = b
    Junk = Junk
    Paths = {d, f}
    Above <- MCAbove
    Data = {a, b}
    Contents <- MCContents
    SizeMessageText = 2
    Racy = TRUE
INVARIANTS
    TypeOK
    InStep
    ReadsWhatWasMeant
    AcknowledgedMeansStored
\* The exchange can hang: see exchange_hang.cfg.
CHECK_DEADLOCK FALSE
