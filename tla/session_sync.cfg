\* Every pair of folders of two files, two edits, a failed read, a server that stops.
SPECIFICATION FairSpec
CONSTANTS
    p = p
    q = q
    Path = {p, q}
    MaxEdits = 2
    MaxFaults = 1
    MaxErrors = 3
INVARIANTS
    TypeOK
    InStep
    ReleasedAfterSync
PROPERTIES
    SyncedOrQueued
    SyncEnds
CHECK_DEADLOCK FALSE
