\* One read fails on a connection that stays open.
SPECIFICATION FairSpec
CONSTANTS
    p = p
    q = q
    Path = {p, q}
    MaxEdits = 0
    MaxFaults = 1
    MaxErrors = 3
PROPERTIES
    RepairEnds
CHECK_DEADLOCK FALSE
