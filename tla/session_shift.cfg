\* A file changed while the first synchronisation uploads the folder.
SPECIFICATION FairSpec
CONSTANTS
    p = p
    q = q
    Path = {p, q}
    MaxEdits = 1
    MaxFaults = 0
    MaxErrors = 3
PROPERTIES
    StoredWhenAcknowledged
CHECK_DEADLOCK FALSE
