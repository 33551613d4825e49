\* A client connects and says nothing.
SPECIFICATION FairServer
CONSTANTS
    u1 = u1
    u2 = u2
    c1 = c1
    c2 = c2
    c3 = c3
    w1 = w1
    w2 = w2
    None = None
    Listener = Listener
    Users = {u1, u2}
    Conns = {c1, c2}
    Owner <- MCOneEach
    Workers = {w1}
PROPERTIES
    SelectGoesOn
\* Clients may all stop, or hang up.
CHECK_DEADLOCK FALSE
