\* three connections: one in use, one that replaces it, one that still waits.
CONSTANT MaxConnections = 3
SPECIFICATION FairSpec
INVARIANTS
    OneConnection
    DestroyedQuiet
PROPERTIES
    OnlyKnownHang
    CallbackReturns
\* the client is destroyed, or its destructor hangs
CHECK_DEADLOCK FALSE
