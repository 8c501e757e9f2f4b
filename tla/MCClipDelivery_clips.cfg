\* one connection in use, one that replaces it, one that waits; a clip for two of them
CONSTANTS
    MaxConnections = 3
    MaxClips = 2
SPECIFICATION FairSpec
INVARIANTS
    OneConnection
    OneClipPerConnection
    ClipsAccounted
    DestroyedQuiet
PROPERTIES
    ConnectionEnds
    DestructorReturns
\* the client is destroyed
CHECK_DEADLOCK FALSE
