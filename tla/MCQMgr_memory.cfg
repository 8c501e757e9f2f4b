\* Two clients that keep their buffers, three buffers, queue limits of 0 and 1:
\* the second buffer can already be flushed by an overflow, and both clients can
\* hold every buffer.
CONSTANTS
    c1 = c1
    c2 = c2
    Clients <- MCClients
    Retaining <- MCBothRetaining
    QueueSizes = {0, 1}
    MaxBuffers = 3
SPECIFICATION FairSpec
INVARIANTS
    TypeOK
    NoDoubleFree
    NoDanglingBuffer
    RefcountExact
    OnlyUnheardBuffersLeak
PROPERTIES
    QueuedBuffersMoveOn
    DestructorReturns
CHECK_DEADLOCK FALSE
