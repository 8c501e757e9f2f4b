\* Two clients that release in the callback, five buffers, queue limits 0 and 1:
\* a flush of one and of two buffers at any point of a batch, and one buffer
\* more than both queues may hold together.
CONSTANTS
    c1 = c1
    c2 = c2
    Clients <- MCClients
    Retaining = {}
    QueueSizes = {0, 1}
    MaxBuffers = 5
SPECIFICATION Spec
INVARIANTS
    NoLostWakeup
    WakeupFindsData
    BacklogBounded
PROPERTIES
    DeliveredInOrder
    ImplementsFeed
CHECK_DEADLOCK FALSE
