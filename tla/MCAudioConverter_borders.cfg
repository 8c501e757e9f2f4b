\* three frames become one, from buffers that end within such a group
CONSTANTS
    InProperties <- MCMusicInput
    OutProperties <- MCSlowOutput
    Queues <- MCFrameQueues
    Seconds = {1}
    Block = 2
SPECIFICATION Spec
INVARIANTS
    ContinuityKept
\* the conversion ends
CHECK_DEADLOCK FALSE
