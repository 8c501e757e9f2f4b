\* three buffers, three calls and a change of the properties, in any order, for files and sockets
CONSTANTS
    stereo48 = stereo48
    stereo24 = stereo24
    AudioProperties <- MCProperties
    DataRate <- MCRates
    BufferSizes = {1, 2}
    Durations = {1, 2}
    InitialPrecapture = 1
    MaxBuffers = 3
    MaxCalls = 3
    MaxChanges = 1
SPECIFICATION FairSpec
INVARIANTS
    BuffersAccounted
    RequestsAnsweredOnce
PROPERTIES
    TrimmedToDemand
    ImplementsClipSource
    EveryRequestEnds
CHECK_DEADLOCK FALSE
