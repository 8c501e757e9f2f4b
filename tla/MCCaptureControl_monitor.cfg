\* One thread that also calls start() and stop() itself, and a device that
\* delivers up to two units in a monitor interval of a counter that wraps at 3.
CONSTANTS
    t1 = t1
    t2 = t2
    c1 = c1
    c2 = c2
    f1 = f1
    f2 = f2
    r1 = r1
    r2 = r2
    Threads <- MCOneThread
    DirectCallers <- MCOneThread
    Clients <- MCOneClient
    Formats <- MCOneFormat
    Freqs <- MCFreqs
    CounterMod = 3
    MaxPerInterval = 2
    MaxCalls = 4
    MaxBatches = 1
SPECIFICATION FairSpec
PROPERTIES
    StallReportExact
    CallsReturn
CHECK_DEADLOCK FALSE
