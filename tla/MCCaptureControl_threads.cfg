\* two threads, two calls each, two clients, properties of two fields that can
\* be read torn; the device's data is left to the other runs.
CONSTANTS
    t1 = t1
    t2 = t2
    c1 = c1
    c2 = c2
    f1 = f1
    f2 = f2
    r1 = r1
    r2 = r2
    Threads <- MCThreads
    DirectCallers = {}
    Clients <- MCClients
    Formats <- MCFormats
    Freqs <- MCFreqs
    CounterMod = 1
    MaxPerInterval = 0
    MaxCalls = 2
    MaxBatches = 1
SPECIFICATION Spec
INVARIANTS
    SettingsInForce
    CaptureFollowsClients
    MonitorFollowsCapture
CHECK_DEADLOCK FALSE
