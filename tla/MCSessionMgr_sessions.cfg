\* Three applications that open both types and name each other's sessions.
CONSTANTS
    receiver = receiver
    restarted = restarted
    bluetooth = bluetooth
    Callers <- MCCallers
    TypesOf <- MCTypesOf
    Conversions <- MCConversions
    Frequencies <- MCFrequencies
    DeviceDefault = "48000"
    MaxDuration = 7
    Durations <- MCDurations
    MaxSessions = 2
    MaxRequests = 1
SYMMETRY MCAlike
SPECIFICATION Spec
INVARIANTS
    
    CalledClientsAlive
    SessionsAccounted
    OneMusicIdClient
