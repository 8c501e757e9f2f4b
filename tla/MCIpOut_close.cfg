\* one connection, made while the client is being deleted.
CONSTANT MaxConnections = 1
SPECIFICATION FairSpec
PROPERTIES
    WorkerShutsDown
CHECK_DEADLOCK FALSE
