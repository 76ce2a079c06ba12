SPECIFICATION EverySpec
CONSTANTS
    Input = 4
    Buffer = 2
    Sessions = 3
    Kinds = {"poll", "file", "deadline", "background"}
    FlightBurst = 4
    MaxQueuedAcks = 3
    MaxFaults = 2
    MaxConnectionIDs = 3
    RequestCount = 2
    Ceilings = {1200, 4000}
    Reductions = {0, 2}
    Capacities = {200, 1000, 3000}
    MinPathMTU = 256
    MaxMTUReductions = 8
    MaxMTUDiff = 20
    MaxSearchProbes = 24
    MaxConfirmFails = 3
    MaxWrites = 2
    MaxIncoming = 2
    MaxQueuedRecords = 1
    MaxArrivals = 3
INVARIANTS Conserved AckHonest PeerUnderstands WriteOutcome
PROPERTIES RaisedByProof Settles
CHECK_DEADLOCK FALSE
