SPECIFICATION EverySpec
CONSTANTS
    Window = 2
    Space = 8
    RecordLimit = 11
    FailureLimit = 2
    MaxSeq = 31
    Peers = {a, b}
    CIDs = {1}
    MaxConnections = 2
    MaxHandshakes = 1
    MaxHelloEntries = 2
    Limit = 9
    EntryCost = 2
    MessageCost = 2
    ReplyCost = 1
    CookieLifetime = 1
    MaxTime = 1
    MaxAdmissions = 3
    MaxEvents = 4
    MaxSent = 3
    MaxGrams = 2
    MaxSession = 2
    SessionQueue = 1
    PendingQueue = 1
    DrainLimit = 2
    DialMaxAttempts = 2
    MaxChild = 2
INVARIANTS AtMostOnce NothingFreshRefused AccountsExact    ExchangeIsOwn
CHECK_DEADLOCK FALSE
