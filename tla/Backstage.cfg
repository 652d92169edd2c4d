SPECIFICATION Spec
CONSTANTS
    Person = {"p"}
    Room = {"r1"}
    Credential = {"c1", "c2"}
    HolderOf <- HolderOfMC
    MaxTicket = 2
    MaxUpgrade = 2
    MaxMoves = 2
    MaxUses = 3
    CredentialLife = 2
    TicketLife = 1
    UnattachedTimeout = 1
    MaxClock = 2
    Tab = {"b1", "b2"}
    User = {"ann", "bob"}
    MaxSession = 1
    LoginSlots = 1
    Idle = 1
    Absolute = 2
    TouchAfter = 0
    MaxTime = 2
    MaxRequests = 3
    MaxRestarts = 1
    Source = {"game", "agent"}
    EntrySizes = {1, 2, 3}
    MaxEntryBytes = 2
    MaxLogBytes = 4
    QueueCapacity = 2
    MaxCalls = 4
    MaxSent = 4
    Exact = 16
    IntLimit = 64
    Wire = {1, 2}
    WireBurst = 2
    WireRate = 1
    ChatBurst = 1
    ChatRate = 1
    Window = 2
    MaxSeconds = 2
    MaxMessages = 3
INVARIANTS
    TicketsAreSound
    AdminIsGuarded
    LogIsComplete
    RemoteIsFaithful
    RefusalsAreAccounted

    
CHECK_DEADLOCK FALSE
