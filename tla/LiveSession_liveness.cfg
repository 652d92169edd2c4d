\* What must eventually happen, with a chat message and crashes.
SPECIFICATION FairSpec
CONSTANTS
    GameLength = 1
    MaxChats = 1
    MaxDrops = 0
    MaxFaults = 0
    Elapsing = {"waiting", "lifetime", "idle", "voice"}
    FaultyCalls = {}
    MayCrash = TRUE
    HasGrace = TRUE
PROPERTIES
    LifetimeEndsSession
    MutexIsReleased
