SPECIFICATION Spec
CONSTANTS
    GameLength = 1
    MaxChats = 0
    MaxDrops = 0
    MaxFaults = 0
    Elapsing = {"waiting", "lifetime", "idle", "voice"}
    FaultyCalls = {}
    MayCrash = FALSE
    HasGrace = TRUE
INVARIANT
    TerminalValueIsShared
