\* Two moves, no grace period, one store call that fails, crashes.
SPECIFICATION Spec
CONSTANTS
    GameLength = 2
    MaxChats = 0
    MaxDrops = 1
    MaxFaults = 1
    Elapsing = {"waiting", "idle", "voice"}
    FaultyCalls = {"initialize", "start", "submit", "abandon", "sweep"}
    MayCrash = TRUE
    HasGrace = FALSE
INVARIANTS
    DurableBeforeVisible
    MovesAreLogged
    IInv
