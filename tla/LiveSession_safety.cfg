\* Every race over the end of a session, with one lost connection and a
\* store that may refuse the end a reconnect timer wants to write.
SPECIFICATION Spec
CONSTANTS
    GameLength = 1
    MaxChats = 0
    MaxDrops = 1
    MaxFaults = 1
    Elapsing = {"waiting", "lifetime", "voice"}
    FaultyCalls = {"timer"}
    MayCrash = FALSE
    HasGrace = TRUE
INVARIANTS
    OneTerminalEvent
    LockedEndWins
PROPERTIES
    OutcomeIsImmutable
    ImplementsSessionOutcome
