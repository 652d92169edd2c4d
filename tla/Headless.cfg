SPECIFICATION Spec
CONSTANTS
    Specs <- SpecsMC
    MaxInvocations = 3
    InitialStates <- InitialStatesMC
    Actions <- ActionsMC
    Accepts <- AcceptsMC
    ApplyAction <- ApplyActionMC
    Observation <- ObservationMC
    Completion <- CompletionMC
    Schedules = {"alternate_every_response", "alternate_after_action"}
    Trainings = {TRUE, FALSE}
    MaxDecisions = 4
    MaxActions = 3
    MaxMessages = 2
    MaxRejections = 2
    Limb = {1, 2, 3, 4}
    Root = {1, 2, 3, 4}
    Pairing <- PairingMC
    HoldLimit = 2
    Bloom = 2
    Level = {"dax", "wug"}
    Choice = {"oak", "pine"}
    Correct <- CorrectMC
INVARIANTS
    
    SessionIsEven
    GamesAreSound
PROPERTIES
    ResultIsImmutable
    EverythingEnds
CHECK_DEADLOCK FALSE
