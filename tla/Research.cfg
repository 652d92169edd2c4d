SPECIFICATION Spec
CONSTANTS
    Datum = {"x", "y"}
    MaxEvents = 4
    Alphabet <- AlphabetMC
    Person = {"p", "q"}
    Recruits = {"q"}
    MaxDialogues = 2
    MaxEarly = 1
    MaxWrites = 1
    CacheLife = 1
    FetchLimit = 1
    MaxTicks = 3
    MaxEdits = 1
    Submission = {"s1", "s2"}
    LaunchTab = {"t1", "t2"}
    KeyLife = 2
    MaxHour = 4
    MaxKey = 2
    MaxLaunches = 3
    Admin = {"ann", "bob"}
    Experiment = {"e", "f"}
    Endpoint = {"u"}
    MaxTexts = 3
    Manager = {"ann", "bob"}
    Field = {"speech", "prolific"}
    MaxUpdates = 3
    MaxStops = 1
    LiveAge = 0
    DelayedAge = 1
    WaitingTime = 1
    Lifetime = 2
    IdleTime = 1
    Grace = 1
    MaxNow = 3
INVARIANTS
    
    TableIsTrue
    
    CatalogueAgrees
PROPERTIES
    ProviderIsHeard
    NothingIsLost
    TimelineGrows
CHECK_DEADLOCK FALSE
