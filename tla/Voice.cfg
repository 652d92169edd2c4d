SPECIFICATION Spec
CONSTANTS
    Socket = {"a1", "a2", "b1"}
    RoleOf <- RoleOfMC
    Scenes = {{"a1", "a2"}, {"a1", "b1"}}
    QueueCap = 2
    MaxFrame = 2
    MaxSpoken = 1
    FrameMs = 1
    Timestamps = {0, 3}
    MaxSeq = 3
    InputCap = 1
    EventCap = 1
    MaxFragments = 2
    FrameSamples = 2
    Prebuffer = 1
    SpeechCap = 1
    MaxChars = 4
    MaxSamples = 6
INVARIANTS
    RelayIsSound
    TranscriptIsTrue
    SpeechIsSound
    WordsAreWhole
PROPERTIES
    SupersededCloses
CHECK_DEADLOCK FALSE
