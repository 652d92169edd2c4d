SPECIFICATION FairSpec
CONSTANTS
    Session = {s1}
    InboxSize = 6
    ActionLimit = 2
    MaxMessages = 2
    InvalidLimit = 2
    MaxPauses = 1
INVARIANTS
    AgentIsInStep
PROPERTIES
    AgentIsDisposed
CHECK_DEADLOCK FALSE
