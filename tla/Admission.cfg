SPECIFICATION Spec
CONSTANTS
    p1 = p1
    p2 = p2
    Participant = {p1, p2}
    Tabs <- TwoTabs
    Session = {s1, s2}
    MaxUnattached = 1
    MaxWaiting = 1
    MaxActive = 1
    MaxStreams = 2
    FirstIntake = "testing"
    MaxSwitches = 2
    MaxSpare = 1
    MaxCleanups = 1
SYMMETRY Symmetry
INVARIANTS
    AdmissionIsSound
PROPERTIES
    PurposesNeverMix
