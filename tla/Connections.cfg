\* One role connects twice, the other once.
SPECIFICATION FairSpec
CONSTANTS
    A = A
    B = B
    Role = {A, B}
    MaxGenerations <- Restless
INVARIANTS
    SocketsAreOrderly
PROPERTIES
    SocketsSettle
