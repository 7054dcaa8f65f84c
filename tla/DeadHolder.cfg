\* One daemon; the holder dies while the other client waits, to its deadline.
SPECIFICATION FairSpec
CONSTANTS
    A = A
    B = B
    C = C
    Servers = {A}
    Clients = {1, 2}
    Home <- AllOnA
    Duration <- Minimum
    ObtentionTimeout <- Mixed
    MaxLocks = 1
    MayStop = {1}
    MaxTime = 7
PROPERTY ExpiredLockIsDropped
CHECK_DEADLOCK FALSE
