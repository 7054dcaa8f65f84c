\* One daemon; a client asks again after its timeout.
SPECIFICATION Spec
CONSTANTS
    A = A
    B = B
    C = C
    Servers = {A}
    Clients = {1, 2}
    Home <- AllOnA
    Duration <- Minimum
    ObtentionTimeout <- Short
    MaxLocks = 2
    MayStop = {}
    MaxTime = 3
INVARIANT MutualExclusion
CHECK_DEADLOCK FALSE
