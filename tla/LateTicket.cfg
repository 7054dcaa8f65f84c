\* One daemon; a request times out before its ADDTICKET is processed.
SPECIFICATION Spec
CONSTANTS
    A = A
    B = B
    C = C
    Servers = {A}
    Clients = {1, 2}
    Home <- AllOnA
    Duration <- Minimum
    ObtentionTimeout <- Short
    MaxLocks = 1
    MayStop = {}
    MaxTime = 4
INVARIANT NoAbort
CHECK_DEADLOCK FALSE
