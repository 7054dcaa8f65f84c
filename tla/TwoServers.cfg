\* Two daemons, two clients that lock twice, no timeout.
SPECIFICATION FairSpec
CONSTANTS
    A = A
    B = B
    C = C
    Servers = {A, B}
    Clients = {1, 2}
    Home <- FirstOnA
    Duration <- Long
    ObtentionTimeout <- Long
    MaxLocks = 2
    MayStop = {}
    MaxTime = 0
INVARIANTS MutualExclusion BakeryOrder NoAbort NothingLeftBehind
PROPERTIES GrantsFollowTickets EveryLockIsObtained
CHECK_DEADLOCK FALSE
