\* One daemon; time passes, clients give up, stop and die.
SPECIFICATION Spec
CONSTANTS
    A = A
    B = B
    C = C
    Servers = {A}
    Clients = {1, 2}
    Home <- AllOnA
    Duration <- Minimum
    ObtentionTimeout <- Mixed
    MaxLocks = 1
    MayStop = {1}
    MaxTime = 5
INVARIANTS TypeOK HeldLockKeepsTicket OnlyLockedIsRead RequestsMatch
PROPERTY ImplementsLock
CHECK_DEADLOCK FALSE
