\* Two daemons; a lock that lasts longer than its obtention timeout.
SPECIFICATION Spec
CONSTANTS
    A = A
    B = B
    C = C
    Servers = {A, B}
    Clients = {1, 2}
    Home <- FirstOnA
    Duration <- Long
    ObtentionTimeout <- Short
    MaxLocks = 1
    MayStop = {}
    MaxTime = 4
INVARIANT MutualExclusion
ACTION_CONSTRAINT TwoAfterOne
CHECK_DEADLOCK FALSE
