\* Three daemons.
SPECIFICATION Spec
CONSTANTS
    A = A
    B = B
    C = C
    Servers = {A, B, C}
    Clients = {1, 2}
    Home <- FirstOnA
    Duration <- Long
    ObtentionTimeout <- Long
    MaxLocks = 1
    MayStop = {}
    MaxTime = 0
INVARIANT MutualExclusion
ACTION_CONSTRAINT OneAfterTwo
CHECK_DEADLOCK FALSE
