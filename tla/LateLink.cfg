\* Two snaplocks that register before their computers are linked.
SPECIFICATION RingSpec
CONSTANTS
    Computers = {1, 2}
    Explicit <- LargestKnows
    MaxConnections = 100
    MayStop = {}
    MayVanish = {}
    MayFail = {}
    OneFault = FALSE
    MaxStarts = 2
    MaxOpen = 2
    LinksFirst = FALSE
    MaxLockStarts = 1
INVARIANT AwareOfUs
CHECK_DEADLOCK FALSE
