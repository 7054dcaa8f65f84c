\* The snapcommunicator with the smaller address is stopped and started again.
SPECIFICATION FairRingSpec
CONSTANTS
    Computers = {1, 2}
    Explicit <- LargestKnows
    MaxConnections = 100
    MayStop = {1}
    MayVanish = {}
    MayFail = {}
    OneFault = FALSE
    MaxStarts = 3
    MaxOpen = 2
    LinksFirst = TRUE
    MaxLockStarts = 0
PROPERTY TriesUntilItWorks
CHECK_DEADLOCK FALSE
