\* Two computers that crash, stop and lose their power; GOSSIP makes the link.
SPECIFICATION FairRingSpec
CONSTANTS
    Computers = {1, 2}
    Explicit <- SmallestKnows
    MaxConnections = 100
    MayStop = {1}
    MayVanish = {2}
    MayFail = {2}
    OneFault = TRUE
    MaxStarts = 3
    MaxOpen = 2
    LinksFirst = TRUE
    MaxLockStarts = 1
INVARIANTS TypeOK OneConnection GossipIsDurable RingComplete
PROPERTIES LockReadySettles Reconnects
CHECK_DEADLOCK FALSE
