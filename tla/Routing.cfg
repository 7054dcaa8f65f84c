\* Two local networks; broadcasts, and messages for a service that comes and goes.
SPECIFICATION Spec
CONSTANTS
    Computers = {A, B, C, D}
    lockd = lockd
    A = A
    B = B
    C = C
    D = D
    Link <- Square
    Site <- TwoLans
    Services = {lockd}
    Hosts <- OnAAndD
    Expected <- OnD
    Inputs <- FromTheCorners
    Addresses <- AllAddresses
    Address <- ByNetwork
    MyAddress <- OwnNetwork
    Lifetime = 1
    Ttl = 1
    MaxHops = 2
    MaxMessages = 2
    MaxTime = 2
INVARIANTS TypeOK AtMostOnce EveryoneTold ScopeIsKept ArrivesInOrder NothingForgotten ExpectedIsKept
CHECK_DEADLOCK FALSE
