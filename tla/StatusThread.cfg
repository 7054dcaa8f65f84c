\* The status thread of snapmanagerdaemon.
SPECIFICATION Spec
CONSTANTS
    PollTimeout = 60000000
    MaxChanges = 1
    MaxResends = 2
    MaxConnects = 2
INVARIANTS TypeOK AlwaysAMessage NotDestroyedInUse
PROPERTIES WakesUpSoon StopsInTheEnd StatusIsKnown
CHECK_DEADLOCK FALSE
