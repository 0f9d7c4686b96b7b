SPECIFICATION FairSpec
CONSTANTS
    Events = {e1, e2, e3, e4, e5}
    BatchSize = 2
    MaxPending = 2
    MaxCrashes = 1
INVARIANTS
    PendingBounded
    FlushIsDue
PROPERTIES
    EveryEmitSettles
    ImplementsEventLog
CHECK_DEADLOCK FALSE
