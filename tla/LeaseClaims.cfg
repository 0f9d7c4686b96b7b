SPECIFICATION Spec
CONSTANTS
    Items = {i1}
    Owners = {o1, o2}
    Daemons = {1, 2}
    Free = Free
    Ttls = {1}
    MaxTime = 2
    MaxCalls = 3
    MaxQueue = 2
    MaxStops = 1
INVARIANTS
    ActiveWorkerOwnsTheLease
PROPERTIES
    ExpiredLeaseIsFreed
CHECK_DEADLOCK FALSE
