SPECIFICATION FairSpec
CONSTANTS
    Runs = {r1, r2}
    Calls = {c1, c2, c3, c4}
    NoExec = NoExec
    MaxParallelRuns = 1
    Ops = {"create", "pause", "resume", "cancel", "close"}
    Careful = TRUE
    MaxTurns = 1
    MaxExecs = 1
    MaxCrashes = 0
PROPERTIES
    QueuedRunStarts
    CancelTakesEffect
    EveryCallReturns
CHECK_DEADLOCK FALSE
