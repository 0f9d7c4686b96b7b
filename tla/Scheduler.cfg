SPECIFICATION Spec
CONSTANTS
    Runs = {r1, r2}
    Calls = {c1, c2, c3, c4, c5}
    NoExec = NoExec
    MaxParallelRuns = 1
    Ops = {"create", "pause", "resume", "cancel", "close"}
    Careful = TRUE
    MaxTurns = 1
    MaxExecs = 2
    MaxCrashes = 1
SYMMETRY Symmetry
INVARIANTS
    
    
    YieldedCanBeWoken
PROPERTIES
    
    TerminalIsFinal
CHECK_DEADLOCK FALSE
