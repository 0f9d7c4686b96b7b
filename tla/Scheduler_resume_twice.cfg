SPECIFICATION Spec
CONSTANTS
    Runs = {r1}
    Calls = {c1, c2, c3, c4}
    NoExec = NoExec
    MaxParallelRuns = 1
    Ops = {"create", "pause", "resume"}
    Careful = FALSE
    MaxTurns = 1
    MaxExecs = 2
    MaxCrashes = 0
SYMMETRY Symmetry
INVARIANTS
    ExecuteRunNeverRejects
CHECK_DEADLOCK FALSE
