SPECIFICATION Spec
CONSTANTS
    Reqs = {1, 2, 3}
    PoolSize = 2
    Procs = {1, 2, 3}
    None = None
    MayThrow = {3}
    MaxOut = 1
INVARIANTS
    EachRequestHasOnePlace
    ServedInTurn
    AnswersMatch
    WorkersAreAccountedFor
CHECK_DEADLOCK FALSE
