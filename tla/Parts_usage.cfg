SPECIFICATION MCSpec
CONSTANTS
    None = None
    Absent = Absent
    Garbled = Garbled
    All = All
    paced = paced
    free = free
    r1 = r1
    r2 = r2
    Runs = {r1, r2}
    Models = {paced, free}
    Known = {paced, free}
    Interval <- MCInterval
    Limit <- MCLimit
    Estimate = 1
    Costs = {1}
    MAX_JUDGE_ATTEMPTS = 2
    MaxTime = 2
    MaxTurns = 2
INVARIANTS
    ChargesActualUsage
CHECK_DEADLOCK FALSE
