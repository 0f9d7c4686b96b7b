SPECIFICATION Spec
CONSTANTS
    i1 = i1
    i2 = i2
    i3 = i3
    u1 = u1
    u2 = u2
    cheap = cheap
    hard = hard
    usual = usual
    None = None
    Items = {i1, i2, i3}
    Item <- MCItem
    Steps <- MCSteps
    Pipelines = {"workflow", "match", "over", "check", "single"}
    Fragments = {"match-rebatch", "match-singleton", "workflow#fragment0", "workflow#fragment1", "single#fragment0"}
    Plan <- MCPlan
    Triggers <- MCTriggers
    First = "workflow"
    Default = usual
    Limit = 8
    Estimate = 1
    Costs = {1, 2}
    Sloppy = FALSE
INVARIANTS
    
    OverdraftIsOneTurn
    BatchesFitTheirWorkflow
PROPERTIES
    RunEnds
CHECK_DEADLOCK FALSE
