SPECIFICATION BuildSpec
CONSTANTS
    i1 = i1
    i2 = i2
    NoIssue = NoIssue
    Issues <- TwoIssues
    Setups <- Either
    LadderLength = 3
    MaxEscalations = 1
    MaxRuns = 3
    MaxFaults = 0
INVARIANT SpecPersists
CHECK_DEADLOCK FALSE
