SPECIFICATION BuildSpec
CONSTANTS
    i1 = i1
    i2 = i2
    NoIssue = NoIssue
    Issues <- TwoIssues
    Setups <- Either
    LadderLength = 3
    MaxEscalations = 1
    MaxRuns = 2
    MaxFaults = 1
SYMMETRY Symmetry
INVARIANTS BuildTypeOK PushedIsOwn ArmedIsJudged ParkedOrArmed BarredNeverArmed
PROPERTIES GreenIsOfTheHead
CHECK_DEADLOCK FALSE
