CONSTANTS
    i1 = i1
    i2 = i2
    r1 = r1
    r2 = r2
    r3 = r3
    p1 = p1
    p2 = p2
    Interviews <- TwoInterviews
    Requests <- TwoRequests
    Processes <- TwoProcesses
    Permits = 1
SPECIFICATION FairSpec
PROPERTY EveryRequestAnswered
CHECK_DEADLOCK FALSE
