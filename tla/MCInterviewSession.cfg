CONSTANTS
    i1 = i1
    i2 = i2
    r1 = r1
    r2 = r2
    r3 = r3
    p1 = p1
    p2 = p2
    Interviews <- TwoInterviews
    Requests <- ThreeRequests
    Processes <- TwoProcesses
    Permits = 1
SPECIFICATION Spec
SYMMETRY Symmetric
INVARIANTS
    TurnConsumedOnce
    OutcomeMatchesRecord
    ThreadsHoldCommitted
    TransactionsBounded
    PublishedHasCandidate
PROPERTY ImplementsTurnLog
CHECK_DEADLOCK FALSE
