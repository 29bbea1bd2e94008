CONSTANTS
    i1 = i1
    i2 = i2
    c1 = c1
    c2 = c2
    Interviews <- TwoInterviews
    Calls <- TwoCalls
    Retention = 2
    BatchSize = 1
    Deadline = 1
    MaxTime = 4
SPECIFICATION MCSpec
SYMMETRY Symmetric
INVARIANTS
    InterviewKeepsItsRows
    ListingFailsOnlyByErasure
PROPERTY SweepSparesTheRecent
CHECK_DEADLOCK FALSE
