CONSTANTS
    i1 = i1
    i2 = i2
    r1 = r1
    r2 = r2
    r3 = r3
    r4 = r4
    Identities <- TwoIdentities
    Requests <- FourRequests
    Limits <- MCLimits
    MaxTracked = 3
    MaxEvents = 7
    Deadline = 1
    MaxTime = 4
SPECIFICATION Spec
SYMMETRY Symmetric
INVARIANTS
    WindowNeverOverdrawn
    RecordIsTheAdmissions
    RetryAfterIsEnough
CHECK_DEADLOCK FALSE
