CONSTANTS
    s1 = s1
    s2 = s2
    e1 = e1
    c1 = c1
    c2 = c2
    c3 = c3
    Nobody = Nobody
    Seeds <- TwoSeeds
    Emails <- OneEmail
    Calls <- ThreeCalls
    Asks <- TwoWriters
    Ttl = 1
    MaxTime = 1
SPECIFICATION Spec
SYMMETRY Symmetric
INVARIANTS
    OnlyWhatTheCallerMayHave
    SignupAllOrNothing
 
CHECK_DEADLOCK FALSE
