CONSTANTS
    Names <- MCNames
    Plans <- MCPlans
    Budget <- MCBudget
    MaxFollowUps = 1
    Evaluations <- MCEvaluations
SPECIFICATION Spec
INVARIANTS
    PreferredNeverCrowdsOutRequired
CHECK_DEADLOCK FALSE
