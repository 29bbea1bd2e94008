CONSTANTS
    Names <- MCNames
    Plans <- MCPlans
    Budget <- MCBudget
    MaxFollowUps = 1
    Evaluations <- MCEvaluations
SPECIFICATION FairSpec
INVARIANTS
    TurnRecordedAsShown
    OneExchangePerTarget
    AssessedIffOnRecord
    RequiredAskedBeforePreferred
    RequiredMissedOnlyByBudgetOrEvidence
PROPERTIES
    ImplementsLedger
    InterviewCompletes
CHECK_DEADLOCK FALSE
