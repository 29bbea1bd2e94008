SPECIFICATION Spec
CONSTANTS
    Names <- MCNames
    Budget <- MCBudget
    KnowledgeBase <- MCKnowledgeBase
    MaxCompetencies = 2
    MaxTechnologies = 2
    MaxTasks = 2
    MaxContext = 1
    MinOccupations = 3
    ListLimit = 2
    Specs <- MCSpecs
    Matches <- MCMatches
    Replies <- MCReplies
    Evaluations <- MCEvaluations
    MaxFollowUps = 1
    Pieces <- MCPieces
    SkillVocabulary <- MCSkills
    CompetencyVocabulary <- MCCompetencies
    Descriptions <- MCDescriptions
    Answers <- MCAnswers
    WordLengths <- MCWordLengths
    ExcerptLimit = 9
INVARIANTS
    PlanIsTheJobs
    
    ReportAccountsForInterview
    OfflineModelKeepsThePolicy
CHECK_DEADLOCK FALSE
