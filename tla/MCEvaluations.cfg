SPECIFICATION MCSpec
CONSTANTS
    o1 = o1
    o2 = o2
    None = None
    Operators <- TwoOperators
    MaxEdits = 4
    Inputs <- MCInputs
    Cases = 1
    Personas = 1
    Samples = 1
    MaxSessions = 2
    CallCap = 4
    Jobs = 2
    TargetPerJob = 2
    Warmups = 1
    MaxRequests = 6
    MaxCalls = 12
    PerJob = 1
    PreflightCalls = 5
    Versions <- MCVersions
    Labelled <- MCLabelled
    Finalised <- MCFinalised
    Regions = {"west", "east"}
    MaxRuns = 2
SYMMETRY Symmetric
CHECK_DEADLOCK FALSE
INVARIANTS
    InventoryIsTheReports
    MeasuresAddUp
    
    MetricsRestOnFrozenLabels
    EveryPaidCallOnRecord
    SampleIsBalanced
