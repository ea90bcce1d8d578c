SPECIFICATION Spec
CONSTANTS
    Budget = 7
    PopSize = 3
    GatePercent = 30
    RefinePercent = 30
    TopK = 2
    NReruns = 2
    MaxRetries = 1
    MaxRunFailures = 2
    MaxFlakeRetries = 1
    ElitePerNiche = 1
    ParallelWorkers = 2
    RerunElites = FALSE
    Evolve = TRUE
    Isolated = TRUE
    Legal <- AlwaysLegal
    Flights <- AllFlights
    WallClock = {1}
    MinTimeout = 3
    TimeoutTenths = 25
    RefineThreshold = 150
INVARIANTS
    BudgetKept
    NicheQuota
    EffortBounded
    MeasuredAreEvaluated
    SuiteSound
PROPERTIES
    BestSurvives
CHECK_DEADLOCK FALSE
