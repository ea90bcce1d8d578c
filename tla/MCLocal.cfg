SPECIFICATION Spec
CONSTANTS
    Budget = 4
    PopSize = 2
    GatePercent = 0
    RefinePercent = 30
    TopK = 2
    NReruns = 2
    MaxRetries = 1
    MaxRunFailures = 2
    MaxFlakeRetries = 1
    ElitePerNiche = 1
    ParallelWorkers = 1
    RerunElites = TRUE
    Evolve = TRUE
    Isolated = FALSE
    Legal <- BarrenMission
    Flights <- BarrenFlights
    WallClock = {10, 20}
    MinTimeout = 20
    TimeoutTenths = 25
    RefineThreshold = 150
INVARIANTS
    LedgerExact
    ScoresFresh
    GoodPaceSurvives
    BudgetUsedUp
PROPERTIES
    Terminates
CHECK_DEADLOCK FALSE
