SPECIFICATION Spec
CONSTANTS
    a = a
    b = b
    c = c
    d = d
    Individual <- MCIndividual
    Unusable = {d}
    EvaluateLists <- MCEvaluateLists
    RerunLists <- MCRerunLists
    AttemptBudgets <- MCBudgets
    ParallelWorkers = 2
    MaxFlakeRetries = 1
INVARIANTS
    AttemptsWithinBudget
    MeasurementsPaired
    LedgerExact
    RetriesGoFirst
    RetriesExact
PROPERTIES
    Returns
    ImplementsPool
CHECK_DEADLOCK FALSE
