SPECIFICATION Spec
CONSTANTS
    Candidate <- MCCandidate
    MaxEvaluated = 4
    Gate <- MCGate
    Frame <- MCFrame
    Config <- MCConfig
    DEFAULT_THRESHOLD_M = 30
    MIN_THRESHOLD_M = 1
INVARIANTS
    FlightsDistinct
    LeftOutForAReason
    BestSubmitted
    RelaxedAsNeeded
CHECK_DEADLOCK FALSE
