SPECIFICATION Spec
CONSTANTS
    w1 = w1
    w2 = w2
    Worker <- MCWorker
    MaxContainers = 3
    MaxCampaigns = 2
    UseGPU = TRUE
INVARIANTS
    NothingLeftBehind
    NoFlightBehindScript
PROPERTIES
    AttemptsEnd
CHECK_DEADLOCK FALSE
