SPECIFICATION CheckSpec
CONSTANTS
    Size = 4
    Reach = 4
    Long = {3, 5}
    Thin = {1, 2}
    Gap = {1, 2}
    Distances = {0, 24, 25, 99, 100, 149, 150, 600}
    FlightTimes = {2}
    NicheSize = 2
    MaxRuns = 3
INVARIANTS
    GeometryAgrees
    ScoresInOrder
CHECK_DEADLOCK FALSE
