SPECIFICATION Spec
CONSTANTS
    Waypoint <- MCWaypoint
    MaxItems = 3
    Bounds <- MCBounds
    SeedDraws = 2
    Along <- MCAlong
    Length <- MCLength
    Overhang <- MCOverhang
    GateWidth <- MCGateWidth
    Angle <- MCAngle
INVARIANTS
    SeededWhereItFlies
    DecodedAsTheGenesSay
    AcceptedIsLegal
CHECK_DEADLOCK FALSE
