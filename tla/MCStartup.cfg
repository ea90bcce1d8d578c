SPECIFICATION StartupSpec
CONSTANTS
    patcher = patcher
    cli1 = cli1
    cli2 = cli2
    Patcher <- MCPatcher
    Cli <- MCCli
INVARIANTS
    PatchedOnce
    TornOnlyByCrash
    FinishedMeansPatched
CHECK_DEADLOCK FALSE
