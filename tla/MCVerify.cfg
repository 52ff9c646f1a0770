SPECIFICATION Spec
CONSTANTS
    Files <- MCFiles
    Core <- MCCore
    Alone <- MCAlone
    MaxFiles = 2
    Depths <- MCDepths
    schematic <- MCschematic
    Builtins <- MCBuiltins
    verdict <- MCverdict
    InductNames <- MCInductNames
    CoinductNames <- MCCoinductNames
    MaxMethodDepth = 3
INVARIANTS
    StatsAccount
    ProvedIsTheLemma
    ResultsAreEntailed
    OverrideFollowsFile
CHECK_DEADLOCK FALSE
