SPECIFICATION Spec
CONSTANTS
    Files <- MCFactFiles
    Core <- MCCore
    Alone <- MCNoneAlone
    MaxFiles = 2
    Depths <- MCDepths
    schematic <- MCschematic
    Builtins <- MCBuiltins
    verdict <- MCverdict
    InductNames <- MCInductNames
    CoinductNames <- MCCoinductNames
    MaxMethodDepth = 3
INVARIANT ProvedWithoutItself
CHECK_DEADLOCK FALSE
