SPECIFICATION Spec
CONSTANTS
    Names <- MCNames
    Headers <- MCHeaders
    Outcomes <- MCOutcomes
    Contents <- MCContents
    builtin <- MCbuiltin
    Builtins <- MCBuiltins
INVARIANTS
    EveryTheoryIsReported
    IncrementalIsWhole
PROPERTY OrderRespectsImports
CHECK_DEADLOCK FALSE
