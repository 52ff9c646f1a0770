SPECIFICATION Spec
CONSTANTS
    header = header
    proved = proved
    open = open
    definition = definition
    crash = crash
    Blank = Blank
    URI = {u1, u2}
    Source <- MCSource
    Code <- MCCode
    Content <- MCContent
    Panics <- MCPanics
    MaxVersion = 4
INVARIANTS
    SnapshotsLineUp
    TailIsFresh
    ProofStateAsFromScratch
    PoisonIsExplained
    ShownIsReported
PROPERTIES
    UpdateReuses
CHECK_DEADLOCK FALSE
