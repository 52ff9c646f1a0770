SPECIFICATION Spec
CONSTANTS
    open = open
    definition = definition
    crash = crash
    Blank = Blank
    URI = {u1, u2}
    Caller = {c1, c2, c3}
    Source <- MCSource
    Code <- MCCode
    Content <- MCContent
    Panics = {crash}
    Capacity = 1
    MaxWorkers = 2
    MaxVersion = 2
INVARIANTS
    PendingIsHeld
    CheckedWhatWasAsked
    GoneHasAReason
    ChecksAreNeverRefused
PROPERTIES
    CallsReturn
    OrphansEnd
