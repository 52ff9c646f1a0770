SPECIFICATION Spec
CONSTANTS
    Name <- MCName
    Stmt <- MCStmt
    Methods <- MCMethods
    MaxTheorems = 2
    MaxLemmas = 2
    MaxErrors = 1
    MaxLevel = 4
    MaxUsing = 1
INVARIANTS
    StoredHold
    SharedIsOfThisTheory
    OpenGoalsAreBackward
CHECK_DEADLOCK FALSE
