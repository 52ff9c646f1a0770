SPECIFICATION Spec
CONSTANTS
  ArithVars <- MCArithVars
  Terms <- MCTerms
  height <- MCheight
  Library = {"refl", "le_refl", "Suc_not_Zero", "zero_less_Suc", "not_less0", "add_left_cancel"}
  ArithGoals = {}
  max_steps = 2
  Largest = 2
  Problems = {}
  Literals <- MCLiterals
  depth <- MCdepth
  max_prover_steps = 60
  max_clauses = 14
  Formulas = {}
  FormulaTerms <- MCFormulaTerms
  size <- MCsize
  ClauseLists <- MCUnsolved
PROPERTY SolveReturns
CHECK_DEADLOCK FALSE
