SPECIFICATION Spec
CONSTANTS
  Depth = 2
  Items <- MCItems
  Tokens <- MCTokens
  MaxItems = 2
  MaxTokens = 5
INVARIANT LemmasAsWritten DeclarationsAsWritten CoreFactsHold TextAsWritten
CHECK_DEADLOCK FALSE
