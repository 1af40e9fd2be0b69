SPECIFICATION Spec
CONSTANTS
  Vars <- MCVars
  Params <- MCParams
  Signatures <- MCSignatures
  Tokens <- StrayTokens
  MaxTokens = 3
  MaxDepth = 2
  MaxValues = 2
CHECK_DEADLOCK FALSE
INVARIANTS
  DefsDominateUses
