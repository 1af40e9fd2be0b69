SPECIFICATION Spec
CONSTANTS
  Vars <- MCVars
  Params <- MCParams
  Signatures <- MCSignatures
  Tokens <- LabelTokens
  MaxTokens = 3
  MaxDepth = 3
  MaxValues = 2
CHECK_DEADLOCK FALSE
INVARIANTS
  IInv
