SPECIFICATION Spec
CONSTANTS
  Vars <- MCVars
  Params <- MCParams
  Signatures <- MCSignatures
  Tokens <- MCTokens
  MaxTokens = 4
  MaxDepth = 2
  MaxValues = 2
CHECK_DEADLOCK FALSE
INVARIANTS
  JumpsLand
  DefsDominateUses
  SinksAreAssigned
  LoopsAdvance
