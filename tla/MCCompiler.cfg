SPECIFICATION CompilerSpec
CONSTANTS
  Vars <- MCVars
  Params <- MCParams
  Signatures <- MCSignatures
  Tokens <- MCTokens
  MaxTokens = 3
  MaxDepth = 1
  MaxValues = 2
  GpRegs <- FewGp
  FpRegs <- FewFp
  MaxParams = 2
CHECK_DEADLOCK FALSE
INVARIANTS
  LivenessExact
  OperandsRead
  ArgumentsArrive
