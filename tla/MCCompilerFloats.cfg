SPECIFICATION CompilerSpec
CONSTANTS
  Vars = {}
  Params <- FloatParams
  Signatures <- FloatSignatures
  Tokens = {"const"}
  MaxTokens = 2
  MaxDepth = 0
  MaxValues = 2
  GpRegs <- AllGp
  FpRegs <- AllFp
  MaxParams = 8
CHECK_DEADLOCK FALSE
INVARIANTS
  ArgumentsArrive
