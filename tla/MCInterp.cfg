SPECIFICATION Spec
CONSTANTS
  Before = {"sel", "words", "gset"}
  Arms = {"inc", "call", "stT", "st0B", "trap", "stIdx", "ret", "req"}
  Far = {"stOob", "ldOob", "stFar", "ldFar"}
  Conds = {"a", "b", "ltT"}
  After = {"move", "copy", "fill", "icall"}
  Witness <- Inputs
  InputWidth <- InputWidths
  InputOf <- InputValues
  ByteBits = 2
  Half = 2
  PageBytes = 8
  MaxPages = 2
  IndexBits = 2
  ProbeSteps = 30
  MaxPathDepth = 6
  MaxDepth = 4
  MaxSteps = 250
PROPERTIES MergedStateExact LoweringComplete
CHECK_DEADLOCK FALSE
