\* Up to two statements; the field of 7 elements, constants of 16 bits,
\* templates of two rows on, windows of two rows.
CONSTANTS
  EncodeCircuit <- BuildFunctionBlob
  DecodeCircuit <- DecodeCore
  ReduceCircuit <- ReducedStream
  WriteRows <- RowsFile
  SolveCircuit <- SolveCompiled
  SmallBits = 15
  SmallBytes = 2
  MinRows = 2
  P = 7
  MaxProducts = 3
  WideLevel = 2
  WindowRows = 2
  InputValues = {1, 5}
  MaxStatements = 2
SPECIFICATION MCSpec
PROPERTIES
  RoundTrip
  ReductionKeepsSolutions
  EvaluationAgrees
  SolversAgree
  AnalyzersAgree
CHECK_DEADLOCK FALSE
