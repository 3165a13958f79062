\* A key cut into any pushes, of the circuit's shape or off by one.
CONSTANTS
  Keys <- NearKeys
  Chunk = 2
  LenBytes = 2
  G1Bytes = 1
  G2Bytes = 2
  HeaderLimit = 5
  MaxExtra = 1
  NumInst = 1
  NumVars = 3
  RowCounts = {1, 3}
  Hints = {0, 2, 4}
  TwoAdicity = 3
SPECIFICATION Spec
INVARIANTS
  StreamInOrder
  FoldExact
  FittingKeyProves
CHECK_DEADLOCK FALSE
