\* Two workers, a 2 x 3 matrix in tiles of one column, two calls in a row.
CONSTANTS
  W = 2
  N1 = 2
  N2 = 3
  Tile = 1
  MaxPoints = 3
  MaxCalls = 2
SPECIFICATION Spec
INVARIANTS
  BarrierHolds
  CountsJobs
  FailureReported
PROPERTIES
  ImplementsSerialPool
CHECK_DEADLOCK FALSE
