CONSTANTS
  P = 17
  Reg = 2
  SmallBits = 3
  AccMax = 15
  MatThreshold = 3
  Plans <- HintPlans
SPECIFICATION Spec
PROPERTY Complete
CHECK_DEADLOCK FALSE
