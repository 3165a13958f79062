CONSTANTS
  P = 17
  Reg = 2
  SmallBits = 3
  AccMax = 15
  MatThreshold = 3
  Plans <- MCPlans
SPECIFICATION Spec
PROPERTIES Sound HonestWitness FactsHold
CHECK_DEADLOCK FALSE
