\* Three rows over F_5, fill-in guard of one term.
CONSTANTS
  P = 5
  N = 3
  Internal = {2, 3}
  Fill = 1
  Programs <- SamplePrograms
SPECIFICATION Spec
INVARIANTS
  SolutionsPreserved
  ReducedForm
  TraceExplains
CHECK_DEADLOCK FALSE
