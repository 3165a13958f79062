\* Two processes, two commands or builds, one edit, one kill or refused operation.
CONSTANTS
  Procs = {p1, p2}
  Versions <- MCVersions
  First = "v1"
  Broken <- MCBroken
  Unlowerable <- MCUnlowerable
  Options <- MCOptions
  MaxRuns = 2
  MaxEdits = 1
  MaxFaults = 1
  EditWhileBuilding = FALSE
SPECIFICATION Spec
INVARIANTS
  DirectoryConsistent
  NeverOlderThanSource
PROPERTIES
  SuccessLeavesThisBuild
  FailedLeavesNoOldCircuit
  ProcessesEnd
CHECK_DEADLOCK FALSE
