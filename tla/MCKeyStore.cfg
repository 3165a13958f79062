\* Setups, proofs and exports one at a time, and a setup beside a proof.
CONSTANTS
  c1 = c1
  c2 = c2
  r1 = r1
  r2 = r2
  Procs = {p1, p2}
  SetupProcs = {p1}
  Builds <- AllBuilds
  MaxKeys = 2
  BuildRaces = TRUE
  Absent = Absent
  Torn = Torn
SYMMETRY Interchangeable
SPECIFICATION MCSpec
INVARIANTS
  DirectoryDescribed
  DescribedKeyProvesAlone
PROPERTIES
  ExportsSound
