\* One command at a time, interrupted anywhere, over a directory of its own or
\* one that was edited.
CONSTANTS
  s1 = s1
  Procs = {p1}
  Circuits = {c1}
  Ptaus = {t1, t2}
  Seeds = {s1, s2}
  Secrets = {x1, x2, x3}
  Zero = zero
  MaxCount = 3
  Absent = Absent
  Torn = Torn
  Known = {x3, zero}
  EditedRest <- OneSeed
  EditedCount = 2
  MaxEdits = 2
SYMMETRY Contributors
SPECIFICATION CeremonySpec
INVARIANTS AcceptedSound MetadataDescribesKeys RecordedKept AcceptedLinksGenuine
PROPERTY FinalizedKeysFrozen
