\* Two commands and the application, two restores, two commits, three faults.
CONSTANTS
  p1 = p1
  p2 = p2
  d1 = d1
  NoFile = NoFile
  Broken = Broken
  Processes = {p1, p2}
  Destinations = {d1}
  MaxCommits = 2
  MaxRestores = 2
  MaxFaults = 3
SPECIFICATION Spec
SYMMETRY MCSymmetry
INVARIANTS
  Recoverable
PROPERTIES
  FailedRestoreKeeps
  RestoreIsDurable
  NothingOverwritten
