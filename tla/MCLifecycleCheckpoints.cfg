\* Three events of a task over two commits, thirteen of a batch over three.
CONSTANTS
  t1 = t1
  t2 = t2
  Nil = Nil
  Phases <- MCPhases
  Manifests <- MCManifests
  Modes = {"task", "batch"}
  MaxCommit <- MCCommits
  MaxEvents <- MCEvents
SPECIFICATION Spec
INVARIANTS
  AlwaysReadable
  EvidenceIsFresh
CHECK_DEADLOCK FALSE
