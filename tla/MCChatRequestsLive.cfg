\* Two sessions, one key, unkeyed turns beside keyed ones: liveness, and the
\* single-writer argument behind staged run ids.  No symmetry: it is unsound
\* for liveness.
CONSTANTS
  Clients = {c1, c2}
  Keys = {k1}
  Contents = {m1, m2}
  Notes = {n1}
  NoClient = NoClient
  Absent = Absent
  MaxRuns = 1
SPECIFICATION FairSpec
INVARIANT SingleWriter
PROPERTY EveryCallEnds
