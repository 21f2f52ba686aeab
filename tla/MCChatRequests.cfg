\* Safety of the idempotency gate and its refinement of the ledger: every
\* interleaving of three sessions on two keys and two contents, with crashes,
\* raising commits and recovery calls.
CONSTANTS
  Clients = {c1, c2, c3}
  Keys = {k1, k2}
  Contents = {m1, m2}
  Notes = {n1}
  NoClient = NoClient
  Absent = Absent
  MaxRuns = 0
SPECIFICATION Spec
SYMMETRY Symmetry
INVARIANTS
  AtomicCompletion
  SingleExecutor
  TruthfulReplies
PROPERTY ImplementsLedger
