\* Three moves on GitHub, two polls or three.
CONSTANTS
  c1 = c1
  c2 = c2
  s1 = s1
  CheckRuns = {c1, c2}
  Statuses = {s1}
  Timeout = 4
  Interval = 2
  Grace = 2
  MaxMoves = 3
SPECIFICATION WaitSpec
INVARIANTS
  VerdictIsTrue
PROPERTIES
  WaitEnds
CHECK_DEADLOCK FALSE
