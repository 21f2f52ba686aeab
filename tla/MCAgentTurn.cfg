\* Three rounds, four calls, one commit of others.
CONSTANTS
  x = x
  y = y
  Names = {x, y}
  Nil = Nil
  Start <- MCStart
  MaxId = 3
  MaxRounds = 3
  MaxCalls = 4
  MaxEdits = 1
SPECIFICATION Spec
INVARIANTS
  TurnIsAtomic
PROPERTIES
  WritesHitTheNamedOne
CHECK_DEADLOCK FALSE
