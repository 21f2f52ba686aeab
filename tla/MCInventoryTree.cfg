\* Two browsers and the agent, two calls together.
CONSTANTS
  w1 = w1
  w2 = w2
  a1 = a1
  x = x
  y = y
  Sessions = {w1, w2, a1}
  Agents = {a1}
  Names = {x, y}
  Asked = {{"name"}, {"owner"}, {"note"}, {"name", "owner"}}
  Nil = Nil
  Start <- MCStart
  Keys <- MCKeys
  MaxCalls = 2
SPECIFICATION FairSpec
PROPERTIES
  UndisturbedCallsAreSound
  EditsKeepTheRest
  CallsEnd
CHECK_DEADLOCK FALSE
