\* Two updates with a call of any model each, one retry, time for two ticks, one
\* piece of text, three events of a process.
CONSTANTS
  Models = {"codex", "openai", "gemini", "exec"}
  MaxRetries = 1
  Timeout = 2
  MaxText = 1
  MaxOutput = 3
  MaxUpdates = 2
  None = None
  Failed = Failed
SPECIFICATION SlowSpec
INVARIANTS
  AnswersAreWhole
  NothingLeftRunning
PROPERTIES
  NoDraftAfterReply
  TurnsEnd
CHECK_DEADLOCK FALSE
