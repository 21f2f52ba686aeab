\* Two updates of every kind, two recovery attempts each, two faults at any
\* step, any number of lost messages; progress under fairness.
CONSTANTS
  MaxUpdates = 2
  MaxAttempts = 2
  MaxFaults = 2
SPECIFICATION FairSpec
INVARIANTS
  OneTurnPerUpdate
  CheckpointAfterAnswer
PROPERTIES
  NothingChangedIsTrue
  QueueMoves
  CommittedTurnsAreReported
