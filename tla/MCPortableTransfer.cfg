\* Three places, two items; two commits during an export; four steps of others.
CONSTANTS
  x = x
  y = y
  Places = {1, 2, 3}
  Items = {1, 2}
  PlaceNames = {x, y}
  Nil = Nil
  Scenarios <- MCScenarios
  MaxOther = 4
  MaxKills = 1
SPECIFICATION TransferSpec
INVARIANTS
  ExportIsOneState
  ImportIsFaithful
  ReadersAgree
PROPERTIES
  NothingReplaced
CHECK_DEADLOCK FALSE
