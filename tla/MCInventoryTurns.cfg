\* One session at a time: any three calls of turns, requests and undos on up to
\* three lots of one or three pieces, and two photos.
SPECIFICATION Spec
CONSTANTS
  s1 = s1
  v1 = v1
  shelf = shelf
  box = box
  ref = ref
  None = None
  Sessions = {s1}
  Conversations = {v1}
  Locations = {shelf, box}
  Quantities <- MCCounted
  References = {ref}
  MaxItems = 3
  MaxPhotos = 2
  MaxCalls = 3
SYMMETRY MCSymmetry
INVARIANT RowsAreCoherent
PROPERTIES UndoRestores UndoFailsClosed UndoIsComplete
CHECK_DEADLOCK FALSE
