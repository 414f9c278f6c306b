SPECIFICATION SafeSpec
CONSTANTS
  Caller = {c1, c2, c3}
  Box = {b1, b2, b3}
  None = None
  MayPanic = TRUE
  IsIos = FALSE
SYMMETRY Symmetry
INVARIANTS
  MutualExclusion StatusMatchesService NoServiceLeaked
  WatchersMatchService CancelledServiceIsStopping
