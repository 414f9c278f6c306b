SPECIFICATION PauseSpec
CONSTANTS
  Caller = {c1}
  Box = {b1, b2, b3, b4}
  None = None
  MayPanic = FALSE
  IsIos = TRUE
SYMMETRY Symmetry
INVARIANTS SleepingBoxHasItsTimer WakeResumes MarkIsOfRunningBox
