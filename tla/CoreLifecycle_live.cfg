SPECIFICATION Spec
CONSTANTS
  Caller = {c1, c2}
  Box = {b1, b2}
  None = None
  MayPanic = FALSE
  IsIos = FALSE
PROPERTIES EveryCallReturns StatusSpec
