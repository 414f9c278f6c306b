SPECIFICATION Spec
CONSTANTS
  Bodies <- MCBodies
  NoDialer = {"psiphon"}
  MaxCycles = 3
INVARIANT BareServersKept
CHECK_DEADLOCK FALSE
