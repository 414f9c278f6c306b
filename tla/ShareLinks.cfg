SPECIFICATION Spec
CONSTANTS
  Bodies <- MCBodies
  NoDialer = {"psiphon"}
  MaxCycles = 3
INVARIANTS
  NothingLost
  ReadersAgree
  DialectsAgree
  NeverWeaker
  CycleIsStable
  BadLineIsIsolated
PROPERTY ChainSpec
CHECK_DEADLOCK FALSE
