SPECIFICATION Spec
CONSTANTS
  ConnectConfig = {c1, c2, c3}
  PingConfig = {g1}
  Empty = Empty
  Missing = Missing
SYMMETRY Symmetry
INVARIANTS NoPingReplayed ReplayIsNotStale ShownNameIsRunning
