SPECIFICATION Spec
CONSTANTS
  Calls = {c1, c2}
  Ports = {p1, p2}
  None = None
CHECK_DEADLOCK FALSE
INVARIANTS UsedInstanceIsOpen NothingLeftOver AnswerIsHonest
PROPERTY EveryProbeAnswers
