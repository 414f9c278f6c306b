SPECIFICATION Spec
CONSTANTS
  Thread = {t1, t2}
  Server = {s1, s2}
  None = None
SYMMETRY Symmetry
INVARIANTS SetupLeavesLiveServer PortIsOwned FieldSurvives LevelIsExplicit
