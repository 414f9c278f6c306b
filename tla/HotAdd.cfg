SPECIFICATION Spec
CONSTANTS
  Calls = {c1, c2, c3}
  Mains = {m1, m2}
  Selectors = {s1}
  Unknown = Unknown
  Default = Default
  None = None
SYMMETRY Symmetry
CHECK_DEADLOCK FALSE
INVARIANTS TypeOK MembersAreOpen NothingUnreachable NoOrphanHelper AddedIsUsable
