SPECIFICATION Spec
CONSTANTS
  MinFrozen = 2
  MaxTime = 5
  Forward = {2}
  Back = {1, 3}
INVARIANTS ProbesExactlyAfterFreeze
