SPECIFICATION FairSpec
CONSTANTS
  Obj = {o1, o2, o3}
  Key = {k1}
  MaxLen = 2
  MaxHold = 2
  NULL = NULL
INVARIANTS TypeOK Shape RefExact NoDangling NoLeak
PROPERTY DestroyCompletes
CHECK_DEADLOCK FALSE
