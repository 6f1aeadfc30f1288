SPECIFICATION FairSpec
CONSTANTS
  k1 = k1
  k2 = k2
  k3 = k3
  Key <- MCKey
  Val = {v1, v2}
  Iter = {i1, i2}
  Cap = 3
  Pos <- MCPos
  NULL = NULL
  Done = Done
  Wild = Wild
INVARIANTS ChainsSound IterSound
PROPERTIES KeepsPromise IterationEnds
