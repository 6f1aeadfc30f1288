SPECIFICATION Spec
CONSTANTS
  oVars = oVars
  oMin = oMin
  oNeg = oNeg
  oTwo = oTwo
  oVec = oVec
  oEmpty = oEmpty
  oMap = oMap
  oText = oText
  f1 = f1
  f2 = f2
  f3 = f3
  f4 = f4
  f5 = f5
  kMin = kMin
  kNeg = kNeg
  kVec = kVec
  kEmpty = kEmpty
  kMap = kMap
  kText = kText
  kNone = kNone
  NULL = NULL
  Obj <- MCObj
  Key <- MCKey
  MaxLen = 2
  VARS = oVars
  Width = 4
  HostHeap <- MCHeap
  HostHold <- MCHold
  HostWord <- MCWord
  SOURCE = 3
  Trees <- MCTrees
INVARIANTS Balanced HostUntouched MeansWhatItSays
