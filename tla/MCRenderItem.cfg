SPECIFICATION Spec
CONSTANTS
  oVars = oVars
  V1 = V1
  W1 = W1
  C1 = C1
  M1 = M1
  I0 = I0
  I1 = I1
  f1 = f1
  f2 = f2
  f3 = f3
  f4 = f4
  f5 = f5
  f6 = f6
  f7 = f7
  f8 = f8
  kLoop = kLoop
  kIndex = kIndex
  kN = kN
  kX = kX
  kXs = kXs
  kM = kM
  page = page
  mid = mid
  base = base
  bBody = bBody
  bFoot = bFoot
  NULL = NULL
  Obj <- MCObj
  Key <- MCKey
  MaxLen = 2
  VARS = oVars
  LOOP = kLoop
  INDEX = kIndex
  Tmpl = {page, mid, base}
  Block = {bBody, bFoot}
  Pieces <- ItemPieces
  Projects <- LoopAsItem
  HostHeap <- MCHeap
  HostHold <- MCHold
  HostNum <- MCNum
  HostVar <- MCHostVar
  KeyOrder <- MCKeyOrder
  MaxRenders = 1
  MaxText = 16
  MaxDepth = 12
INVARIANT NoDangling
CHECK_DEADLOCK FALSE
