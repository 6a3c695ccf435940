SPECIFICATION VnodeSpec
CONSTANTS
  t1 = t1
  t2 = t2
  t3 = t3
  v1 = v1
  v2 = v2
  d1 = d1
  d2 = d2
  n1 = n1
  n2 = n2
  Thread <- MCThread
  VnodeT <- MCVnodeT
  Ino = {1}
  Dir <- MCDir
  Page <- MCPage
  MaxWrite = 2
  Written = {n1}
  FillOutcomes = {TRUE}
  DirtyOutcomes = {TRUE}
  CleanOutcomes = {TRUE, FALSE}
  NoVnode = NoVnode
  NoIno = NoIno
  NoName = NoName
  NoFrame = NoFrame
  Junk = Junk
SYMMETRY MCSymmetry
INVARIANTS
  VnodeSleeperAwaited
