SPECIFICATION CowSpec
CONSTANTS
  p1 = p1
  p2 = p2
  p3 = p3
  o1 = o1
  o2 = o2
  o3 = o3
  o4 = o4
  o5 = o5
  file = file
  a1 = a1
  n1 = n1
  w1 = w1
  w2 = w2
  Process <- MCTwoProcess
  Object <- MCThreeObject
  MapKind <- MCKinds
  File = file
  FileData <- MCFileData
  Area = {a1}
  Page = {n1}
  Word <- MCTwoWord
  Value <- MCTwoValue
  Zero = 0
  Written = {1}
  Root = p1
  NoObj = NoObj
  NoArea = NoArea
  NoPte = NoPte
  NotResident = NotResident
CHECK_DEADLOCK FALSE
PROPERTIES
  ImplementsMemory
