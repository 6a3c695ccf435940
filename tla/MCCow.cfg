SPECIFICATION CowSpec
CONSTANTS
  p1 = p1
  p2 = p2
  p3 = p3
  o1 = o1
  o2 = o2
  o3 = o3
  o4 = o4
  o5 = o5
  file = file
  a1 = a1
  n1 = n1
  w1 = w1
  w2 = w2
  Process <- MCProcess
  Object <- MCObject
  MapKind <- MCAnonPrivate
  File = file
  FileData <- MCBlankFile
  Area = {a1}
  Page = {n1}
  Word <- MCOneWord
  Value <- MCOneValue
  Zero = 0
  Written = {0}
  Root = p1
  NoObj = NoObj
  NoArea = NoArea
  NoPte = NoPte
  NotResident = NotResident
SYMMETRY MCSymmetry
CHECK_DEADLOCK FALSE
INVARIANTS
  ObjectsSound
  MapsLiveFrames
  WritesStayPrivate
PROPERTIES
  StaleOnlyByKernelWrite
