SPECIFICATION ExecSpec
CONSTANTS
  o1 = o1
  o2 = o2
  o3 = o3
  o4 = o4
  file = file
  PageSize = 2
  PtEntryCount = 2
  UserLow = 2
  UserHigh = 6
  WordSize = 14
  Object <- MCObject
  File = file
  FilePage = {1, 2}
  FileOff = {1}
  BrkAddr = {9, 11}
  MaxAreas = 3
  MapKind <- MCKinds
  TouchPage = {3, 4}
  Length = {2, 3, 6}
  CallAddr = {0, 5, 6, 8, 13}
  Program <- MCProgram
  StackPages = 1
  NoObj = NoObj
  NoEntry = NoEntry
  NoTable = NoTable
  NoPage = NoPage
VIEW MCView
CHECK_DEADLOCK FALSE
INVARIANTS
  AreasSound
  TableFollowsAreas
  ChecksAllButLast
PROPERTIES
  ImplementsPageMap
  RemovedButForSplits
