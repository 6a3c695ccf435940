SPECIFICATION FilesSpec
CONSTANTS
  p1 = p1
  p2 = p2
  v1 = v1
  v2 = v2
  v3 = v3
  f1 = f1
  f2 = f2
  a = a
  b = b
  Proc <- MCProc
  VnodeT <- MCVnodeT
  FileT <- MCFileT
  Calls <- MCCalls
  Links <- MCLinks
  OpenFlags <- MCOpenFlags
  Name = {a, b}
  MaxFiles = 3
  MaxDirent = 4
  PageSize = 1
  NFILES = 2
  SeekTo = {2}
  MaxLost = 1
  Dot = Dot
  DotDot = DotDot
  NoName = NoName
  NoVnode = NoVnode
  NoInode = NoInode
  NoFile = NoFile
SYMMETRY MCSymmetry
CHECK_DEADLOCK FALSE
INVARIANTS
  FilesSound
  LinksAccounted
  DirectoriesFormATree
  StopsAccounted
PROPERTIES
  OpenFilesStay
