SPECIFICATION Spec
CONSTANTS
  MaxFiles = 6
  MaxDirs = 2
  Fd <- MCFd
  Own = {0, 1, 2, 4}
  File = {f1, f2}
  FileSize = 0
  MaxSize = 3
  NumEntries = 2
  MaxBlock = 2
  MaxLen = 3
  Thread = {t1, t2}
  Handle = {h1, h2}
  DirHandle = {}
  MaxSession = 2
  Fresh = TRUE
  NULL = NULL
INVARIANTS ReadExact WriteExact HandleMeansFile
CHECK_DEADLOCK FALSE
SYMMETRY Symmetry
