SPECIFICATION AllSpec
CONSTANTS
  MaxNameOps = 3
  Drive = {0, 1}
  BadDrive = 9
  MaxTokens = 6
  Lower <- MCLower
  Strings <- MCStrings
  Mounts <- MCMounts
  PcDirs0 <- MCPcDirs
  PcFiles0 <- MCPcFiles
  Cwd0 <- MCCwd
  Missing = Missing
  MaxFileOps = 2
  Element = {"host0:", "ms0:", "", ".", "..", "a", "b", "c"}
  Device = {"ms0:", "host0:"}
  OpensDir = {"host0:"}
  Args <- MCArgs
  Dirs0 <- MCDirs
  Files0 <- MCFiles
  Partial = "cut"
  MaxDepth = 3
  MaxMemOps = 2
  Limit = 32
  Radix = 4
  Page = 8
  V1 = FALSE
  Region <- MCRegions
  Mem0 <- MCMem
  Bytes = {1}
  Sizes = {2, 5, 30}
  Exprs <- MCExprs
  Patterns <- MCPatterns
  MaxIds = 2
  Syscall = {"s1"}
  Import = {"i1", "i2"}
  Stub = {"u1"}
  UserImport = {"i2"}
  Thread = {"t1"}
  MaxOps = 4
  MaxInside = 3
  MaxStartOps = 3
  MaxObjectOps = 3
  MaxCmd = 3
  MaxBreak = 2
  MaxDamage = 2
  MaxWord = 5
  Spelling <- MCSpelling
  Name = {"resetonexit", "pid"}
  Val = {"0", "1"}
  Dir = {"host0:/", "ms0:/"}
  Root = "host0:/"
  Room = 3
  Inis <- MCInis
  Module = {"m1", "m2"}
  ThreadId = {1, 2, 3}
  Flag = {1}
  MaxListed = 2
  None = None
  NULL = NULL
  Nil = Nil
INVARIANTS PathsResolve  NothingLost NoStray RunsItsFunction ConfigSafe TablesAgree EachAnswered
PROPERTIES FindsEvery  KillComplete
CHECK_DEADLOCK FALSE
