SPECIFICATION AllSpec
\* Three clients on two channels, fewer descriptors than would be used if none
\* were used again.
CONSTANTS
  Chan = {0, 1}
  SHELL = 0
  Client = {1, 2, 3}
  Fd = {4, 5, 6}
  Daemon = TRUE
  Talks = TRUE
  MaxMsg = 1
  MaxCmd = 3
  MaxNoise = 1
  NULL = NULL
  Nil = Nil
  Scripts <- MCScripts
  Lines <- MCLines
  Keys <- MCKeys
  Modes <- MCModes
  TypeAhead = FALSE
  TabLate = FALSE
INVARIANTS OneUnderWay ExitStatus OutputFiled WatchesClients FromOwnChannel
PROPERTIES ShellMoves 
CHECK_DEADLOCK FALSE
