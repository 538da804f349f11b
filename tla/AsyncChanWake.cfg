SPECIFICATION FairSpec
CONSTANTS
  MaxChannels = 2
  AsyncUser = 1
  MaxBuffer = 2
  Byte = {b1}
  Endp = {e1, e2}
  Thread = {t1, t2}
  MaxPacket = 2
  MaxLen = 1
  OwnerOnly = TRUE
  NULL = NULL
INVARIANT NoFault
PROPERTY DataWakes
